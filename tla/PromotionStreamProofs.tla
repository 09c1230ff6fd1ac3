------------------------ MODULE PromotionStreamProofs ------------------------
(***************************************************************************)
(* Proofs about PromotionStream, for any documents, consumers, batch size, *)
(* retries and faults.  The inductive invariant IInv says where every      *)
(* reference behind a partition's position is: settled, or still open in   *)
(* the batch of the consumer that owns the partition.                      *)
(***************************************************************************)
EXTENDS PromotionStream, TLAPS

(* What offsets stand for is in the log.                                   *)
Logged == {item \in Offset : item[2] \in 1 .. Len(log[item[1]])}

OffsetsAreLogged ==
    /\ \A c \in Consumers : batch[c] \cup pending[c] \cup todo[c] \subseteq Logged
    /\ \A t \in Topics : committed[t] <= Len(log[t]) /\ position[t] <= Len(log[t])

(* What a batch has yet to publish an event for.                           *)
IsOpen(c, item) ==
    \/ pc[c] \in {"validate", "complete", "fail"} /\ item \in todo[c]
    \/ pc[c] \in {"validate", "promote"} \cup Writing /\ item \in pending[c]

BatchSettles(c) ==
    /\ \A item \in batch[c] : Settled(MessageAt(item)) \/ IsOpen(c, item)
    /\ pc[c] = "poll" => batch[c] = {}

BatchesSettle == \A c \in Consumers : BatchSettles(c)

(* An owner's partition, up to its position.                               *)
PositionSettles(t) ==
    owner[t] # None =>
        /\ \A i \in 1 .. position[t] :
              Settled(log[t][i]) \/ <<t, i>> \in batch[owner[t]]
        /\ \A item \in batch[owner[t]] : item[1] = t => item[2] <= position[t]

PositionsSettle == \A t \in Topics : PositionSettles(t)

CommitsAreSettled == \A t \in Topics : \A i \in 1 .. committed[t] : Settled(log[t][i])

(* A consumer about to append has deleted what was there, unless somebody  *)
(* committed since.                                                        *)
AppendFindsNone(c) ==
    pc[c] = "append" /\ "segments" \notin stale[c] =>
        \A item \in pending[c] : segments[DocAt(item)] = 0

AppendsFindNone == \A c \in Consumers : AppendFindsNone(c)

(* Bad input leaves a batch before anything is written.                    *)
DropsBadInput(c) ==
    /\ \A item \in pending[c] : DocAt(item) \notin Invalid
    /\ pc[c] = "validate" => \A item \in todo[c] : DocAt(item) \in Invalid
    /\ pc[c] \in Writing \cup {"complete"} =>
          \A item \in pending[c] : DocAt(item) \notin Defective
    /\ pc[c] = "complete" => todo[c] \subseteq pending[c]

BadInputIsDropped == \A c \in Consumers : DropsBadInput(c)

(* What the steps before have written is there.                            *)
HasWritten(c) ==
    \A item \in pending[c] :
        /\ pc[c] \in {"delete", "append", "claims", "curate", "complete"} =>
              DocAt(item) \in documents
        /\ pc[c] \in {"curate", "complete"} => DocAt(item) \in claims
        /\ pc[c] = "complete" => DocAt(item) \in curated

WrittenSoFar ==
    /\ \A c \in Consumers : HasWritten(c)
    /\ completed \subseteq documents \cap claims \cap curated

IInv ==
    /\ TypeOK
    /\ OffsetsAreLogged
    /\ BatchesSettle
    /\ PositionsSettle
    /\ CommitsAreSettled
    /\ AppendsFindNone
    /\ NoDuplicateSegments
    /\ BadInputIsDropped
    /\ QuarantineStaysOut
    /\ WrittenSoFar

-------------------------------------------------------------------------------
(* Without evictions a batch is its partition's owner's, and uncommitted.  *)
BatchIsOwned(c) ==
    \A item \in batch[c] : owner[item[1]] = c /\ committed[item[1]] < item[2]

(* Until its segments are appended a batch is pending, but for bad input.  *)
BatchIsPending(c) ==
    /\ pc[c] \in {"validate", "promote", "fail"} \cup Writing => pending[c] \subseteq batch[c]
    /\ pc[c] = "fail" => todo[c] \subseteq pending[c]

CommitsTrail == \A t \in Topics : owner[t] # None => committed[t] <= position[t]

(* A reference that will have its segments written: it is delivered again, *)
(* or is in a batch that has yet to append or to hand it on.               *)
WillWrite(c, item) ==
    /\ item \in batch[c]
    /\ \/ /\ pc[c] \in {"validate", "promote", "documents", "delete", "append"}
          /\ item \in pending[c]
       \/ pc[c] = "fail" /\ item \in todo[c]

ToBeWritten(item) ==
    /\ committed[item[1]] < item[2]
    /\ \/ owner[item[1]] = None
       \/ item[2] > position[item[1]]
       \/ \E c \in Consumers : WillWrite(c, item)

Appended == completed \cup
    UNION {DocsOf(pending[c]) : c \in {o \in Consumers : pc[o] \in {"claims", "curate", "complete"}}}

SegmentsReturn(d) ==
    \/ segments[d] = 1
    \/ d \in dlq
    \/ \E item \in Logged : DocAt(item) = d /\ ToBeWritten(item)

MissingSegmentsReturn == \A d \in Appended : SegmentsReturn(d)

WholeInv ==
    /\ \A c \in Consumers : BatchIsOwned(c) /\ BatchIsPending(c)
    /\ CommitsTrail
    /\ MissingSegmentsReturn
-------------------------------------------------------------------------------
(* Types.                                                                  *)

(* What is on a topic is a message for a document.                         *)
LEMMA MessagesAreTyped ==
    ASSUME TypeOK, NEW item \in Logged
    PROVE  /\ item \in Topics \X Nat /\ item[1] \in Topics /\ item[2] \in Nat \ {0}
           /\ MessageAt(item) \in Message /\ DocAt(item) \in Docs
           /\ MessageAt(item).attempt \in Nat
<1>1. item[1] \in Topics /\ item[2] \in 1 .. Len(log[item[1]]) /\ item \in Topics \X Nat
  BY DEF Logged, Offset
<1>2. log[item[1]] \in Seq(Message)
  BY <1>1 DEF TypeOK
<1>3. MessageAt(item) \in Message
  BY <1>1, <1>2 DEF MessageAt
<1> QED
  BY <1>1, <1>2, <1>3 DEF DocAt, Message

(* What a consumer is at work on are documents.                            *)
LEMMA DocsAreTyped ==
    ASSUME TypeOK, OffsetsAreLogged, NEW c \in Consumers
    PROVE  DocsOf(pending[c]) \subseteq Docs /\ DocsOf(todo[c]) \subseteq Docs
  BY MessagesAreTyped DEF OffsetsAreLogged, DocsOf

(* A consumer is idle again.                                               *)
LEMMA BatchOverTypeOK ==
    ASSUME TypeOK, NEW c \in Consumers, BatchOver(c)
    PROVE  /\ pc' \in [Consumers -> Pcs]
           /\ batch' \in [Consumers -> SUBSET Offset]
           /\ pending' \in [Consumers -> SUBSET Offset]
           /\ todo' \in [Consumers -> SUBSET Offset]
           /\ stale' \in [Consumers -> SUBSET Tables]
  BY DEF BatchOver, TypeOK, Pcs

(* A batch is what lies between two positions of the consumer's partitions.*)
Polled(c, upto, items) ==
    /\ \A t \in Topics : IF owner[t] = c THEN upto[t] \in position[t] .. Len(log[t])
                                      ELSE upto[t] = position[t]
    /\ \A t \in Topics, i \in Nat :
          <<t, i>> \in items <=> position[t] < i /\ i <= upto[t]
    /\ position' = upto
    /\ batch' = [batch EXCEPT ![c] = items]
    /\ todo' = [todo EXCEPT ![c] = {item \in items : IsInvalid(item)}]
    /\ pending' = [pending EXCEPT ![c] = {item \in items : ~IsInvalid(item)}]

Between(n, upto) ==
    {item \in Topics \X (1 .. n) :
        position[item[1]] < item[2] /\ item[2] <= upto[item[1]]}

(* A poll moves positions up to some offset of each topic and takes what   *)
(* it passed.                                                              *)
LEMMA PollSteps ==
    ASSUME TypeOK, NEW c \in Consumers, Poll(c)
    PROVE  \E upto \in [Topics -> Nat], items \in SUBSET (Topics \X Nat) :
              Polled(c, upto, items)
<1>1. PICK n \in Nat : n = Len(log["primary"]) + Len(log["retry"])
  <2>1. log["primary"] \in Seq(Message) /\ log["retry"] \in Seq(Message)
    BY DEF TypeOK, Topics
  <2>2. PICK one, two \in Seq(Message) : one = log["primary"] /\ two = log["retry"]
    BY <2>1
  <2>3. Len(one) \in Nat /\ Len(two) \in Nat
    OBVIOUS
  <2>4. Len(one) + Len(two) \in Nat
    BY <2>3
  <2> QED
    BY <2>2, <2>4
<1>2. PICK upto \in [Topics -> 0 .. n] :
        /\ \A t \in Topics : IF owner[t] = c THEN upto[t] \in position[t] .. Len(log[t])
                                          ELSE upto[t] = position[t]
        /\ position' = upto
        /\ batch' = [batch EXCEPT ![c] = Between(n, upto)]
        /\ todo' = [todo EXCEPT ![c] = {item \in Between(n, upto) : IsInvalid(item)}]
        /\ pending' = [pending EXCEPT ![c] = {item \in Between(n, upto) : ~IsInvalid(item)}]
  BY <1>1 DEF Poll, Between
<1>3. PICK items : items = Between(n, upto)
  OBVIOUS
<1>4. items \in SUBSET (Topics \X Nat) /\ upto \in [Topics -> Nat]
  BY <1>3 DEF Between
<1>5. \A t \in Topics, i \in Nat : <<t, i>> \in items <=> position[t] < i /\ i <= upto[t]
  <2> SUFFICES ASSUME NEW t \in Topics, NEW i \in Nat
               PROVE  <<t, i>> \in items <=> position[t] < i /\ i <= upto[t]
    OBVIOUS
  <2>1. position[t] \in Nat /\ upto[t] \in 0 .. n
    BY DEF TypeOK
  <2>2. position[t] < i /\ i <= upto[t] => i \in 1 .. n
    BY <2>1
  <2> QED
    BY <1>3, <2>2 DEF Between
<1>6. Polled(c, upto, items)
  BY <1>2, <1>3, <1>5 DEF Polled
<1> QED
  BY <1>4, <1>6

(* Types at the beginning.                                                 *)
LEMMA InitTypeOK == Init => TypeOK
<1> SUFFICES ASSUME Init PROVE TypeOK
  OBVIOUS
<1>1. evicted \in BOOLEAN
  BY DEF Init
<1> QED
  BY <1>1 DEF Init, TypeOK, Topics, Pcs, Offset, Message

(* Types, step by step.                                                    *)
LEMMA NextTypeOK ==
    ASSUME TypeOK, OffsetsAreLogged, [Next]_vars
    PROVE  TypeOK'
<1> USE DEF broker, events, zones, consumers
<1>1. ASSUME NEW d \in Docs, Announce(d) PROVE TypeOK'
  <2>1. [doc |-> d, attempt |-> 0] \in Message /\ "primary" \in Topics
    BY DEF Message, Topics
  <2>2. log["primary"] \in Seq(Message)
    BY <2>1 DEF TypeOK
  <2>3. Append(log["primary"], [doc |-> d, attempt |-> 0]) \in Seq(Message)
    BY <2>1, <2>2
  <2>4. log' \in [Topics -> Seq(Message)]
    BY <1>1, <2>1, <2>3 DEF Announce, TypeOK
  <2>5. faults' \in Nat
    BY <1>1 DEF Announce, Fault, TypeOK
  <2> QED
    BY <1>1, <2>4, <2>5 DEF Announce, TypeOK
<1>2. ASSUME NEW c \in Consumers, NEW t \in Topics, Assign(t, c) PROVE TypeOK'
  BY <1>2 DEF Assign, TypeOK
<1>3. ASSUME NEW c \in Consumers, Evict(c) PROVE TypeOK'
  BY <1>3 DEF Evict, Released, Fault, TypeOK
<1>4. ASSUME NEW c \in Consumers, Poll(c) PROVE TypeOK'
  <2>1. PICK upto \in [Topics -> Nat], items \in SUBSET (Topics \X Nat) : Polled(c, upto, items)
    BY <1>4, PollSteps
  <2>2. pc' = [pc EXCEPT ![c] = "validate"] /\ "validate" \in Pcs
        /\ UNCHANGED <<log, committed, owner, evicted, events, zones, stale, faults>>
    BY <1>4 DEF Poll, Pcs
  <2> QED
    BY <2>1, <2>2 DEF TypeOK, Offset, Polled
<1>5. ASSUME NEW c \in Consumers, QuarantineInvalid(c) \/ PublishCompletion(c) PROVE TypeOK'
  <2>1. \A item \in todo[c] : DocAt(item) \in Docs
    BY MessagesAreTyped DEF OffsetsAreLogged
  <2> QED
    BY <1>5, <2>1 DEF QuarantineInvalid, PublishCompletion, TypeOK
<1>6. ASSUME NEW c \in Consumers,
             Validated(c) \/ QuarantineDefect(c) \/ StartPromotion(c) \/ Published(c)
      PROVE  TypeOK'
  <2>1. DocsOf(pending[c]) \subseteq Docs
    BY DocsAreTyped
  <2>2. CASE Validated(c) \/ StartPromotion(c) \/ Published(c)
    BY <2>2 DEF Validated, StartPromotion, Published, TypeOK, Pcs, Writing
  <2>3. CASE QuarantineDefect(c)
    BY <2>1, <2>3 DEF QuarantineDefect, TypeOK, Pcs
  <2> QED
    BY <1>6, <2>2, <2>3
<1>7. ASSUME NEW c \in Consumers, UpsertDocuments(c) PROVE TypeOK'
  <2>1. DocsOf(pending[c]) \subseteq Docs
    BY DocsAreTyped
  <2>2. stale' \in [Consumers -> SUBSET Tables]
    BY <1>7 DEF UpsertDocuments, Committing, TypeOK, Tables
  <2> QED
    BY <1>7, <2>1, <2>2 DEF UpsertDocuments, TypeOK, Pcs, Writing
<1>8. ASSUME NEW c \in Consumers, DeleteSegments(c) PROVE TypeOK'
  <2>1. stale' \in [Consumers -> SUBSET Tables]
    <3>1. stale' = stale \/ Committing("segments", c)
      BY <1>8 DEF DeleteSegments
    <3> QED
      BY <3>1 DEF Committing, TypeOK, Tables
  <2>2. segments' \in [Docs -> Nat]
    BY <1>8 DEF DeleteSegments, TypeOK
  <2> QED
    BY <1>8, <2>1, <2>2 DEF DeleteSegments, TypeOK, Pcs, Writing
<1>9. ASSUME NEW c \in Consumers, AppendSegments(c) PROVE TypeOK'
  <2>1. stale' \in [Consumers -> SUBSET Tables]
    BY <1>9 DEF AppendSegments, Committing, TypeOK, Tables
  <2>2. segments' \in [Docs -> Nat]
    BY <1>9 DEF AppendSegments, TypeOK
  <2> QED
    BY <1>9, <2>1, <2>2 DEF AppendSegments, TypeOK, Pcs, Writing
<1>10. ASSUME NEW c \in Consumers, FlushClaims(c) \/ CommitCurated(c) PROVE TypeOK'
  <2>1. DocsOf(pending[c]) \subseteq Docs
    BY DocsAreTyped
  <2> QED
    BY <1>10, <2>1 DEF FlushClaims, CommitCurated, TypeOK, Pcs, Writing
<1>11. ASSUME NEW c \in Consumers, Conflict(c) \/ PromotionRaises(c) PROVE TypeOK'
  <2>1. PromotionFails(c) /\ faults' \in Nat
    BY <1>11 DEF Conflict, PromotionRaises, Fault, TypeOK
  <2> QED
    BY <2>1 DEF PromotionFails, TypeOK, Pcs
<1>12. ASSUME NEW c \in Consumers, PublishFailure(c) PROVE TypeOK'
  <2>1. PICK item \in todo[c] :
          /\ IF RoutedToRetry(MessageAt(item))
             THEN /\ log' = [log EXCEPT !["retry"] = Append(log["retry"],
                               [doc |-> MessageAt(item).doc,
                                attempt |-> MessageAt(item).attempt + 1])]
                  /\ UNCHANGED dlq
             ELSE /\ dlq' = dlq \cup {MessageAt(item).doc}
                  /\ UNCHANGED log
          /\ todo' = [todo EXCEPT ![c] = todo[c] \ {item}]
    BY <1>12 DEF PublishFailure
  <2>2. MessageAt(item) \in Message
    BY MessagesAreTyped DEF OffsetsAreLogged
  <2>3. [doc |-> MessageAt(item).doc, attempt |-> MessageAt(item).attempt + 1] \in Message
        /\ MessageAt(item).doc \in Docs
    BY <2>2 DEF Message
  <2>4. "retry" \in Topics /\ log["retry"] \in Seq(Message)
    BY DEF TypeOK, Topics
  <2>5. Append(log["retry"], [doc |-> MessageAt(item).doc,
                              attempt |-> MessageAt(item).attempt + 1]) \in Seq(Message)
    BY <2>3, <2>4
  <2>6. log' \in [Topics -> Seq(Message)] /\ dlq' \subseteq Docs
    BY <2>1, <2>3, <2>4, <2>5 DEF TypeOK
  <2> QED
    BY <1>12, <2>1, <2>6 DEF PublishFailure, TypeOK
<1>13. ASSUME NEW c \in Consumers, CommitOffset(c) PROVE TypeOK'
  <2>1. PICK item \in batch[c] :
          /\ committed' = [committed EXCEPT ![item[1]] = item[2]]
          /\ BatchOver(c) \/ (/\ batch' = [batch EXCEPT ![c] = batch[c] \ {item}]
                              /\ UNCHANGED <<pc, pending, todo, stale>>)
    BY <1>13 DEF CommitOffset, NextToCommit
  <2>2. item[2] \in Nat
    BY MessagesAreTyped DEF OffsetsAreLogged
  <2>3. committed' \in [Topics -> Nat]
    BY <2>1, <2>2 DEF TypeOK
  <2>4. UNCHANGED <<log, position, owner, evicted, events, zones, faults>>
    BY <1>13 DEF CommitOffset
  <2>5. CASE BatchOver(c)
    BY <2>3, <2>4, <2>5, BatchOverTypeOK DEF TypeOK
  <2>6. CASE batch' = [batch EXCEPT ![c] = batch[c] \ {item}] /\ UNCHANGED <<pc, pending, todo, stale>>
    BY <2>3, <2>4, <2>6 DEF TypeOK
  <2> QED
    BY <2>1, <2>5, <2>6
<1>14. ASSUME NEW c \in Consumers, CommitFails(c) \/ Crash(c) PROVE TypeOK'
  <2>1. /\ BatchOver(c) /\ owner' \in [Topics -> Consumers \cup {None}] /\ faults' \in Nat
        /\ UNCHANGED <<log, committed, position, evicted, events, zones>>
    BY <1>14 DEF CommitFails, Crash, Released, Fault, TypeOK
  <2> QED
    BY <2>1, BatchOverTypeOK DEF TypeOK
<1>15. CASE UNCHANGED vars
  BY <1>15 DEF vars, TypeOK
<1> QED
  BY <1>1, <1>2, <1>3, <1>4, <1>5, <1>6, <1>7, <1>8, <1>9, <1>10, <1>11, <1>12, <1>13, <1>14,
     <1>15 DEF Next, RunOnce
-------------------------------------------------------------------------------
(* Logs and events only grow.                                              *)

LogsGrow ==
    \A t \in Topics :
        /\ Len(log[t]) \in Nat /\ Len(log'[t]) \in Nat /\ Len(log[t]) <= Len(log'[t])
        /\ DOMAIN log[t] = 1 .. Len(log[t]) /\ DOMAIN log'[t] = 1 .. Len(log'[t])
        /\ \A i \in 1 .. Len(log[t]) : log'[t][i] = log[t][i]

EventsGrow ==
    completed \subseteq completed' /\ quarantined \subseteq quarantined' /\ dlq \subseteq dlq'

(* A message appended to a topic leaves those before it where they are.    *)
LEMMA AppendGrows ==
    ASSUME TypeOK, NEW t \in Topics, NEW m \in Message,
           log' = [log EXCEPT ![t] = Append(log[t], m)]
    PROVE  /\ LogsGrow
           /\ Len(log'[t]) = Len(log[t]) + 1 /\ log'[t][Len(log[t]) + 1] = m
<1>1. \A s \in Topics : log[s] \in Seq(Message)
  BY DEF TypeOK
<1>2. /\ log'[t] = Append(log[t], m) /\ \A s \in Topics \ {t} : log'[s] = log[s]
  BY DEF TypeOK
<1>3. PICK l \in Seq(Message) : l = log[t]
  BY <1>1
<1>4. /\ Len(l) \in Nat /\ Len(Append(l, m)) = Len(l) + 1
      /\ Append(l, m)[Len(l) + 1] = m /\ \A i \in 1 .. Len(l) : Append(l, m)[i] = l[i]
      /\ DOMAIN l = 1 .. Len(l) /\ DOMAIN Append(l, m) = 1 .. Len(l) + 1
  OBVIOUS
<1>5. \A s \in Topics \ {t} : /\ Len(log[s]) \in Nat /\ DOMAIN log[s] = 1 .. Len(log[s])
                              /\ log'[s] = log[s]
  BY <1>1, <1>2
<1> QED
  BY <1>2, <1>3, <1>4, <1>5 DEF LogsGrow

(* A log that does not change has not lost a message.                      *)
LEMMA LogsAtRest == TypeOK /\ log' = log => LogsGrow
<1> SUFFICES ASSUME TypeOK, log' = log, NEW t \in Topics
             PROVE  Len(log[t]) \in Nat /\ DOMAIN log[t] = 1 .. Len(log[t])
  BY DEF LogsGrow
<1>1. log[t] \in Seq(Message)
  BY DEF TypeOK
<1> QED
  BY <1>1

(* What PublishFailure publishes.                                          *)
FailurePublished(c, item) ==
    /\ item \in todo[c]
    /\ todo' = [todo EXCEPT ![c] = todo[c] \ {item}]
    /\ \/ /\ dlq' = dlq \cup {DocAt(item)} /\ log' = log
       \/ /\ dlq' = dlq
          /\ LogsGrow
          /\ \E t \in Topics, i \in Nat :
                /\ t = "retry" /\ i > Len(log[t]) /\ i \in DOMAIN log'[t]
                /\ log'[t][i] = [doc |-> DocAt(item), attempt |-> MessageAt(item).attempt + 1]

(* A failure goes to the retry topic or the dead letters, for one item.    *)
LEMMA PublishFailureSteps ==
    ASSUME TypeOK, OffsetsAreLogged, NEW c \in Consumers, PublishFailure(c)
    PROVE  LogsGrow /\ \E item : FailurePublished(c, item)
<1>1. PICK item \in todo[c] :
        /\ \/ /\ log' = [log EXCEPT !["retry"] = Append(log["retry"],
                           [doc |-> MessageAt(item).doc,
                            attempt |-> MessageAt(item).attempt + 1])]
              /\ dlq' = dlq
           \/ /\ dlq' = dlq \cup {MessageAt(item).doc}
              /\ log' = log
        /\ todo' = [todo EXCEPT ![c] = todo[c] \ {item}]
  BY DEF PublishFailure
<1>2. PICK m : m = [doc |-> MessageAt(item).doc, attempt |-> MessageAt(item).attempt + 1]
  OBVIOUS
<1>3. m \in Message
  BY <1>2, MessagesAreTyped DEF OffsetsAreLogged, DocAt, Message
<1>4. CASE log' = log /\ dlq' = dlq \cup {MessageAt(item).doc}
  <2>1. FailurePublished(c, item)
    BY <1>1, <1>4 DEF FailurePublished, DocAt
  <2> QED
    BY <1>4, <2>1, LogsAtRest
<1>5. CASE dlq' = dlq /\ log' = [log EXCEPT !["retry"] = Append(log["retry"], m)]
  <2>1. PICK t \in Topics : t = "retry"
    BY DEF Topics
  <2>2. log' = [log EXCEPT ![t] = Append(log[t], m)]
    BY <1>5, <2>1
  <2>3. LogsGrow /\ Len(log'[t]) = Len(log[t]) + 1 /\ log'[t][Len(log[t]) + 1] = m
    BY <1>3, <2>2, AppendGrows
  <2>4. PICK i \in Nat : i = Len(log[t]) + 1
    BY <2>3 DEF LogsGrow
  <2>5. i > Len(log[t]) /\ i \in DOMAIN log'[t] /\ log'[t][i] = m
    BY <2>3, <2>4 DEF LogsGrow
  <2>6. FailurePublished(c, item)
    BY <1>1, <1>2, <1>5, <2>1, <2>3, <2>5 DEF FailurePublished, DocAt
  <2> QED
    BY <2>3, <2>6
<1> QED
  BY <1>1, <1>2, <1>4, <1>5

(* A step of one consumer, in the part of its round the step belongs to.   *)
StepOf(c) ==
    RunOnce(c) \/ PromotionRaises(c) \/ Evict(c) \/ Crash(c) \/ \E t \in Topics : Assign(t, c)

Receives(c) ==
    Poll(c) \/ QuarantineInvalid(c) \/ Validated(c) \/ QuarantineDefect(c) \/ StartPromotion(c)

Writes(c) == UpsertDocuments(c) \/ DeleteSegments(c) \/ AppendSegments(c) \/ FlushClaims(c)

Concludes(c) == CommitCurated(c) \/ Conflict(c) \/ PromotionRaises(c)

Reports(c) ==
    PublishCompletion(c) \/ PublishFailure(c) \/ Published(c) \/ CommitOffset(c) \/ CommitFails(c)

Regroups(c) == Evict(c) \/ Crash(c) \/ \E t \in Topics : Assign(t, c)

LEMMA StepHasParts ==
    ASSUME NEW c \in Consumers, StepOf(c)
    PROVE  Receives(c) \/ Writes(c) \/ Concludes(c) \/ Reports(c) \/ Regroups(c)
  BY DEF StepOf, RunOnce, Receives, Writes, Concludes, Reports, Regroups

(* A step is one consumer's, an announcement or a stutter.                 *)
LEMMA NextHasParts ==
    ASSUME [Next]_vars
    PROVE  \/ \E c \in Consumers : StepOf(c)
           \/ \E d \in Docs : Announce(d)
           \/ UNCHANGED vars
  BY DEF Next, StepOf

(* Who moves offsets, partitions and batches.                              *)
MovesOffsets(c) ==
    Poll(c) \/ CommitOffset(c) \/ CommitFails(c) \/ Evict(c) \/ Crash(c)
        \/ \E t \in Topics : Assign(t, c)

LEMMA OffsetsRest ==
    ASSUME [Next]_vars
    PROVE  \/ UNCHANGED <<committed, position, owner, batch>>
           \/ \E c \in Consumers : MovesOffsets(c)
<1> USE DEF broker, events, zones, consumers
<1>1. ASSUME NEW c \in Consumers, StepOf(c)
      PROVE  UNCHANGED <<committed, position, owner, batch>> \/ MovesOffsets(c)
  <2>1. CASE QuarantineInvalid(c) \/ Validated(c) \/ QuarantineDefect(c) \/ StartPromotion(c)
    BY <2>1 DEF QuarantineInvalid, Validated, QuarantineDefect, StartPromotion
  <2>2. CASE Writes(c)
    BY <2>2 DEF Writes, UpsertDocuments, DeleteSegments, AppendSegments, FlushClaims
  <2>3. CASE Concludes(c)
    BY <2>3 DEF Concludes, CommitCurated, Conflict, PromotionRaises, PromotionFails
  <2>4. CASE PublishCompletion(c) \/ PublishFailure(c) \/ Published(c)
    BY <2>4 DEF PublishCompletion, PublishFailure, Published
  <2> QED
    BY <1>1, <2>1, <2>2, <2>3, <2>4, StepHasParts DEF Receives, Reports, Regroups, MovesOffsets
<1>2. ASSUME NEW d \in Docs, Announce(d) PROVE UNCHANGED <<committed, position, owner, batch>>
  BY <1>2 DEF Announce
<1> QED
  BY <1>1, <1>2, NextHasParts DEF vars

(* Segments are deleted and appended in two steps, and by no other.        *)
LEMMA SegmentsRest ==
    ASSUME [Next]_vars
    PROVE  segments' = segments \/ \E c \in Consumers : DeleteSegments(c) \/ AppendSegments(c)
<1> USE DEF broker, events, zones, consumers
<1>1. ASSUME NEW c \in Consumers, StepOf(c)
      PROVE  segments' = segments \/ DeleteSegments(c) \/ AppendSegments(c)
  <2>1. CASE Receives(c)
    BY <2>1 DEF Receives, Poll, QuarantineInvalid, Validated, QuarantineDefect, StartPromotion
  <2>2. CASE UpsertDocuments(c) \/ FlushClaims(c)
    BY <2>2 DEF UpsertDocuments, FlushClaims
  <2>3. CASE Concludes(c)
    BY <2>3 DEF Concludes, CommitCurated, Conflict, PromotionRaises, PromotionFails
  <2>4. CASE Reports(c)
    BY <2>4 DEF Reports, PublishCompletion, PublishFailure, Published, CommitOffset, CommitFails
  <2>5. CASE Regroups(c)
    BY <2>5 DEF Regroups, Evict, Crash, Assign
  <2> QED
    BY <1>1, <2>1, <2>2, <2>3, <2>4, <2>5, StepHasParts DEF Writes
<1>2. ASSUME NEW d \in Docs, Announce(d) PROVE segments' = segments
  BY <1>2 DEF Announce
<1> QED
  BY <1>1, <1>2, NextHasParts DEF vars

(* No step takes a message from a topic or takes an event back.            *)
LEMMA NextGrows ==
    ASSUME TypeOK, OffsetsAreLogged, [Next]_vars
    PROVE  LogsGrow /\ EventsGrow
<1> USE DEF broker, events, zones, consumers
<1>1. ASSUME NEW d \in Docs, Announce(d) PROVE LogsGrow
  <2>1. PICK t \in Topics : t = "primary"
    BY DEF Topics
  <2>2. PICK m \in Message : m = [doc |-> d, attempt |-> 0]
    BY DEF Message
  <2>3. log' = [log EXCEPT ![t] = Append(log[t], m)]
    BY <1>1, <2>1, <2>2 DEF Announce
  <2> QED
    BY <2>3, AppendGrows
<1>2. ASSUME NEW c \in Consumers, StepOf(c) PROVE (log' = log \/ LogsGrow) /\ EventsGrow
  <2>1. CASE Receives(c)
    BY <2>1 DEF Receives, Poll, QuarantineInvalid, Validated, QuarantineDefect, StartPromotion,
       EventsGrow
  <2>2. CASE Writes(c)
    BY <2>2 DEF Writes, UpsertDocuments, DeleteSegments, AppendSegments, FlushClaims, EventsGrow
  <2>3. CASE Concludes(c)
    BY <2>3 DEF Concludes, CommitCurated, Conflict, PromotionRaises, PromotionFails, EventsGrow
  <2>4. CASE Reports(c)
    <3>1. LogsGrow \/ log' = log
      BY <2>4, PublishFailureSteps DEF Reports, PublishCompletion, Published, CommitOffset,
         CommitFails
    <3>2. EventsGrow
      BY <2>4 DEF Reports, PublishCompletion, PublishFailure, Published, CommitOffset,
         CommitFails, EventsGrow
    <3> QED
      BY <3>1, <3>2
  <2>5. CASE Regroups(c)
    BY <2>5 DEF Regroups, Evict, Crash, Assign, EventsGrow
  <2> QED
    BY <1>2, <2>1, <2>2, <2>3, <2>4, <2>5, StepHasParts
<1>3. (log' = log \/ LogsGrow) /\ EventsGrow
  <2>1. ASSUME NEW d \in Docs, Announce(d) PROVE EventsGrow
    BY <2>1 DEF Announce, EventsGrow
  <2>2. CASE UNCHANGED vars
    BY <2>2 DEF vars, EventsGrow
  <2> QED
    BY <1>1, <1>2, <2>1, <2>2, NextHasParts
<1> QED
  BY <1>2, <1>3, LogsAtRest

(* A logged message stays where it is, and is for the same document.       *)
LEMMA LoggedStays ==
    ASSUME LogsGrow, NEW item \in Logged
    PROVE  /\ item \in Logged'
           /\ (MessageAt(item))' = MessageAt(item) /\ (DocAt(item))' = DocAt(item)
<1>1. item \in Offset /\ item[1] \in Topics /\ item[2] \in 1 .. Len(log[item[1]])
  BY DEF Logged, Offset
<1>2. log'[item[1]][item[2]] = log[item[1]][item[2]] /\ item[2] \in 1 .. Len(log'[item[1]])
  BY <1>1 DEF LogsGrow
<1> QED
  BY <1>1, <1>2 DEF Logged, Offset, MessageAt, DocAt

(* What is settled stays settled.                                          *)
LEMMA SettledStays ==
    ASSUME LogsGrow, EventsGrow, NEW m, Settled(m)
    PROVE  (Settled(m))'
<1>1. PICK t \in Topics : t = "retry"
  BY DEF Topics
<1>2. CASE m.doc \in completed \cup quarantined \cup dlq
  BY <1>2 DEF Settled, EventsGrow
<1>3. ASSUME NEW i \in DOMAIN log[t], log[t][i] = [doc |-> m.doc, attempt |-> m.attempt + 1]
      PROVE  (Settled(m))'
  <2>1. i \in DOMAIN log'[t] /\ log'[t][i] = log[t][i]
    BY DEF LogsGrow
  <2> QED
    BY <1>1, <1>3, <2>1 DEF Settled
<1> QED
  BY <1>1, <1>2, <1>3 DEF Settled
-------------------------------------------------------------------------------
(* Batches: what they hold is in the log, and settled or still open.       *)

(* What a poll takes is logged, owned by the consumer, and between the old *)
(* and the new positions.                                                  *)
LEMMA PolledItems ==
    ASSUME TypeOK, OffsetsAreLogged, NEW c \in Consumers,
           NEW upto \in [Topics -> Nat], NEW items \in SUBSET (Topics \X Nat),
           Polled(c, upto, items)
    PROVE  /\ items \subseteq Logged
           /\ \A item \in items :
                owner[item[1]] = c /\ position[item[1]] < item[2] /\ item[2] <= upto[item[1]]
           /\ \A t \in Topics : position[t] <= upto[t] /\ upto[t] <= Len(log[t])
<1>1. \A t \in Topics : Len(log[t]) \in Nat
  <2>1. \A t \in Topics : log[t] \in Seq(Message)
    BY DEF TypeOK
  <2> QED
    BY <2>1
<1>2. \A t \in Topics : position[t] \in Nat /\ upto[t] \in Nat
  BY DEF TypeOK
<1>3. \A t \in Topics : position[t] <= upto[t] /\ upto[t] <= Len(log[t])
  BY <1>1, <1>2 DEF Polled, OffsetsAreLogged
<1>4. \A item \in items :
        /\ item[1] \in Topics /\ item[2] \in Nat /\ item = <<item[1], item[2]>>
        /\ position[item[1]] < item[2] /\ item[2] <= upto[item[1]]
  BY DEF Polled
<1>5. \A item \in items : owner[item[1]] = c
  BY <1>2, <1>4 DEF Polled
<1>6. \A item \in items : item[2] \in 1 .. Len(log[item[1]])
  BY <1>1, <1>2, <1>3, <1>4
<1> QED
  BY <1>3, <1>4, <1>5, <1>6 DEF Logged, Offset

(* Positions, commits and batches stay within the logs.                    *)
LEMMA NextOffsetsAreLogged ==
    ASSUME TypeOK, OffsetsAreLogged, [Next]_vars
    PROVE  OffsetsAreLogged'
<1> USE DEF broker, events, zones, consumers
<1>1. LogsGrow
  BY NextGrows
<1>2. ASSUME /\ \A o \in Consumers : batch'[o] \cup pending'[o] \cup todo'[o] \subseteq Logged
             /\ \A t \in Topics : committed'[t] <= Len(log[t]) /\ position'[t] <= Len(log[t])
      PROVE  OffsetsAreLogged'
  <2>1. Logged \subseteq Logged'
    BY <1>1, LoggedStays
  <2>2. \A t \in Topics : committed'[t] \in Nat /\ position'[t] \in Nat
    BY NextTypeOK DEF TypeOK
  <2>3. \A t \in Topics : committed'[t] <= Len(log'[t]) /\ position'[t] <= Len(log'[t])
    BY <1>1, <1>2, <2>2 DEF LogsGrow
  <2> QED
    BY <1>2, <2>1, <2>3 DEF OffsetsAreLogged
<1>3. CASE UNCHANGED <<batch, pending, todo, committed, position>>
  BY <1>2, <1>3 DEF OffsetsAreLogged
<1>4. ASSUME NEW c \in Consumers, NEW t \in Topics, Assign(t, c) PROVE OffsetsAreLogged'
  <2>1. \A s \in Topics : position'[s] = position[s] \/ position'[s] = committed[s]
    BY <1>4 DEF Assign, TypeOK
  <2> QED
    BY <1>2, <1>4, <2>1 DEF OffsetsAreLogged, Assign
<1>5. ASSUME NEW c \in Consumers, Poll(c) PROVE OffsetsAreLogged'
  <2>1. PICK upto \in [Topics -> Nat], items \in SUBSET (Topics \X Nat) : Polled(c, upto, items)
    BY <1>5, PollSteps
  <2>2. items \subseteq Logged /\ \A t \in Topics : upto[t] <= Len(log[t])
    BY <2>1, PolledItems
  <2>3. committed' = committed
    BY <1>5 DEF Poll
  <2>4. \A o \in Consumers : batch'[o] \cup pending'[o] \cup todo'[o] \subseteq Logged
    BY <2>1, <2>2 DEF Polled, OffsetsAreLogged, TypeOK
  <2>5. \A t \in Topics : committed'[t] <= Len(log[t]) /\ position'[t] <= Len(log[t])
    BY <2>1, <2>2, <2>3 DEF Polled, OffsetsAreLogged
  <2> QED
    BY <1>2, <2>4, <2>5
<1>6. ASSUME NEW c \in Consumers,
             QuarantineInvalid(c) \/ QuarantineDefect(c) \/ CommitCurated(c) \/ Conflict(c)
               \/ PromotionRaises(c) \/ PublishCompletion(c) \/ CommitFails(c) \/ Crash(c)
      PROVE  OffsetsAreLogged'
  <2>1. UNCHANGED <<committed, position>>
    BY <1>6 DEF QuarantineInvalid, QuarantineDefect, CommitCurated, Conflict, PromotionRaises,
       PromotionFails, PublishCompletion, CommitFails, Crash
  <2>2. \A o \in Consumers : /\ batch'[o] \subseteq batch[o] /\ pending'[o] \subseteq pending[o]
                             /\ todo'[o] \subseteq todo[o] \cup pending[o]
    <3>1. CASE QuarantineInvalid(c) \/ QuarantineDefect(c) \/ CommitCurated(c)
      BY <3>1 DEF QuarantineInvalid, QuarantineDefect, CommitCurated, TypeOK
    <3>2. CASE Conflict(c) \/ PromotionRaises(c)
      BY <3>2 DEF Conflict, PromotionRaises, PromotionFails, TypeOK
    <3>3. CASE PublishCompletion(c) \/ CommitFails(c) \/ Crash(c)
      BY <3>3 DEF PublishCompletion, CommitFails, Crash, BatchOver, TypeOK
    <3> QED
      BY <1>6, <3>1, <3>2, <3>3
  <2> QED
    BY <1>2, <2>1, <2>2 DEF OffsetsAreLogged
<1>7. ASSUME NEW c \in Consumers, PublishFailure(c) PROVE OffsetsAreLogged'
  <2>1. /\ UNCHANGED <<committed, position, batch, pending>>
        /\ \A o \in Consumers : todo'[o] \subseteq todo[o]
    BY <1>7 DEF PublishFailure, TypeOK
  <2> QED
    BY <1>2, <2>1 DEF OffsetsAreLogged
<1>8. ASSUME NEW c \in Consumers, CommitOffset(c) PROVE OffsetsAreLogged'
  <2>1. PICK item \in batch[c] : committed' = [committed EXCEPT ![item[1]] = item[2]]
    BY <1>8 DEF CommitOffset, NextToCommit
  <2>2. item \in Logged /\ position' = position
    BY <1>8 DEF OffsetsAreLogged, CommitOffset
  <2>3. item[2] <= Len(log[item[1]])
    BY <1>1, <2>2 DEF Logged, Offset, LogsGrow
  <2>4. \A t \in Topics : committed'[t] <= Len(log[t])
    BY <2>1, <2>3 DEF TypeOK, OffsetsAreLogged
  <2>5. \A o \in Consumers : /\ batch'[o] \subseteq batch[o] /\ pending'[o] \subseteq pending[o]
                             /\ todo'[o] \subseteq todo[o]
    <3>1. \/ BatchOver(c)
          \/ \E one : batch' = [batch EXCEPT ![c] = batch[c] \ {one}] /\ UNCHANGED <<pending, todo>>
      BY <1>8 DEF CommitOffset
    <3> QED
      BY <3>1 DEF BatchOver, TypeOK
  <2> QED
    BY <1>2, <2>2, <2>4, <2>5 DEF OffsetsAreLogged
<1>9. ASSUME NEW c \in Consumers,
             Validated(c) \/ StartPromotion(c) \/ UpsertDocuments(c) \/ DeleteSegments(c)
               \/ AppendSegments(c) \/ FlushClaims(c) \/ Published(c) \/ Evict(c)
      PROVE  OffsetsAreLogged'
  <2>1. CASE Published(c)
    BY <1>3, <2>1 DEF Published
  <2>2. CASE Validated(c) \/ StartPromotion(c) \/ UpsertDocuments(c) \/ DeleteSegments(c)
             \/ AppendSegments(c) \/ FlushClaims(c) \/ Evict(c)
    BY <1>3, <2>2 DEF Evict, Validated, StartPromotion, UpsertDocuments, DeleteSegments,
       AppendSegments, FlushClaims
  <2> QED
    BY <1>9, <2>1, <2>2
<1> QED
  BY <1>3, <1>4, <1>5, <1>6, <1>7, <1>8, <1>9 DEF Next, vars, RunOnce, Announce

Same(o) ==
    pc'[o] = pc[o] /\ batch'[o] = batch[o] /\ pending'[o] = pending[o] /\ todo'[o] = todo[o]

(* A consumer's step leaves the batches of the others alone.               *)
LEMMA OthersRest ==
    ASSUME TypeOK, NEW c \in Consumers, StepOf(c), NEW o \in Consumers \ {c}
    PROVE  Same(o)
<1> USE DEF broker, events, zones, consumers, Same, TypeOK
<1>1. ASSUME Poll(c) PROVE Same(o)
  <2>1. PICK upto, items : Polled(c, upto, items)
    BY <1>1, PollSteps
  <2> QED
    BY <1>1, <2>1 DEF Polled, Poll
<1>2. ASSUME QuarantineInvalid(c) \/ Validated(c) \/ QuarantineDefect(c) \/ StartPromotion(c)
             \/ UpsertDocuments(c) \/ DeleteSegments(c) \/ AppendSegments(c) \/ FlushClaims(c)
      PROVE  Same(o)
  BY <1>2 DEF QuarantineInvalid, Validated, QuarantineDefect, StartPromotion, UpsertDocuments,
     DeleteSegments, AppendSegments, FlushClaims
<1>3. ASSUME CommitCurated(c) \/ Conflict(c) \/ PromotionRaises(c) \/ PublishCompletion(c)
             \/ PublishFailure(c) \/ Published(c)
      PROVE  Same(o)
  BY <1>3 DEF CommitCurated, Conflict, PromotionRaises, PromotionFails, PublishCompletion,
     PublishFailure, Published
<1>4. ASSUME CommitOffset(c) \/ CommitFails(c) \/ Crash(c) \/ Evict(c)
             \/ \E t \in Topics : Assign(t, c)
      PROVE  Same(o)
  BY <1>4 DEF CommitOffset, CommitFails, Crash, BatchOver, Evict, Assign
<1> QED
  BY <1>1, <1>2, <1>3, <1>4 DEF StepOf, RunOnce

(* And what they have settled stays so.                                    *)
LEMMA OthersSettle ==
    ASSUME LogsGrow, EventsGrow, OffsetsAreLogged, NEW o \in Consumers, BatchSettles(o), Same(o)
    PROVE  BatchSettles(o)'
<1>1. \A item \in batch[o] : /\ (MessageAt(item))' = MessageAt(item)
                             /\ Settled(MessageAt(item)) => (Settled(MessageAt(item)))'
  <2> SUFFICES ASSUME NEW item \in batch[o]
               PROVE  /\ (MessageAt(item))' = MessageAt(item)
                      /\ Settled(MessageAt(item)) => (Settled(MessageAt(item)))'
    OBVIOUS
  <2>1. (MessageAt(item))' = MessageAt(item)
    BY LoggedStays DEF OffsetsAreLogged
  <2>2. PICK m : m = MessageAt(item)
    OBVIOUS
  <2>3. Settled(m) => (Settled(m))'
    BY SettledStays
  <2> QED
    BY <2>1, <2>2, <2>3
<1> QED
  BY <1>1 DEF Same, BatchSettles, IsOpen

(* An event for it settles a reference.                                    *)
LEMMA EventSettles ==
    ASSUME LogsGrow, NEW item \in Logged, DocAt(item) \in completed' \cup quarantined' \cup dlq'
    PROVE  (Settled(MessageAt(item)))'
<1>1. (MessageAt(item))' = MessageAt(item)
  BY LoggedStays
<1> QED
  BY <1>1 DEF Settled, DocAt

(* A batch that shrinks by what is settled still settles.                  *)
LEMMA BatchStillSettles ==
    ASSUME LogsGrow, EventsGrow, OffsetsAreLogged, NEW c \in Consumers, BatchSettles(c),
           batch'[c] \subseteq batch[c], pc'[c] = "poll" => batch'[c] = {},
           \A item \in batch'[c] : IsOpen(c, item) =>
                (Settled(MessageAt(item)))' \/ (IsOpen(c, item))'
    PROVE  BatchSettles(c)'
<1> SUFFICES ASSUME NEW item \in batch'[c]
             PROVE  (Settled(MessageAt(item)))' \/ (IsOpen(c, item))'
  BY DEF BatchSettles
<1>1. item \in batch[c] /\ (MessageAt(item))' = MessageAt(item)
  BY LoggedStays DEF OffsetsAreLogged
<1>2. PICK m : m = MessageAt(item)
  OBVIOUS
<1>3. Settled(m) => (Settled(m))'
  BY SettledStays
<1>4. CASE Settled(MessageAt(item))
  BY <1>1, <1>2, <1>3, <1>4
<1>5. CASE IsOpen(c, item)
  BY <1>5
<1> QED
  BY <1>1, <1>4, <1>5 DEF BatchSettles

(* What a failing promotion publishes settles its reference.               *)
LEMMA FailureSettles ==
    ASSUME LogsGrow, NEW c \in Consumers, NEW item \in Logged, FailurePublished(c, item)
    PROVE  (Settled(MessageAt(item)))'
<1>1. (MessageAt(item))' = MessageAt(item)
  BY LoggedStays
<1>2. CASE dlq' = dlq \cup {DocAt(item)}
  BY <1>2, EventSettles
<1>3. ASSUME NEW t \in Topics, NEW i \in Nat, t = "retry", i \in DOMAIN log'[t],
             log'[t][i] = [doc |-> DocAt(item), attempt |-> MessageAt(item).attempt + 1]
      PROVE  (Settled(MessageAt(item)))'
  BY <1>1, <1>3 DEF Settled, DocAt
<1> QED
  BY <1>2, <1>3 DEF FailurePublished

(* Every item of a batch is settled or still to be settled, in every step, *)
(* a rebalance and a crash included.                                       *)
LEMMA NextBatchesSettle ==
    ASSUME TypeOK, OffsetsAreLogged, BatchesSettle, [Next]_vars
    PROVE  BatchesSettle'
<1> USE DEF broker, events, zones, consumers
<1>1. LogsGrow /\ EventsGrow
  BY NextGrows
<1>2. ASSUME \A o \in Consumers : Same(o) PROVE BatchesSettle'
  BY <1>1, <1>2, OthersSettle DEF BatchesSettle
<1>3. CASE UNCHANGED consumers
  BY <1>2, <1>3 DEF Same
<1>4. ASSUME NEW c \in Consumers, StepOf(c) PROVE BatchesSettle'
  <2> USE <1>1
  <2>0. BatchSettles(c)
    BY DEF BatchesSettle
  <2>1. ASSUME BatchSettles(c)' PROVE BatchesSettle'
    BY <1>4, <2>1, OthersRest, OthersSettle DEF BatchesSettle
  <2>2. ASSUME Poll(c) PROVE BatchSettles(c)'
    <3>1. PICK upto \in [Topics -> Nat], items \in SUBSET (Topics \X Nat) : Polled(c, upto, items)
      BY <2>2, PollSteps
    <3>2. pc'[c] = "validate" /\ \A item \in items : item \in todo'[c] \/ item \in pending'[c]
      BY <2>2, <3>1 DEF Poll, Polled, TypeOK
    <3>3. batch'[c] = items
      BY <3>1 DEF Polled, TypeOK
    <3> QED
      BY <3>2, <3>3 DEF BatchSettles, IsOpen
  <2>3. ASSUME QuarantineInvalid(c) PROVE BatchSettles(c)'
    <3>1. PICK one \in todo[c] : /\ quarantined' = quarantined \cup {DocAt(one)}
                                 /\ todo' = [todo EXCEPT ![c] = todo[c] \ {one}]
      BY <2>3 DEF QuarantineInvalid
    <3>2. (Settled(MessageAt(one)))'
      BY <3>1, EventSettles DEF OffsetsAreLogged
    <3>3. /\ pc'[c] = pc[c] /\ pc[c] = "validate" /\ batch'[c] = batch[c]
          /\ pending'[c] = pending[c] /\ todo'[c] = todo[c] \ {one}
      BY <2>3, <3>1 DEF QuarantineInvalid, TypeOK
    <3>4. \A item \in batch'[c] : IsOpen(c, item) =>
            (Settled(MessageAt(item)))' \/ (IsOpen(c, item))'
      BY <3>2, <3>3 DEF IsOpen
    <3> QED
      BY <2>0, <3>3, <3>4, BatchStillSettles
  <2>4. ASSUME PublishCompletion(c) PROVE BatchSettles(c)'
    <3>1. PICK one \in todo[c] : /\ completed' = completed \cup {DocAt(one)}
                                 /\ todo' = [todo EXCEPT ![c] = todo[c] \ {one}]
      BY <2>4 DEF PublishCompletion
    <3>2. (Settled(MessageAt(one)))'
      BY <3>1, EventSettles DEF OffsetsAreLogged
    <3>3. /\ pc'[c] = pc[c] /\ pc[c] = "complete" /\ batch'[c] = batch[c]
          /\ pending'[c] = pending[c] /\ todo'[c] = todo[c] \ {one}
      BY <2>4, <3>1 DEF PublishCompletion, TypeOK
    <3>4. \A item \in batch'[c] : IsOpen(c, item) =>
            (Settled(MessageAt(item)))' \/ (IsOpen(c, item))'
      BY <3>2, <3>3 DEF IsOpen, Writing
    <3> QED
      BY <2>0, <3>3, <3>4, BatchStillSettles
  <2>5. ASSUME PublishFailure(c) PROVE BatchSettles(c)'
    <3>1. PICK one : FailurePublished(c, one)
      BY <2>5, PublishFailureSteps
    <3>2. (Settled(MessageAt(one)))'
      BY <3>1, FailureSettles DEF FailurePublished, OffsetsAreLogged
    <3>3. /\ pc'[c] = pc[c] /\ pc[c] = "fail" /\ batch'[c] = batch[c]
          /\ pending'[c] = pending[c] /\ todo'[c] = todo[c] \ {one}
      BY <2>5, <3>1 DEF PublishFailure, FailurePublished, TypeOK
    <3>4. \A item \in batch'[c] : IsOpen(c, item) =>
            (Settled(MessageAt(item)))' \/ (IsOpen(c, item))'
      BY <3>2, <3>3 DEF IsOpen, Writing
    <3> QED
      BY <2>0, <3>3, <3>4, BatchStillSettles
  <2>6. ASSUME QuarantineDefect(c) PROVE BatchSettles(c)'
    <3>1. PICK d \in DocsOf(pending[c]) \cap Defective :
            /\ quarantined' = quarantined \cup {d}
            /\ pending' = [pending EXCEPT ![c] = {item \in pending[c] : DocAt(item) # d}]
            /\ pc' = [pc EXCEPT ![c] = IF {item \in pending[c] : DocAt(item) # d} = {}
                                      THEN "commit" ELSE "promote"]
      BY <2>6 DEF QuarantineDefect
    <3>2. /\ pc[c] = "promote" /\ batch'[c] = batch[c]
          /\ pending'[c] = {item \in pending[c] : DocAt(item) # d}
          /\ pc'[c] = "commit" => pending'[c] = {}
          /\ pc'[c] \in {"commit", "promote"}
      BY <2>6, <3>1 DEF QuarantineDefect, TypeOK
    <3>3. \A item \in pending[c] : DocAt(item) = d => (Settled(MessageAt(item)))'
      BY <3>1, EventSettles DEF OffsetsAreLogged
    <3>4. \A item \in batch'[c] : IsOpen(c, item) =>
            (Settled(MessageAt(item)))' \/ (IsOpen(c, item))'
      BY <3>2, <3>3 DEF IsOpen
    <3> QED
      BY <2>0, <3>2, <3>4, BatchStillSettles
  <2>7. ASSUME Validated(c) PROVE BatchSettles(c)'
    <3>1. /\ pc[c] = "validate" /\ todo[c] = {} /\ batch'[c] = batch[c] /\ pending'[c] = pending[c]
          /\ IF pending[c] = {} THEN pc'[c] = "commit" ELSE pc'[c] = "promote"
      BY <2>7 DEF Validated, TypeOK
    <3>2. \A item \in batch'[c] : IsOpen(c, item) => (IsOpen(c, item))'
      BY <3>1 DEF IsOpen
    <3> QED
      BY <2>0, <3>1, <3>2, BatchStillSettles
  <2>8. ASSUME StartPromotion(c) \/ UpsertDocuments(c) \/ DeleteSegments(c) \/ AppendSegments(c)
               \/ FlushClaims(c)
        PROVE  BatchSettles(c)'
    <3>1. /\ pc[c] \in {"promote"} \cup Writing /\ pc'[c] \in Writing
          /\ batch'[c] = batch[c] /\ pending'[c] = pending[c]
      BY <2>8 DEF StartPromotion, UpsertDocuments, DeleteSegments, AppendSegments, FlushClaims,
         TypeOK, Writing
    <3>2. \A item \in batch'[c] : IsOpen(c, item) => (IsOpen(c, item))'
      BY <3>1 DEF IsOpen, Writing
    <3>3. pc'[c] # "poll"
      BY <3>1 DEF Writing
    <3> QED
      BY <2>0, <3>1, <3>2, <3>3, BatchStillSettles
  <2>9. ASSUME CommitCurated(c) \/ Conflict(c) \/ PromotionRaises(c) PROVE BatchSettles(c)'
    <3>1. /\ pc[c] \in {"promote"} \cup Writing /\ pc'[c] \in {"complete", "fail"}
          /\ batch'[c] = batch[c] /\ pending'[c] = pending[c] /\ todo'[c] = pending[c]
      BY <2>9 DEF CommitCurated, Conflict, PromotionRaises, PromotionFails, TypeOK, Writing
    <3>2. \A item \in batch'[c] : IsOpen(c, item) => (IsOpen(c, item))'
      BY <3>1 DEF IsOpen, Writing
    <3> QED
      BY <2>0, <3>1, <3>2, BatchStillSettles
  <2>10. ASSUME Published(c) PROVE BatchSettles(c)'
    <3>1. /\ pc[c] \in {"complete", "fail"} /\ todo[c] = {} /\ pc'[c] = "commit"
          /\ batch'[c] = batch[c]
      BY <2>10 DEF Published, TypeOK
    <3>2. \A item \in batch'[c] : ~IsOpen(c, item)
      BY <3>1 DEF IsOpen, Writing
    <3> QED
      BY <2>0, <3>1, <3>2, BatchStillSettles
  <2>11. ASSUME BatchOver(c) PROVE BatchSettles(c)'
    <3>1. batch'[c] = {}
      BY <2>11 DEF BatchOver, TypeOK
    <3> QED
      BY <3>1 DEF BatchSettles
  <2>12. ASSUME CommitOffset(c) PROVE BatchSettles(c)'
    <3>1. \/ BatchOver(c)
          \/ \E one : batch' = [batch EXCEPT ![c] = batch[c] \ {one}] /\ UNCHANGED <<pc, pending, todo>>
      BY <2>12 DEF CommitOffset
    <3>2. CASE ~BatchOver(c)
      <4>1. batch'[c] \subseteq batch[c] /\ pc'[c] = "commit" /\ pc[c] = "commit"
        BY <2>12, <3>1, <3>2 DEF CommitOffset, TypeOK
      <4>2. \A item \in batch'[c] : ~IsOpen(c, item)
        BY <4>1 DEF IsOpen, Writing
      <4> QED
        BY <2>0, <4>1, <4>2, BatchStillSettles
    <3> QED
      BY <2>11, <3>2
  <2>13. ASSUME Evict(c) \/ \E t \in Topics : Assign(t, c) PROVE BatchSettles(c)'
    BY <2>0, <2>13, OthersSettle DEF Evict, Assign, Same
  <2> QED
    BY <1>4, <2>1, <2>2, <2>3, <2>4, <2>5, <2>6, <2>7, <2>8, <2>9, <2>10, <2>11, <2>12, <2>13
       DEF StepOf, RunOnce, CommitFails, Crash
<1> QED
  BY <1>3, <1>4 DEF Next, StepOf, vars, Announce
-------------------------------------------------------------------------------
(* Positions and committed offsets.                                        *)

(* A settled entry of a log stays settled while logs grow.                 *)
LEMMA EntrySettledStays ==
    ASSUME TypeOK, LogsGrow, EventsGrow, NEW t \in Topics, NEW i \in 1 .. Len(log[t]),
           Settled(log[t][i])
    PROVE  (Settled(log[t][i]))'
<1>1. log'[t][i] = log[t][i]
  BY DEF LogsGrow
<1>2. PICK m : m = log[t][i]
  OBVIOUS
<1> QED
  BY <1>1, <1>2, SettledStays

(* A batch may lose what is settled.                                       *)
LEMMA PositionStays ==
    ASSUME TypeOK, OffsetsAreLogged, LogsGrow, EventsGrow, NEW t \in Topics, PositionSettles(t),
           position'[t] = position[t], owner'[t] \in {owner[t], None},
           owner[t] # None =>
              /\ batch'[owner[t]] \subseteq batch[owner[t]]
              /\ \A item \in batch[owner[t]] \ batch'[owner[t]] : Settled(MessageAt(item))
    PROVE  PositionSettles(t)'
<1> SUFFICES ASSUME owner'[t] # None
             PROVE  /\ \A i \in 1 .. position[t] :
                         (Settled(log[t][i]))' \/ <<t, i>> \in batch'[owner[t]]
                    /\ \A item \in batch'[owner[t]] : item[1] = t => item[2] <= position[t]
  BY DEF PositionSettles
<1>1. owner'[t] = owner[t] /\ owner[t] # None
  OBVIOUS
<1>2. ASSUME NEW i \in 1 .. position[t]
      PROVE  (Settled(log[t][i]))' \/ <<t, i>> \in batch'[owner[t]]
  <2>1. i \in 1 .. Len(log[t])
    BY DEF TypeOK, OffsetsAreLogged, LogsGrow
  <2>2. Settled(log[t][i]) \/ <<t, i>> \in batch[owner[t]]
    BY <1>1 DEF PositionSettles
  <2>3. MessageAt(<<t, i>>) = log[t][i]
    BY DEF MessageAt
  <2>4. Settled(log[t][i]) \/ <<t, i>> \in batch'[owner[t]]
    BY <1>1, <2>2, <2>3
  <2> QED
    BY <2>1, <2>4, EntrySettledStays
<1> QED
  BY <1>1, <1>2 DEF PositionSettles

(* So do all of those before an offset.                                    *)
LEMMA CommitsStay ==
    ASSUME TypeOK, OffsetsAreLogged, LogsGrow, EventsGrow, NEW t \in Topics, NEW n \in Nat,
           n <= Len(log[t]), \A i \in 1 .. n : Settled(log[t][i])
    PROVE  \A i \in 1 .. n : (Settled(log[t][i]))'
<1> SUFFICES ASSUME NEW i \in 1 .. n PROVE (Settled(log[t][i]))'
  OBVIOUS
<1>1. i \in 1 .. Len(log[t])
  BY DEF LogsGrow
<1> QED
  BY <1>1, EntrySettledStays

(* A batch that is being committed has nothing open.                       *)
LEMMA CommittingIsSettled ==
    ASSUME BatchesSettle, NEW c \in Consumers, pc[c] = "commit", NEW item \in batch[c]
    PROVE  Settled(MessageAt(item))
  BY DEF BatchesSettle, BatchSettles, IsOpen, Writing

(* What an owner's position has passed is settled or in its batch.         *)
LEMMA NextPositionsSettle ==
    ASSUME TypeOK, OffsetsAreLogged, BatchesSettle, PositionsSettle, CommitsAreSettled, [Next]_vars
    PROVE  PositionsSettle'
<1> USE DEF broker, events, zones, consumers
<1>1. LogsGrow /\ EventsGrow
  BY NextGrows
<1>2. ASSUME UNCHANGED <<position, batch>>,
             \A t \in Topics : owner'[t] \in {owner[t], None}
      PROVE  PositionsSettle'
  BY <1>1, <1>2, PositionStays DEF PositionsSettle
<1>3. ASSUME NEW c \in Consumers, NEW s \in Topics, Assign(s, c) PROVE PositionsSettle'
  <2> SUFFICES ASSUME NEW t \in Topics PROVE PositionSettles(t)'
    BY DEF PositionsSettle
  <2>1. batch' = batch /\ \A u \in Topics \ {s} : owner'[u] = owner[u] /\ position'[u] = position[u]
    BY <1>3 DEF Assign, TypeOK
  <2>2. CASE t # s
    BY <1>1, <2>1, <2>2, PositionStays DEF PositionsSettle
  <2>3. CASE t = s
    <3>1. owner'[t] = c /\ position'[t] = committed[t] /\ batch'[c] = {}
      BY <1>3, <2>3 DEF Assign, TypeOK, BatchesSettle, BatchSettles
    <3>2. \A i \in 1 .. committed[t] : (Settled(log[t][i]))'
      BY <1>1, CommitsStay DEF CommitsAreSettled, OffsetsAreLogged, TypeOK
    <3> QED
      BY <3>1, <3>2 DEF PositionSettles
  <2> QED
    BY <2>2, <2>3
<1>4. ASSUME NEW c \in Consumers, Evict(c) PROVE PositionsSettle'
  BY <1>2, <1>4 DEF Evict, Released
<1>5. ASSUME NEW c \in Consumers, Poll(c) PROVE PositionsSettle'
  <2>1. PICK upto \in [Topics -> Nat], items \in SUBSET (Topics \X Nat) : Polled(c, upto, items)
    BY <1>5, PollSteps
  <2>2. /\ batch[c] = {} /\ batch'[c] = items /\ owner' = owner /\ position' = upto
        /\ \A o \in Consumers \ {c} : batch'[o] = batch[o]
        /\ log' = log
    BY <1>5, <2>1 DEF Poll, Polled, TypeOK, BatchesSettle, BatchSettles
  <2> SUFFICES ASSUME NEW t \in Topics, owner[t] # None PROVE PositionSettles(t)'
    BY <2>2 DEF PositionsSettle, PositionSettles
  <2>3. CASE owner[t] # c
    <3>1. position'[t] = position[t] /\ batch'[owner[t]] = batch[owner[t]]
      BY <2>1, <2>2, <2>3 DEF Polled, TypeOK
    <3> QED
      BY <1>1, <2>2, <3>1, PositionStays DEF PositionsSettle
  <2>4. CASE owner[t] = c
    <3>1. \A i \in 1 .. upto[t] : (Settled(log[t][i]))' \/ <<t, i>> \in items
      <4> SUFFICES ASSUME NEW i \in 1 .. upto[t], <<t, i>> \notin items
                   PROVE  (Settled(log[t][i]))'
        OBVIOUS
      <4>1. i \in 1 .. position[t]
        BY <2>1 DEF Polled, TypeOK
      <4>2. Settled(log[t][i])
        BY <2>2, <2>4, <4>1 DEF PositionsSettle, PositionSettles
      <4>3. i \in 1 .. Len(log[t])
        BY <1>1, <4>1 DEF OffsetsAreLogged, TypeOK, LogsGrow
      <4> QED
        BY <1>1, <4>2, <4>3, EntrySettledStays
    <3>2. \A item \in items : item[1] = t => item[2] <= upto[t]
      BY <2>1, PolledItems
    <3> QED
      BY <2>2, <2>4, <3>1, <3>2 DEF PositionSettles
  <2> QED
    BY <2>3, <2>4
<1>6. ASSUME NEW c \in Consumers, CommitOffset(c) PROVE PositionsSettle'
  <2>1. PICK item \in batch[c] :
          \/ BatchOver(c) /\ batch[c] = {item}
          \/ batch' = [batch EXCEPT ![c] = batch[c] \ {item}]
    BY <1>6 DEF CommitOffset, NextToCommit
  <2>2. pc[c] = "commit" /\ UNCHANGED <<position, owner>>
    BY <1>6 DEF CommitOffset
  <2>3. \A o \in Consumers : batch'[o] \subseteq batch[o] /\ (o # c => batch'[o] = batch[o])
    BY <2>1 DEF BatchOver, TypeOK
  <2>4. \A one \in batch[c] : Settled(MessageAt(one))
    BY <2>2, CommittingIsSettled
  <2> QED
    BY <1>1, <2>2, <2>3, <2>4, PositionStays DEF PositionsSettle, TypeOK
<1>7. ASSUME NEW c \in Consumers, CommitFails(c) PROVE PositionsSettle'
  <2>1. pc[c] = "commit" /\ UNCHANGED <<position, owner>>
    BY <1>7 DEF CommitFails
  <2>2. \A o \in Consumers : batch'[o] \subseteq batch[o] /\ (o # c => batch'[o] = batch[o])
    BY <1>7 DEF CommitFails, BatchOver, TypeOK
  <2>3. \A one \in batch[c] : Settled(MessageAt(one))
    BY <2>1, CommittingIsSettled
  <2> QED
    BY <1>1, <2>1, <2>2, <2>3, PositionStays DEF PositionsSettle, TypeOK
<1>8. ASSUME NEW c \in Consumers, Crash(c) PROVE PositionsSettle'
  <2>1. /\ position' = position
        /\ \A t \in Topics : owner'[t] = IF owner[t] = c THEN None ELSE owner[t]
        /\ \A o \in Consumers \ {c} : batch'[o] = batch[o]
    BY <1>8 DEF Crash, Released, BatchOver, TypeOK
  <2> SUFFICES ASSUME NEW t \in Topics PROVE PositionSettles(t)'
    BY DEF PositionsSettle
  <2>2. CASE owner[t] = c
    BY <2>1, <2>2 DEF PositionSettles
  <2>3. CASE owner[t] # c
    BY <1>1, <2>1, <2>3, PositionStays DEF PositionsSettle, TypeOK
  <2> QED
    BY <2>2, <2>3
<1>9. CASE UNCHANGED <<position, owner, batch>>
  BY <1>2, <1>9
<1> QED
  BY <1>3, <1>4, <1>5, <1>6, <1>7, <1>8, <1>9, OffsetsRest DEF MovesOffsets

(* What is committed is settled: a commit is of a batch with nothing open. *)
LEMMA NextCommitsAreSettled ==
    ASSUME TypeOK, OffsetsAreLogged, BatchesSettle, PositionsSettle, CommitsAreSettled, [Next]_vars
    PROVE  CommitsAreSettled'
<1> USE DEF broker, events, zones, consumers
<1>1. LogsGrow /\ EventsGrow
  BY NextGrows
<1>2. \A t \in Topics : \A i \in 1 .. committed[t] : (Settled(log[t][i]))'
  BY <1>1, CommitsStay DEF CommitsAreSettled, OffsetsAreLogged, TypeOK
<1>3. CASE committed' = committed
  BY <1>2, <1>3 DEF CommitsAreSettled
<1>4. ASSUME NEW c \in Consumers, CommitOffset(c) PROVE CommitsAreSettled'
  <2>1. PICK item \in batch[c] : /\ owner[item[1]] = c
                                 /\ committed' = [committed EXCEPT ![item[1]] = item[2]]
    BY <1>4 DEF CommitOffset, NextToCommit
  <2>2. pc[c] = "commit"
    BY <1>4 DEF CommitOffset
  <2>3. PICK t \in Topics, n \in Nat : item = <<t, n>>
    BY <2>1 DEF TypeOK, Offset
  <2>4. item[1] = t /\ item[2] = n /\ item \in Logged
    BY <2>1, <2>3 DEF OffsetsAreLogged
  <2>5. n <= position[t] /\ n <= Len(log[t])
    <3>1. c # None
      BY PromotionAssumption
    <3>2. n <= position[t]
      BY <2>1, <2>4, <3>1 DEF PositionsSettle, PositionSettles
    <3>3. n \in 1 .. Len(log[t])
      BY <2>4 DEF Logged
    <3> QED
      BY <1>1, <3>2, <3>3 DEF LogsGrow
  <2>6. \A i \in 1 .. n : Settled(log[t][i])
    <3> SUFFICES ASSUME NEW i \in 1 .. n PROVE Settled(log[t][i])
      OBVIOUS
    <3>1. i \in 1 .. position[t] /\ c # None
      BY <2>5, PromotionAssumption DEF TypeOK
    <3>2. Settled(log[t][i]) \/ <<t, i>> \in batch[c]
      BY <2>1, <2>4, <3>1 DEF PositionsSettle, PositionSettles
    <3>3. MessageAt(<<t, i>>) = log[t][i]
      BY DEF MessageAt
    <3> QED
      BY <2>2, <3>2, <3>3, CommittingIsSettled
  <2>7. \A i \in 1 .. n : (Settled(log[t][i]))'
    BY <1>1, <2>5, <2>6, CommitsStay
  <2>8. committed'[t] = n /\ \A s \in Topics \ {t} : committed'[s] = committed[s]
    BY <2>1, <2>4 DEF TypeOK
  <2> QED
    BY <1>2, <2>7, <2>8 DEF CommitsAreSettled
<1>5. ASSUME NEW c \in Consumers, MovesOffsets(c) PROVE committed' = committed \/ CommitOffset(c)
  BY <1>5 DEF MovesOffsets, Poll, CommitFails, Evict, Crash, Assign
<1> QED
  BY <1>3, <1>4, <1>5, OffsetsRest
-------------------------------------------------------------------------------
(* What a batch finds, keeps out and writes.                               *)

(* The document of an item does not change.                                *)
LEMMA DocsStay ==
    ASSUME LogsGrow, OffsetsAreLogged, NEW c \in Consumers
    PROVE  \A item \in batch[c] \cup pending[c] \cup todo[c] : (DocAt(item))' = DocAt(item)
  BY LoggedStays DEF OffsetsAreLogged

(* What waits to be written are documents.                                 *)
LEMMA PendingTyped ==
    ASSUME TypeOK, OffsetsAreLogged, NEW c \in Consumers
    PROVE  \A item \in pending[c] \cup todo[c] : DocAt(item) \in Docs
  BY MessagesAreTyped DEF OffsetsAreLogged

(* Steps that touch no segments keep what a deletion has made sure of.     *)
LEMMA AppendsFindNoneStays ==
    ASSUME LogsGrow, OffsetsAreLogged, AppendsFindNone, segments' = segments,
           \A o \in Consumers : pc'[o] = "append" =>
              pc[o] = "append" /\ pending'[o] = pending[o] /\ stale[o] \subseteq stale'[o]
    PROVE  AppendsFindNone'
<1> SUFFICES ASSUME NEW o \in Consumers PROVE AppendFindsNone(o)'
  BY DEF AppendsFindNone
<1>1. \A item \in pending[o] : (DocAt(item))' = DocAt(item)
  BY DocsStay
<1> QED
  BY <1>1 DEF AppendsFindNone, AppendFindsNone

(* A consumer about to append has deleted what was there, unless somebody  *)
(* committed since.                                                        *)
LEMMA NextAppendsFindNone ==
    ASSUME TypeOK, OffsetsAreLogged, AppendsFindNone, [Next]_vars
    PROVE  AppendsFindNone'
<1> USE DEF broker, events, zones, consumers
<1>1. LogsGrow
  BY NextGrows
<1>2. CASE UNCHANGED <<segments, pc, pending, stale>>
  BY <1>1, <1>2, AppendsFindNoneStays
<1>3. ASSUME NEW c \in Consumers, DeleteSegments(c) PROVE AppendsFindNone'
  <2> SUFFICES ASSUME NEW o \in Consumers PROVE AppendFindsNone(o)'
    BY DEF AppendsFindNone
  <2>1. \A item \in pending[o] : (DocAt(item))' = DocAt(item)
    BY <1>1, DocsStay
  <2>2. /\ pending' = pending /\ pc[c] = "delete"
        /\ \A e \in Docs : segments'[e] = 0 \/ segments'[e] = segments[e]
        /\ \A item \in pending[c] : segments[DocAt(item)] > 0 => segments'[DocAt(item)] = 0
    BY <1>3, PendingTyped DEF DeleteSegments, DocsOf
  <2>3. \A item \in pending[o] : DocAt(item) \in Docs
    BY PendingTyped
  <2>4. CASE o = c
    <3>1. \A item \in pending[c] : segments[DocAt(item)] \in Nat
      BY <2>3, <2>4 DEF TypeOK
    <3>2. \A item \in pending[c] : segments'[DocAt(item)] = 0
      BY <2>2, <2>3, <2>4, <3>1
    <3> QED
      BY <2>1, <2>2, <2>4, <3>2 DEF AppendFindsNone
  <2>5. CASE o # c
    <3>1. pc'[o] = pc[o] /\ stale[o] \subseteq stale'[o]
      <4>1. stale' = stale \/ Committing("segments", c)
        BY <1>3 DEF DeleteSegments
      <4> QED
        BY <1>3, <2>5, <4>1 DEF DeleteSegments, Committing, TypeOK
    <3> QED
      BY <2>1, <2>2, <2>3, <3>1 DEF AppendsFindNone, AppendFindsNone
  <2> QED
    BY <2>4, <2>5
<1>4. ASSUME NEW c \in Consumers, AppendSegments(c) PROVE AppendsFindNone'
  BY <1>4 DEF AppendSegments, Committing, AppendsFindNone, AppendFindsNone, TypeOK
<1>5. ASSUME NEW c \in Consumers, StepOf(c), ~DeleteSegments(c), ~AppendSegments(c)
      PROVE  AppendsFindNone'
  <2>1. segments' = segments
    <3>1. CASE Receives(c)
      BY <3>1 DEF Receives, Poll, QuarantineInvalid, Validated, QuarantineDefect, StartPromotion
    <3>2. CASE UpsertDocuments(c) \/ FlushClaims(c)
      BY <3>2 DEF UpsertDocuments, FlushClaims
    <3>3. CASE Concludes(c)
      BY <3>3 DEF Concludes, CommitCurated, Conflict, PromotionRaises, PromotionFails
    <3>4. CASE Reports(c) \/ Regroups(c)
      BY <3>4 DEF Reports, PublishCompletion, PublishFailure, Published, CommitOffset,
         CommitFails, Regroups, Evict, Crash, Assign
    <3> QED
      BY <1>5, <3>1, <3>2, <3>3, <3>4, StepHasParts DEF Writes
  <2>2. pc'[c] = "append" => UNCHANGED <<pc, pending, stale>>
    <3>1. CASE Receives(c)
      BY <3>1 DEF Receives, Poll, QuarantineInvalid, Validated, QuarantineDefect,
         StartPromotion, TypeOK
    <3>2. CASE UpsertDocuments(c) \/ FlushClaims(c)
      BY <3>2 DEF UpsertDocuments, FlushClaims, TypeOK
    <3>3. CASE Concludes(c)
      BY <3>3 DEF Concludes, CommitCurated, Conflict, PromotionRaises, PromotionFails, TypeOK
    <3>4. CASE Reports(c) \/ Regroups(c)
      BY <3>4 DEF Reports, PublishCompletion, PublishFailure, Published, CommitOffset,
         CommitFails, Regroups, Evict, Crash, Assign, BatchOver, TypeOK
    <3> QED
      BY <1>5, <3>1, <3>2, <3>3, <3>4, StepHasParts DEF Writes
  <2>3. \A o \in Consumers \ {c} : Same(o) /\ stale[o] \subseteq stale'[o]
    <3>1. \A o \in Consumers \ {c} : stale[o] \subseteq stale'[o]
      <4>1. CASE Receives(c)
        BY <4>1 DEF Receives, Poll, QuarantineInvalid, Validated, QuarantineDefect,
           StartPromotion, TypeOK
      <4>2. CASE UpsertDocuments(c) \/ FlushClaims(c)
        BY <4>2 DEF UpsertDocuments, FlushClaims, Committing, TypeOK
      <4>3. CASE Concludes(c)
        BY <4>3 DEF Concludes, CommitCurated, Conflict, PromotionRaises, PromotionFails,
           Committing, TypeOK
      <4>4. CASE Reports(c) \/ Regroups(c)
        BY <4>4 DEF Reports, PublishCompletion, PublishFailure, Published, CommitOffset,
           CommitFails, Regroups, Evict, Crash, Assign, BatchOver, TypeOK
      <4> QED
        BY <1>5, <4>1, <4>2, <4>3, <4>4, StepHasParts DEF Writes
    <3> QED
      BY <1>5, <3>1, OthersRest
  <2> QED
    BY <1>1, <2>1, <2>2, <2>3, AppendsFindNoneStays DEF Same
<1> QED
  BY <1>2, <1>3, <1>4, <1>5 DEF Next, StepOf, vars, Announce

(* So no document has its segments twice.                                  *)
LEMMA NextNoDuplicateSegments ==
    ASSUME TypeOK, OffsetsAreLogged, AppendsFindNone, NoDuplicateSegments, [Next]_vars
    PROVE  NoDuplicateSegments'
<1> USE DEF broker, events, zones, consumers
<1>1. CASE segments' = segments
  BY <1>1 DEF NoDuplicateSegments
<1>2. ASSUME NEW c \in Consumers, DeleteSegments(c) PROVE NoDuplicateSegments'
  BY <1>2 DEF DeleteSegments, NoDuplicateSegments
<1>3. ASSUME NEW c \in Consumers, AppendSegments(c) PROVE NoDuplicateSegments'
  <2>1. \A d \in DocsOf(pending[c]) : segments[d] = 0
    BY <1>3 DEF AppendSegments, AppendsFindNone, AppendFindsNone, DocsOf
  <2>2. \A d \in Docs : segments'[d] = IF d \in DocsOf(pending[c])
                                      THEN segments[d] + 1 ELSE segments[d]
    BY <1>3 DEF AppendSegments
  <2> QED
    BY <2>1, <2>2 DEF NoDuplicateSegments
<1> QED
  BY <1>1, <1>2, <1>3, SegmentsRest

(* A bad document is never among those to be written.                      *)
LEMMA NextBadInputIsDropped ==
    ASSUME TypeOK, OffsetsAreLogged, BadInputIsDropped, [Next]_vars
    PROVE  BadInputIsDropped'
<1> USE DEF broker, events, zones, consumers
<1>1. LogsGrow
  BY NextGrows
<1>2. ASSUME NEW o \in Consumers, Same(o) PROVE DropsBadInput(o)'
  <2>1. \A item \in pending[o] \cup todo[o] : (DocAt(item))' = DocAt(item)
    BY <1>1, DocsStay
  <2> QED
    BY <1>2, <2>1 DEF Same, BadInputIsDropped, DropsBadInput
<1>3. CASE UNCHANGED consumers
  BY <1>2, <1>3 DEF Same, BadInputIsDropped
<1>4. ASSUME NEW c \in Consumers, StepOf(c) PROVE BadInputIsDropped'
  <2>1. ASSUME DropsBadInput(c)' PROVE BadInputIsDropped'
    BY <1>2, <1>4, <2>1, OthersRest DEF BadInputIsDropped
  <2>2. \A item \in pending[c] \cup todo[c] : (DocAt(item))' = DocAt(item)
    BY <1>1, DocsStay
  <2>3. DropsBadInput(c)
    BY DEF BadInputIsDropped
  <2>4. ASSUME Poll(c) PROVE DropsBadInput(c)'
    <3>1. PICK upto \in [Topics -> Nat], items \in SUBSET (Topics \X Nat) : Polled(c, upto, items)
      BY <2>4, PollSteps
    <3>2. \A item \in items : (DocAt(item))' = DocAt(item)
      BY <1>1, <3>1, PolledItems, LoggedStays
    <3>3. /\ pc'[c] = "validate" /\ todo'[c] = {item \in items : IsInvalid(item)}
          /\ pending'[c] = {item \in items : ~IsInvalid(item)}
      BY <2>4, <3>1 DEF Poll, Polled, TypeOK
    <3> QED
      BY <3>2, <3>3 DEF DropsBadInput, IsInvalid, Writing
  <2>5. ASSUME QuarantineInvalid(c) \/ PublishCompletion(c) \/ PublishFailure(c)
        PROVE  DropsBadInput(c)'
    <3>1. pc'[c] = pc[c] /\ pending'[c] = pending[c] /\ todo'[c] \subseteq todo[c]
      BY <2>5 DEF QuarantineInvalid, PublishCompletion, PublishFailure, TypeOK
    <3> QED
      BY <2>2, <2>3, <3>1 DEF DropsBadInput
  <2>6. ASSUME Validated(c) \/ Published(c) PROVE DropsBadInput(c)'
    <3>1. pc'[c] \in {"commit", "promote"} /\ pending'[c] = pending[c]
      BY <2>6 DEF Validated, Published, TypeOK
    <3> QED
      BY <2>2, <2>3, <3>1 DEF DropsBadInput, Writing
  <2>7. ASSUME QuarantineDefect(c) PROVE DropsBadInput(c)'
    <3>1. pc'[c] \in {"commit", "promote"} /\ pending'[c] \subseteq pending[c]
      BY <2>7 DEF QuarantineDefect, TypeOK
    <3> QED
      BY <2>2, <2>3, <3>1 DEF DropsBadInput, Writing
  <2>8. ASSUME StartPromotion(c) PROVE DropsBadInput(c)'
    <3>1. /\ pc'[c] = "documents" /\ pending'[c] = pending[c]
          /\ DocsOf(pending[c]) \cap Defective = {}
      BY <2>8 DEF StartPromotion, TypeOK
    <3> QED
      BY <2>2, <2>3, <3>1 DEF DropsBadInput, DocsOf
  <2>9. ASSUME UpsertDocuments(c) \/ DeleteSegments(c) \/ AppendSegments(c) \/ FlushClaims(c)
               \/ CommitCurated(c)
        PROVE  DropsBadInput(c)'
    <3>1. /\ pc[c] \in Writing /\ pc'[c] \in Writing \cup {"complete"}
          /\ pc'[c] # "validate" /\ pending'[c] = pending[c]
          /\ pc'[c] = "complete" => todo'[c] = pending[c]
      BY <2>9 DEF UpsertDocuments, DeleteSegments, AppendSegments, FlushClaims, CommitCurated,
         TypeOK, Writing
    <3> QED
      BY <2>2, <2>3, <3>1 DEF DropsBadInput
  <2>10. ASSUME Conflict(c) \/ PromotionRaises(c) PROVE DropsBadInput(c)'
    <3>1. pc'[c] = "fail" /\ pending'[c] = pending[c]
      BY <2>10 DEF Conflict, PromotionRaises, PromotionFails, TypeOK
    <3> QED
      BY <2>2, <2>3, <3>1 DEF DropsBadInput, Writing
  <2>11. ASSUME BatchOver(c) PROVE DropsBadInput(c)'
    <3>1. pc'[c] = "poll" /\ pending'[c] = {}
      BY <2>11 DEF BatchOver, TypeOK
    <3> QED
      BY <3>1 DEF DropsBadInput
  <2>12. ASSUME CommitOffset(c) PROVE DropsBadInput(c)'
    <3>1. BatchOver(c) \/ UNCHANGED <<pc, pending, todo>>
      BY <2>12 DEF CommitOffset
    <3> QED
      BY <2>2, <2>3, <2>11, <3>1 DEF DropsBadInput
  <2>13. ASSUME Evict(c) \/ \E t \in Topics : Assign(t, c) PROVE DropsBadInput(c)'
    BY <1>2, <2>13 DEF Evict, Assign, Same
  <2> QED
    BY <1>4, <2>1, <2>4, <2>5, <2>6, <2>7, <2>8, <2>9, <2>10, <2>11, <2>12, <2>13
       DEF StepOf, RunOnce, CommitFails, Crash
<1> QED
  BY <1>3, <1>4 DEF Next, StepOf, vars, Announce

(* So it has no segment.                                                   *)
LEMMA NextQuarantineStaysOut ==
    ASSUME TypeOK, OffsetsAreLogged, BadInputIsDropped, QuarantineStaysOut, [Next]_vars
    PROVE  QuarantineStaysOut'
<1> USE DEF broker, events, zones, consumers
<1>1. CASE UNCHANGED <<quarantined, documents, claims, completed, segments>>
  BY <1>1 DEF QuarantineStaysOut
<1>2. ASSUME NEW c \in Consumers, QuarantineInvalid(c) \/ QuarantineDefect(c)
      PROVE  QuarantineStaysOut'
  <2>1. quarantined' \subseteq quarantined \cup Invalid \cup Defective
        /\ UNCHANGED <<documents, claims, completed, segments>>
    BY <1>2 DEF QuarantineInvalid, QuarantineDefect, BadInputIsDropped, DropsBadInput
  <2> QED
    BY <2>1 DEF QuarantineStaysOut
<1>3. ASSUME NEW c \in Consumers,
             UpsertDocuments(c) \/ DeleteSegments(c) \/ AppendSegments(c) \/ FlushClaims(c)
      PROVE  QuarantineStaysOut'
  <2>1. pc[c] \in Writing
    BY <1>3 DEF UpsertDocuments, DeleteSegments, AppendSegments, FlushClaims, Writing
  <2>2. DocsOf(pending[c]) \cap (Invalid \cup Defective) = {}
    BY <2>1 DEF BadInputIsDropped, DropsBadInput, DocsOf
  <2>3. \A d \in Docs \ DocsOf(pending[c]) : segments[d] = 0 => segments'[d] = 0
    BY <1>3 DEF UpsertDocuments, DeleteSegments, AppendSegments, FlushClaims, TypeOK
  <2>4. \A d \in Invalid \cup Defective : d \in Docs
    BY PromotionAssumption
  <2>5. /\ quarantined' = quarantined /\ completed' = completed
        /\ documents' \subseteq documents \cup DocsOf(pending[c])
        /\ claims' \subseteq claims \cup DocsOf(pending[c])
    BY <1>3 DEF UpsertDocuments, DeleteSegments, AppendSegments, FlushClaims
  <2> QED
    BY <2>2, <2>3, <2>4, <2>5 DEF QuarantineStaysOut
<1>4. ASSUME NEW c \in Consumers, PublishCompletion(c) PROVE QuarantineStaysOut'
  <2>1. PICK item \in todo[c] : completed' = completed \cup {DocAt(item)}
    BY <1>4 DEF PublishCompletion
  <2>2. DocAt(item) \notin Invalid \cup Defective
    BY <1>4 DEF PublishCompletion, BadInputIsDropped, DropsBadInput
  <2> QED
    BY <1>4, <2>1, <2>2 DEF PublishCompletion, QuarantineStaysOut
<1>5. ASSUME NEW c \in Consumers,
             Poll(c) \/ Validated(c) \/ StartPromotion(c) \/ CommitCurated(c) \/ Conflict(c)
      PROVE  QuarantineStaysOut'
  BY <1>1, <1>5 DEF Poll, Validated, StartPromotion, CommitCurated, Conflict, PromotionFails
<1>6. ASSUME NEW c \in Consumers,
             PublishFailure(c) \/ Published(c) \/ CommitOffset(c) \/ CommitFails(c)
      PROVE  QuarantineStaysOut'
  BY <1>1, <1>6 DEF PublishFailure, Published, CommitOffset, CommitFails
<1>7. ASSUME NEW c \in Consumers,
             PromotionRaises(c) \/ Evict(c) \/ Crash(c) \/ \E t \in Topics : Assign(t, c)
      PROVE  QuarantineStaysOut'
  BY <1>1, <1>7 DEF PromotionRaises, PromotionFails, Evict, Crash, Assign
<1> QED
  BY <1>1, <1>2, <1>3, <1>4, <1>5, <1>6, <1>7 DEF Next, RunOnce, vars, Announce

(* Only PublishCompletion adds to the completed documents.                 *)
LEMMA OnlyPublishingCompletes ==
    ASSUME NEW c \in Consumers, StepOf(c)
    PROVE  completed' = completed \/ PublishCompletion(c)
<1> USE DEF broker, events, zones, consumers
<1>1. CASE Receives(c) \/ Writes(c)
  BY <1>1 DEF Receives, Poll, QuarantineInvalid, Validated, QuarantineDefect, StartPromotion,
     Writes, UpsertDocuments, DeleteSegments, AppendSegments, FlushClaims
<1>2. CASE Concludes(c) \/ Reports(c)
  BY <1>2 DEF Concludes, CommitCurated, Conflict, PromotionRaises, PromotionFails, Reports,
     PublishFailure, Published, CommitOffset, CommitFails
<1>3. CASE Regroups(c)
  BY <1>3 DEF Regroups, Evict, Crash, Assign
<1> QED
  BY <1>1, <1>2, <1>3, StepHasParts

(* No step takes a document, a claim or a curated row away; the segments   *)
(* are another matter.                                                     *)
LEMMA ZonesGrow ==
    ASSUME [Next]_vars
    PROVE  documents \subseteq documents' /\ claims \subseteq claims' /\ curated \subseteq curated'
<1> USE DEF broker, events, zones, consumers
<1> DEFINE Grow == documents \subseteq documents' /\ claims \subseteq claims' /\ curated \subseteq curated'
<1>1. ASSUME NEW c \in Consumers, StepOf(c) PROVE Grow
  <2>1. CASE Receives(c)
    BY <2>1 DEF Receives, Poll, QuarantineInvalid, Validated, QuarantineDefect, StartPromotion
  <2>2. CASE Writes(c)
    BY <2>2 DEF Writes, UpsertDocuments, DeleteSegments, AppendSegments, FlushClaims
  <2>3. CASE Concludes(c)
    BY <2>3 DEF Concludes, CommitCurated, Conflict, PromotionRaises, PromotionFails
  <2>4. CASE Reports(c)
    BY <2>4 DEF Reports, PublishCompletion, PublishFailure, Published, CommitOffset, CommitFails
  <2>5. CASE Regroups(c)
    BY <2>5 DEF Regroups, Evict, Crash, Assign
  <2> QED
    BY <1>1, <2>1, <2>2, <2>3, <2>4, <2>5, StepHasParts
<1>2. ASSUME NEW d \in Docs, Announce(d) PROVE Grow
  BY <1>2 DEF Announce
<1> QED
  BY <1>1, <1>2, NextHasParts DEF vars

(* What the steps before have written is there.                            *)
LEMMA NextWrittenSoFar ==
    ASSUME TypeOK, OffsetsAreLogged, BadInputIsDropped, WrittenSoFar, [Next]_vars
    PROVE  WrittenSoFar'
<1> USE DEF broker, events, zones, consumers
<1>1. LogsGrow
  BY NextGrows
<1>2. documents \subseteq documents' /\ claims \subseteq claims' /\ curated \subseteq curated'
  BY ZonesGrow
<1>3. ASSUME NEW o \in Consumers, pc'[o] = pc[o], pending'[o] = pending[o] PROVE HasWritten(o)'
  <2>1. \A item \in pending[o] : (DocAt(item))' = DocAt(item)
    BY <1>1, DocsStay
  <2> QED
    BY <1>2, <1>3, <2>1 DEF WrittenSoFar, HasWritten
<1>4. completed' \subseteq documents' \cap claims' \cap curated'
  <2>1. CASE completed' = completed
    BY <1>2, <2>1 DEF WrittenSoFar
  <2>2. ASSUME NEW c \in Consumers, PublishCompletion(c)
        PROVE  completed' \subseteq documents' \cap claims' \cap curated'
    <3>1. PICK item \in todo[c] : completed' = completed \cup {DocAt(item)}
      BY <2>2 DEF PublishCompletion
    <3>2. pc[c] = "complete" /\ item \in pending[c]
      BY <2>2 DEF PublishCompletion, BadInputIsDropped, DropsBadInput
    <3> QED
      BY <1>2, <3>1, <3>2 DEF WrittenSoFar, HasWritten
  <2>3. ASSUME NEW c \in Consumers, StepOf(c)
        PROVE  completed' = completed \/ PublishCompletion(c)
    BY <2>3, OnlyPublishingCompletes
  <2>4. ASSUME NEW d \in Docs, Announce(d) PROVE completed' = completed
    BY <2>4 DEF Announce
  <2> QED
    BY <2>1, <2>2, <2>3, <2>4, NextHasParts DEF vars
<1>5. CASE UNCHANGED consumers
  BY <1>3, <1>4, <1>5 DEF WrittenSoFar
<1>6. ASSUME NEW c \in Consumers, StepOf(c) PROVE WrittenSoFar'
  <2>1. ASSUME HasWritten(c)' PROVE WrittenSoFar'
    BY <1>3, <1>4, <1>6, <2>1, OthersRest DEF WrittenSoFar, Same
  <2>2. \A item \in pending[c] : (DocAt(item))' = DocAt(item) /\ DocAt(item) \in DocsOf(pending[c])
    BY <1>1, DocsStay DEF DocsOf
  <2>3. HasWritten(c)
    BY DEF WrittenSoFar
  <2>4. ASSUME pc'[c] \notin {"delete", "append", "claims", "curate", "complete"}
        PROVE  HasWritten(c)'
    BY <2>4 DEF HasWritten
  <2>5. ASSUME UpsertDocuments(c) PROVE HasWritten(c)'
    <3>1. /\ pc'[c] = "delete" /\ pending'[c] = pending[c]
          /\ documents' = documents \cup DocsOf(pending[c])
      BY <2>5 DEF UpsertDocuments, TypeOK
    <3> QED
      BY <2>2, <3>1 DEF HasWritten
  <2>6. ASSUME DeleteSegments(c) \/ AppendSegments(c) PROVE HasWritten(c)'
    <3>1. /\ pc[c] \in {"delete", "append"} /\ pc'[c] \in {"append", "claims"}
          /\ pending'[c] = pending[c]
      BY <2>6 DEF DeleteSegments, AppendSegments, TypeOK
    <3> QED
      BY <1>2, <2>2, <2>3, <3>1 DEF HasWritten
  <2>7. ASSUME FlushClaims(c) PROVE HasWritten(c)'
    <3>1. /\ pc[c] = "claims" /\ pc'[c] = "curate" /\ pending'[c] = pending[c]
          /\ claims' = claims \cup DocsOf(pending[c])
      BY <2>7 DEF FlushClaims, TypeOK
    <3> QED
      BY <1>2, <2>2, <2>3, <3>1 DEF HasWritten
  <2>8. ASSUME CommitCurated(c) PROVE HasWritten(c)'
    <3>1. /\ pc[c] = "curate" /\ pc'[c] = "complete" /\ pending'[c] = pending[c]
          /\ curated' = curated \cup DocsOf(pending[c])
      BY <2>8 DEF CommitCurated, TypeOK
    <3> QED
      BY <1>2, <2>2, <2>3, <3>1 DEF HasWritten
  <2>9. ASSUME Poll(c) \/ Validated(c) \/ QuarantineDefect(c) \/ StartPromotion(c) \/ Conflict(c)
               \/ PromotionRaises(c) \/ Published(c) \/ BatchOver(c)
        PROVE  HasWritten(c)'
    <3>1. pc'[c] \in {"validate", "commit", "promote", "documents", "fail", "poll"}
      BY <2>9 DEF Poll, Validated, QuarantineDefect, StartPromotion, Conflict, PromotionRaises,
         PromotionFails, Published, BatchOver, TypeOK
    <3> QED
      BY <2>4, <3>1
  <2>10. ASSUME UNCHANGED <<pc, pending>> PROVE HasWritten(c)'
    BY <1>3, <2>10
  <2> QED
    BY <1>6, <2>1, <2>5, <2>6, <2>7, <2>8, <2>9, <2>10 DEF StepOf, RunOnce, CommitFails, Crash,
       CommitOffset, Assign, Evict, QuarantineInvalid, PublishCompletion, PublishFailure
<1> QED
  BY <1>5, <1>6 DEF Next, StepOf, vars, Announce

-------------------------------------------------------------------------------
(* The theorems.                                                           *)

(* The invariant at the beginning.                                         *)
LEMMA InitIInv == Init => IInv
<1> SUFFICES ASSUME Init PROVE IInv
  OBVIOUS
<1>1. TypeOK
  BY InitTypeOK
<1>2. \A t \in Topics : log[t] = <<>> /\ Len(log[t]) = 0 /\ committed[t] = 0 /\ position[t] = 0
                        /\ owner[t] = None
  BY DEF Init
<1>3. \A c \in Consumers : pc[c] = "poll" /\ batch[c] = {} /\ pending[c] = {} /\ todo[c] = {}
  BY DEF Init
<1>4. OffsetsAreLogged
  BY <1>2, <1>3 DEF OffsetsAreLogged
<1>5. BatchesSettle /\ AppendsFindNone /\ BadInputIsDropped
  BY <1>3 DEF BatchesSettle, BatchSettles, AppendsFindNone, AppendFindsNone, BadInputIsDropped,
     DropsBadInput, Writing
<1>6. PositionsSettle /\ CommitsAreSettled
  BY <1>2 DEF PositionsSettle, PositionSettles, CommitsAreSettled
<1>7. NoDuplicateSegments /\ QuarantineStaysOut /\ WrittenSoFar
  BY <1>3, PromotionAssumption DEF Init, NoDuplicateSegments, QuarantineStaysOut, WrittenSoFar,
     HasWritten
<1> QED
  BY <1>1, <1>4, <1>5, <1>6, <1>7 DEF IInv

(* The inductive invariant holds of every behaviour of the group.          *)
THEOREM PromotionInvariance == Spec => []IInv
<1>1. IInv /\ [Next]_vars => IInv'
  BY NextTypeOK, NextOffsetsAreLogged, NextBatchesSettle, NextPositionsSettle,
     NextCommitsAreSettled, NextAppendsFindNone, NextNoDuplicateSegments, NextBadInputIsDropped,
     NextQuarantineStaysOut, NextWrittenSoFar DEF IInv
<1> QED
  BY InitIInv, <1>1, PTL DEF Spec

(* No crash, eviction, refused commit or failing promotion loses a         *)
(* reference: run_once commits an offset only after an event for it.       *)
THEOREM CommitsFollowEvents == Spec => []CommittedIsSettled
<1>1. IInv => CommittedIsSettled
  BY DEF IInv, CommitsAreSettled, CommittedIsSettled
<1> QED
  BY <1>1, PromotionInvariance, PTL

(* However often a document is delivered, and to however many consumers,   *)
(* persist_many never leaves its segments twice in the table.              *)
THEOREM SegmentsAreWrittenOnce == Spec => []NoDuplicateSegments
<1>1. IInv => NoDuplicateSegments
  BY DEF IInv
<1> QED
  BY <1>1, PromotionInvariance, PTL

(* A reference that is quarantined was bad, and what is bad reaches no     *)
(* zone and is never announced as promoted.                                *)
THEOREM BadInputStaysOut == Spec => []QuarantineStaysOut
<1>1. IInv => QuarantineStaysOut
  BY DEF IInv
<1> QED
  BY <1>1, PromotionInvariance, PTL

-------------------------------------------------------------------------------
(* Until a member is evicted.  Every lemma up to the theorem assumes IInv  *)
(* too.                                                                    *)

(* The clauses for complete writes, at the beginning.                      *)
LEMMA InitWholeInv == Init => WholeInv
  BY DEF Init, WholeInv, BatchIsOwned, BatchIsPending, CommitsTrail, MissingSegmentsReturn, Appended

(* An eviction is not forgotten.                                           *)
LEMMA NoEviction ==
    ASSUME ~evicted'
    PROVE  /\ \A c \in Consumers : ~Evict(c)
           /\ [Next]_vars => ~evicted
<1>1. \A c \in Consumers : ~Evict(c)
  BY DEF Evict
<1>2. ASSUME NEW c \in Consumers, RunOnce(c) PROVE evicted' = evicted
  <2>1. CASE Poll(c) \/ QuarantineInvalid(c) \/ Validated(c) \/ QuarantineDefect(c) \/ StartPromotion(c)
    BY <2>1 DEF broker, Poll, QuarantineInvalid, Validated, QuarantineDefect, StartPromotion
  <2>2. CASE UpsertDocuments(c) \/ DeleteSegments(c) \/ AppendSegments(c) \/ FlushClaims(c)
             \/ CommitCurated(c) \/ Conflict(c)
    BY <2>2 DEF broker, UpsertDocuments, DeleteSegments, AppendSegments, FlushClaims,
       CommitCurated, Conflict, PromotionFails
  <2>3. CASE PublishCompletion(c) \/ PublishFailure(c) \/ Published(c) \/ CommitOffset(c)
             \/ CommitFails(c)
    BY <2>3 DEF broker, PublishCompletion, PublishFailure, Published, CommitOffset, CommitFails
  <2> QED
    BY <1>2, <2>1, <2>2, <2>3 DEF RunOnce
<1>3. ASSUME [Next]_vars PROVE evicted' = evicted
  BY <1>1, <1>2, <1>3 DEF Next, vars, broker, Announce, Assign, PromotionRaises, PromotionFails,
     Crash
<1> QED
  BY <1>1, <1>3

(* Nobody polls ahead of the committed offset of a partition it owns.      *)
LEMMA NextCommitsTrail ==
    ASSUME IInv, CommitsTrail, [Next]_vars
    PROVE  CommitsTrail'
<1> USE DEF broker, events, zones, consumers, IInv
<1>1. CASE UNCHANGED <<owner, committed, position>>
  BY <1>1 DEF CommitsTrail
<1>2. ASSUME NEW c \in Consumers, NEW s \in Topics, Assign(s, c) PROVE CommitsTrail'
  <2>1. /\ committed' = committed /\ position'[s] = committed[s] /\ committed[s] \in Nat
        /\ \A t \in Topics \ {s} : owner'[t] = owner[t] /\ position'[t] = position[t]
    BY <1>2 DEF Assign, TypeOK
  <2> QED
    BY <2>1 DEF CommitsTrail
<1>3. ASSUME NEW c \in Consumers, Evict(c) \/ Crash(c) PROVE CommitsTrail'
  BY <1>3 DEF Evict, Crash, Released, CommitsTrail
<1>4. ASSUME NEW c \in Consumers, Poll(c) PROVE CommitsTrail'
  <2>1. PICK upto \in [Topics -> Nat], items \in SUBSET (Topics \X Nat) : Polled(c, upto, items)
    BY <1>4, PollSteps
  <2>2. position' = upto /\ committed' = committed /\ owner' = owner
        /\ \A t \in Topics : position[t] <= upto[t] /\ position[t] \in Nat /\ committed[t] \in Nat
    BY <1>4, <2>1, PolledItems DEF Poll, Polled, TypeOK
  <2> QED
    BY <2>2 DEF CommitsTrail
<1>5. ASSUME NEW c \in Consumers, CommitOffset(c) PROVE CommitsTrail'
  <2>1. PICK item \in batch[c] : /\ owner[item[1]] = c
                                 /\ committed' = [committed EXCEPT ![item[1]] = item[2]]
    BY <1>5 DEF CommitOffset, NextToCommit
  <2>2. item[1] \in Topics /\ c # None
    BY PromotionAssumption, MessagesAreTyped DEF OffsetsAreLogged
  <2>3. item[2] <= position[item[1]]
    BY <2>1, <2>2 DEF PositionsSettle, PositionSettles
  <2>4. UNCHANGED <<owner, position>>
    BY <1>5 DEF CommitOffset
  <2> QED
    BY <2>1, <2>2, <2>3, <2>4 DEF CommitsTrail, TypeOK
<1> QED
  BY <1>1, <1>2, <1>3, <1>4, <1>5, OffsetsRest DEF MovesOffsets, CommitFails

(* A partition changes hands only when its owner's batch is gone.          *)
LEMMA NextBatchIsOwned ==
    ASSUME ~evicted', IInv, WholeInv, [Next]_vars, NEW o \in Consumers
    PROVE  BatchIsOwned(o)'
<1> USE DEF broker, events, zones, consumers, IInv
<1>1. /\ BatchIsOwned(o)
      /\ \A item \in batch[o] : item[1] \in Topics /\ item[2] \in Nat
                                /\ item = <<item[1], item[2]>>
  BY MessagesAreTyped DEF WholeInv, OffsetsAreLogged, Logged, Offset
<1>2. CASE UNCHANGED <<owner, committed, batch>>
  BY <1>1, <1>2 DEF BatchIsOwned
<1>3. ASSUME NEW c \in Consumers, NEW s \in Topics, Assign(s, c) PROVE BatchIsOwned(o)'
  <2>1. /\ batch' = batch /\ committed' = committed /\ owner[s] = None
        /\ \A t \in Topics \ {s} : owner'[t] = owner[t]
    BY <1>3 DEF Assign, TypeOK
  <2> QED
    BY <1>1, <2>1, PromotionAssumption DEF BatchIsOwned
<1>4. ASSUME NEW c \in Consumers, Crash(c) PROVE BatchIsOwned(o)'
  <2>1. /\ \A t \in Topics : owner[t] # c => owner'[t] = owner[t]
        /\ batch'[c] = {} /\ committed' = committed
        /\ \A p \in Consumers \ {c} : batch'[p] = batch[p]
    BY <1>4 DEF Crash, Released, BatchOver, TypeOK
  <2> QED
    BY <1>1, <2>1 DEF BatchIsOwned
<1>5. ASSUME NEW c \in Consumers, Poll(c) PROVE BatchIsOwned(o)'
  <2>1. PICK upto \in [Topics -> Nat], items \in SUBSET (Topics \X Nat) : Polled(c, upto, items)
    BY <1>5, PollSteps
  <2>2. /\ batch'[c] = items /\ owner' = owner /\ committed' = committed
        /\ \A p \in Consumers \ {c} : batch'[p] = batch[p]
    BY <1>5, <2>1 DEF Poll, Polled, TypeOK
  <2>3. \A item \in items : /\ owner[item[1]] = c /\ position[item[1]] < item[2]
                            /\ item[1] \in Topics /\ item[2] \in Nat
    BY <2>1, PolledItems
  <2>4. \A item \in items : committed[item[1]] < item[2]
    <3> SUFFICES ASSUME NEW item \in items PROVE committed[item[1]] < item[2]
      OBVIOUS
    <3>1. c # None /\ committed[item[1]] <= position[item[1]]
      BY <2>3, PromotionAssumption DEF WholeInv, CommitsTrail
    <3> QED
      BY <2>3, <3>1 DEF TypeOK
  <2>5. CASE o = c
    BY <2>2, <2>3, <2>4, <2>5 DEF BatchIsOwned
  <2>6. CASE o # c
    BY <1>1, <2>2, <2>6 DEF BatchIsOwned
  <2> QED
    BY <2>5, <2>6
<1>6. ASSUME NEW c \in Consumers, CommitOffset(c) PROVE BatchIsOwned(o)'
  <2>1. PICK item \in batch[c] :
          /\ \A other \in batch[c] : other[1] = item[1] => item[2] <= other[2]
          /\ owner[item[1]] = c
          /\ committed' = [committed EXCEPT ![item[1]] = item[2]]
          /\ \/ BatchOver(c) /\ batch[c] = {item}
             \/ batch' = [batch EXCEPT ![c] = batch[c] \ {item}]
    BY <1>6 DEF CommitOffset, NextToCommit
  <2>2. /\ owner' = owner /\ batch'[c] = batch[c] \ {item}
        /\ \A p \in Consumers \ {c} : batch'[p] = batch[p]
    BY <1>6, <2>1 DEF CommitOffset, BatchOver, TypeOK
  <2>3. /\ item \in Logged /\ item[1] \in Topics /\ item[2] \in Nat /\ item = <<item[1], item[2]>>
    BY <2>1, MessagesAreTyped DEF OffsetsAreLogged, Logged, Offset
  <2>4. \A t \in Topics : committed'[t] = IF t = item[1] THEN item[2] ELSE committed[t]
    BY <2>1, <2>3 DEF TypeOK
  <2>5. CASE o = c
    <3> SUFFICES ASSUME NEW other \in batch[c] \ {item}
                 PROVE  owner[other[1]] = c /\ committed'[other[1]] < other[2]
      BY <2>2, <2>5 DEF BatchIsOwned
    <3>1. CASE other[1] = item[1]
      <4>1. item[2] # other[2]
        BY <1>1, <2>3, <2>5, <3>1
      <4> QED
        BY <1>1, <2>1, <2>3, <2>4, <2>5, <3>1, <4>1
    <3>2. CASE other[1] # item[1]
      BY <1>1, <2>4, <2>5, <3>2 DEF BatchIsOwned
    <3> QED
      BY <1>1, <2>5, <3>1, <3>2 DEF BatchIsOwned
  <2>6. CASE o # c
    BY <1>1, <2>1, <2>2, <2>4, <2>6 DEF BatchIsOwned
  <2> QED
    BY <2>5, <2>6
<1>7. ASSUME NEW c \in Consumers, CommitFails(c) PROVE BatchIsOwned(o)'
  <2>1. UNCHANGED <<owner, committed>> /\ batch'[o] \subseteq batch[o]
    BY <1>7 DEF CommitFails, BatchOver, TypeOK
  <2> QED
    BY <1>1, <2>1 DEF BatchIsOwned
<1> QED
  BY <1>2, <1>3, <1>4, <1>5, <1>6, <1>7, NoEviction, OffsetsRest DEF MovesOffsets

(* Without evictions, what a consumer has polled is still to be written by *)
(* it until it is.                                                         *)
LEMMA NextBatchIsPending ==
    ASSUME IInv, WholeInv, [Next]_vars, NEW o \in Consumers
    PROVE  BatchIsPending(o)'
<1> USE DEF broker, events, zones, consumers, IInv
<1>1. BatchIsPending(o)
  BY DEF WholeInv
<1>2. CASE Same(o)
  BY <1>1, <1>2 DEF Same, BatchIsPending
<1>3. CASE UNCHANGED consumers
  BY <1>2, <1>3 DEF Same
<1>4. ASSUME StepOf(o) PROVE BatchIsPending(o)'
  <2>1. ASSUME Poll(o) PROVE BatchIsPending(o)'
    <3>1. PICK upto \in [Topics -> Nat], items \in SUBSET (Topics \X Nat) : Polled(o, upto, items)
      BY <2>1, PollSteps
    <3>2. pc'[o] = "validate" /\ batch'[o] = items /\ pending'[o] \subseteq items
      BY <2>1, <3>1 DEF Poll, Polled, TypeOK
    <3> QED
      BY <3>2 DEF BatchIsPending
  <2>2. ASSUME QuarantineInvalid(o) \/ Validated(o) \/ QuarantineDefect(o) \/ StartPromotion(o)
               \/ UpsertDocuments(o) \/ DeleteSegments(o) \/ AppendSegments(o) \/ FlushClaims(o)
        PROVE  BatchIsPending(o)'
    <3>1. /\ pc[o] \in {"validate", "promote"} \cup Writing /\ pc'[o] # "fail"
          /\ batch'[o] = batch[o] /\ pending'[o] \subseteq pending[o]
      BY <2>2 DEF QuarantineInvalid, Validated, QuarantineDefect, StartPromotion, UpsertDocuments,
         DeleteSegments, AppendSegments, FlushClaims, TypeOK, Writing
    <3> QED
      BY <1>1, <3>1 DEF BatchIsPending
  <2>3. ASSUME CommitCurated(o) \/ Published(o) \/ PublishCompletion(o) \/ BatchOver(o)
        PROVE  BatchIsPending(o)'
    <3>1. pc'[o] \in {"complete", "commit", "poll"}
      BY <2>3 DEF CommitCurated, Published, PublishCompletion, BatchOver, TypeOK
    <3> QED
      BY <3>1 DEF BatchIsPending, Writing
  <2>4. ASSUME Conflict(o) \/ PromotionRaises(o) PROVE BatchIsPending(o)'
    <3>1. /\ pc[o] \in {"promote"} \cup Writing /\ pc'[o] = "fail" /\ batch'[o] = batch[o]
          /\ pending'[o] = pending[o] /\ todo'[o] = pending[o]
      BY <2>4 DEF Conflict, PromotionRaises, PromotionFails, TypeOK, Writing
    <3> QED
      BY <1>1, <3>1 DEF BatchIsPending
  <2>5. ASSUME PublishFailure(o) PROVE BatchIsPending(o)'
    <3>1. /\ pc'[o] = pc[o] /\ batch'[o] = batch[o] /\ pending'[o] = pending[o]
          /\ todo'[o] \subseteq todo[o]
      BY <2>5 DEF PublishFailure, TypeOK
    <3> QED
      BY <1>1, <3>1 DEF BatchIsPending
  <2>6. ASSUME CommitOffset(o) PROVE BatchIsPending(o)'
    <3>1. BatchOver(o) \/ pc'[o] = "commit"
      BY <2>6 DEF CommitOffset
    <3> QED
      BY <2>3, <3>1 DEF BatchIsPending, Writing
  <2>7. ASSUME Evict(o) \/ \E t \in Topics : Assign(t, o) PROVE BatchIsPending(o)'
    BY <1>2, <2>7 DEF Evict, Assign, Same
  <2> QED
    BY <1>4, <2>1, <2>2, <2>3, <2>4, <2>5, <2>6, <2>7 DEF StepOf, RunOnce, CommitFails, Crash
<1>5. ASSUME NEW c \in Consumers, c # o, StepOf(c) PROVE BatchIsPending(o)'
  BY <1>2, <1>5, OthersRest
<1> QED
  BY <1>3, <1>4, <1>5 DEF Next, StepOf, vars, Announce

(* Only good documents have segments.                                      *)
LEMMA AppendedIsGood ==
    ASSUME IInv
    PROVE  Appended \subseteq Docs /\ Appended \cap (Invalid \cup Defective) = {}
<1>1. completed \subseteq Docs /\ completed \cap (Invalid \cup Defective) = {}
  BY DEF IInv, TypeOK, QuarantineStaysOut
<1>2. ASSUME NEW c \in Consumers, pc[c] \in {"claims", "curate", "complete"}
      PROVE  DocsOf(pending[c]) \subseteq Docs /\ DocsOf(pending[c]) \cap (Invalid \cup Defective) = {}
  <2>1. pc[c] \in Writing \cup {"complete"}
    BY <1>2 DEF Writing
  <2> QED
    BY <2>1, DocsAreTyped DEF IInv, BadInputIsDropped, DropsBadInput, DocsOf
<1> QED
  BY <1>1, <1>2 DEF Appended

(* What is appended newly has just been appended.                          *)
LEMMA NewlyAppended ==
    ASSUME IInv, [Next]_vars, NEW d \in Appended', d \notin Appended
    PROVE  \E c \in Consumers : AppendSegments(c) /\ d \in DocsOf(pending[c])
<1> USE DEF broker, events, zones, consumers, IInv
<1>1. LogsGrow
  BY NextGrows
<1>2. ASSUME NEW o \in Consumers, pc'[o] \in {"claims", "curate", "complete"},
             pc[o] \in {"claims", "curate", "complete"}, pending'[o] = pending[o],
             NEW e \in (DocsOf(pending[o]))'
      PROVE  e \in Appended
  <2>1. \A item \in pending[o] : (DocAt(item))' = DocAt(item)
    BY <1>1, DocsStay
  <2>2. e \in DocsOf(pending[o])
    BY <1>2, <2>1 DEF DocsOf
  <2> QED
    BY <1>2, <2>2 DEF Appended
<1>3. CASE UNCHANGED <<consumers, completed>>
  <2>1. PICK o \in Consumers : pc'[o] \in {"claims", "curate", "complete"}
                               /\ d \in (DocsOf(pending[o]))'
    BY <1>3 DEF Appended
  <2> QED
    BY <1>2, <1>3, <2>1
<1>4. ASSUME NEW c \in Consumers, StepOf(c) PROVE AppendSegments(c) /\ d \in DocsOf(pending[c])
  <2>1. completed' \subseteq Appended
    <3>1. CASE completed' = completed
      BY <3>1 DEF Appended
    <3>2. CASE PublishCompletion(c)
      <4>1. PICK item \in todo[c] : completed' = completed \cup {DocAt(item)}
        BY <3>2 DEF PublishCompletion
      <4>2. pc[c] = "complete" /\ item \in pending[c]
        BY <3>2 DEF PublishCompletion, BadInputIsDropped, DropsBadInput
      <4>3. DocAt(item) \in DocsOf(pending[c])
        BY <4>2 DEF DocsOf
      <4> QED
        BY <4>1, <4>2, <4>3 DEF Appended
    <3> QED
      BY <1>4, <3>1, <3>2, OnlyPublishingCompletes
  <2>2. PICK o \in Consumers : pc'[o] \in {"claims", "curate", "complete"}
                               /\ d \in (DocsOf(pending[o]))'
    BY <2>1 DEF Appended
  <2>3. CASE o # c
    BY <1>2, <1>4, <2>2, <2>3, OthersRest DEF Same
  <2>4. CASE o = c /\ ~AppendSegments(c)
    <3> DEFINE late == {"claims", "curate", "complete"}
    <3>1. pc[c] \in late /\ pending'[c] = pending[c]
      <4>1. CASE Receives(c)
        BY <2>2, <2>4, <4>1 DEF Receives, Poll, QuarantineInvalid, Validated, QuarantineDefect,
           StartPromotion, TypeOK
      <4>2. CASE UpsertDocuments(c) \/ DeleteSegments(c) \/ FlushClaims(c)
        BY <2>2, <2>4, <4>2 DEF UpsertDocuments, DeleteSegments, FlushClaims, TypeOK
      <4>3. CASE Concludes(c)
        BY <2>2, <2>4, <4>3 DEF Concludes, CommitCurated, Conflict, PromotionRaises,
           PromotionFails, TypeOK
      <4>4. CASE Reports(c) \/ Regroups(c)
        BY <2>2, <2>4, <4>4 DEF Reports, PublishCompletion, PublishFailure, Published,
           CommitOffset, CommitFails, Regroups, Evict, Crash, Assign, BatchOver, TypeOK
      <4> QED
        BY <1>4, <2>4, <4>1, <4>2, <4>3, <4>4, StepHasParts DEF Writes
    <3> QED
      BY <1>2, <2>2, <2>4, <3>1
  <2>5. CASE o = c /\ AppendSegments(c)
    <3>1. pending' = pending
      BY <2>5 DEF AppendSegments
    <3>2. \A item \in pending[c] : (DocAt(item))' = DocAt(item)
      BY <1>1, DocsStay
    <3>3. d \in DocsOf(pending[c])
      BY <2>2, <2>5, <3>1, <3>2 DEF DocsOf
    <3> QED
      BY <2>5, <3>3
  <2> QED
    BY <2>3, <2>4, <2>5
<1> QED
  BY <1>3, <1>4 DEF Next, StepOf, vars, Announce

(* An item that will be written brings its document's segments back.       *)
LEMMA ReturnsBy ==
    ASSUME LogsGrow, NEW item \in Logged, NEW d, d = DocAt(item), ToBeWritten(item)'
    PROVE  SegmentsReturn(d)'
<1>1. item \in Logged' /\ (DocAt(item))' = d
  BY LoggedStays
<1> QED
  BY <1>1 DEF SegmentsReturn

(* A reference that will be written still will be, while its partition is  *)
(* committed no further and keeps its owner or loses it.                   *)
LEMMA ToBeWrittenStays ==
    ASSUME NEW item \in Logged, ToBeWritten(item), UNCHANGED <<committed, position>>,
           owner'[item[1]] \in {owner[item[1]], None},
           \A o \in Consumers : WillWrite(o, item) =>
                WillWrite(o, item)' \/ owner'[item[1]] = None
    PROVE  ToBeWritten(item)'
  BY DEF ToBeWritten

(* A reference still to be written stays so until its document's segments  *)
(* are there, or is handed on by a message or to the dead letter queue.    *)
LEMMA StillToBeWritten ==
    ASSUME ~evicted', IInv, WholeInv, [Next]_vars, NEW item \in Logged,
           ToBeWritten(item), NEW d, d = DocAt(item), d \in Appended
    PROVE  SegmentsReturn(d)'
<1> USE DEF broker, events, zones, consumers, IInv
<1>1. LogsGrow
  BY NextGrows
<1>2. /\ item[1] \in Topics /\ item[2] \in Nat \ {0} /\ item = <<item[1], item[2]>> /\ d \in Docs
      /\ d \notin Invalid \cup Defective
  BY MessagesAreTyped, AppendedIsGood DEF Logged, Offset
<1>3. ASSUME ToBeWritten(item)' PROVE SegmentsReturn(d)'
  BY <1>1, <1>3, ReturnsBy
<1>4. CASE UNCHANGED <<broker, consumers>>
  BY <1>3, <1>4 DEF ToBeWritten, WillWrite
<1>5. ASSUME NEW e \in Docs, Announce(e) PROVE SegmentsReturn(d)'
  BY <1>3, <1>5 DEF Announce, ToBeWritten, WillWrite
<1>6. ASSUME NEW c \in Consumers, StepOf(c) PROVE SegmentsReturn(d)'
  <2>1. \A o \in Consumers \ {c} : WillWrite(o, item) => WillWrite(o, item)'
    BY <1>6, OthersRest DEF Same, WillWrite
  <2>2. ASSUME UNCHANGED <<committed, position, owner>>, WillWrite(c, item) => WillWrite(c, item)'
        PROVE  SegmentsReturn(d)'
    BY <1>3, <2>1, <2>2, ToBeWrittenStays
  <2>3. ASSUME NEW t \in Topics, Assign(t, c) PROVE SegmentsReturn(d)'
    <3>1. /\ committed' = committed /\ position'[t] = committed[t] /\ UNCHANGED consumers
          /\ \A s \in Topics \ {t} : owner'[s] = owner[s] /\ position'[s] = position[s]
      BY <2>3 DEF Assign, TypeOK
    <3>2. ToBeWritten(item)'
      BY <1>2, <3>1 DEF ToBeWritten, WillWrite
    <3> QED
      BY <1>3, <3>2
  <2>4. ASSUME Poll(c) PROVE SegmentsReturn(d)'
    <3>1. PICK upto \in [Topics -> Nat], items \in SUBSET (Topics \X Nat) : Polled(c, upto, items)
      BY <2>4, PollSteps
    <3>2. /\ committed' = committed /\ owner' = owner /\ position' = upto /\ pc[c] = "poll"
          /\ pc'[c] = "validate" /\ batch'[c] = items
          /\ pending'[c] = {one \in items : ~IsInvalid(one)}
      BY <2>4, <3>1 DEF Poll, Polled, TypeOK
    <3>3. CASE item \in items
      <4>1. item \in pending'[c]
        BY <1>2, <3>2, <3>3 DEF IsInvalid
      <4>2. WillWrite(c, item)'
        BY <3>2, <3>3, <4>1 DEF WillWrite
      <4>3. ToBeWritten(item)'
        BY <3>2, <4>2 DEF ToBeWritten
      <4> QED
        BY <1>3, <4>3
    <3>4. CASE item \notin items
      <4>1. item[2] > position[item[1]] => item[2] > upto[item[1]]
        BY <1>2, <3>1, <3>4 DEF Polled, TypeOK
      <4>2. ~WillWrite(c, item)
        BY <3>2 DEF WillWrite, Writing
      <4>3. ToBeWritten(item)'
        BY <2>1, <3>2, <4>1, <4>2 DEF ToBeWritten
      <4> QED
        BY <1>3, <4>3
    <3> QED
      BY <3>3, <3>4
  <2>5. ASSUME QuarantineInvalid(c) \/ StartPromotion(c) \/ UpsertDocuments(c) \/ DeleteSegments(c)
        PROVE  SegmentsReturn(d)'
    <3>1. /\ pc'[c] \in {"validate", "promote", "documents", "delete", "append"}
          /\ pc[c] # "fail" /\ pending'[c] = pending[c] /\ batch'[c] = batch[c]
          /\ UNCHANGED <<committed, position, owner>>
      BY <2>5 DEF QuarantineInvalid, StartPromotion, UpsertDocuments, DeleteSegments, TypeOK
    <3> QED
      BY <2>2, <3>1 DEF WillWrite
  <2>6. ASSUME Validated(c) PROVE SegmentsReturn(d)'
    <3>1. /\ pc[c] = "validate" /\ pending'[c] = pending[c] /\ batch'[c] = batch[c]
          /\ pending[c] # {} => pc'[c] = "promote"
          /\ UNCHANGED <<committed, position, owner>>
      BY <2>6 DEF Validated, TypeOK
    <3> QED
      BY <2>2, <3>1 DEF WillWrite
  <2>7. ASSUME QuarantineDefect(c) PROVE SegmentsReturn(d)'
    <3>1. PICK e \in Defective :
            /\ pending' = [pending EXCEPT ![c] = {one \in pending[c] : DocAt(one) # e}]
            /\ pc' = [pc EXCEPT ![c] = IF {one \in pending[c] : DocAt(one) # e} = {}
                                      THEN "commit" ELSE "promote"]
      BY <2>7 DEF QuarantineDefect
    <3>2. /\ pc[c] = "promote" /\ pending'[c] = {one \in pending[c] : DocAt(one) # e}
          /\ pending'[c] # {} => pc'[c] = "promote"
          /\ batch'[c] = batch[c] /\ UNCHANGED <<committed, position, owner>>
      BY <2>7, <3>1 DEF QuarantineDefect, TypeOK
    <3>3. item \in pending[c] => item \in pending'[c]
      BY <1>2, <3>2
    <3> QED
      BY <2>2, <3>2, <3>3 DEF WillWrite
  <2>8. ASSUME AppendSegments(c) PROVE SegmentsReturn(d)'
    <3>1. UNCHANGED <<committed, position, owner>> /\ pc[c] = "append"
      BY <2>8 DEF AppendSegments
    <3>2. CASE WillWrite(c, item)
      <4>1. item \in pending[c] /\ d \in DocsOf(pending[c])
        BY <3>1, <3>2 DEF WillWrite, DocsOf
      <4>2. segments[d] = 0
        BY <2>8, <4>1 DEF AppendSegments, AppendsFindNone, AppendFindsNone
      <4>3. segments'[d] = 1
        BY <1>2, <2>8, <4>1, <4>2 DEF AppendSegments
      <4> QED
        BY <4>3 DEF SegmentsReturn
    <3> QED
      BY <2>2, <3>1, <3>2
  <2>9. ASSUME FlushClaims(c) \/ CommitCurated(c) \/ PublishCompletion(c) \/ CommitFails(c)
        PROVE  SegmentsReturn(d)'
    <3>1. pc[c] \in {"claims", "curate", "complete", "commit"} /\ UNCHANGED <<committed, position, owner>>
      BY <2>9 DEF FlushClaims, CommitCurated, PublishCompletion, CommitFails
    <3> QED
      BY <2>2, <3>1 DEF WillWrite
  <2>10. ASSUME Published(c) PROVE SegmentsReturn(d)'
    <3>1. pc[c] \in {"complete", "fail"} /\ todo[c] = {} /\ UNCHANGED <<committed, position, owner>>
      BY <2>10 DEF Published
    <3> QED
      BY <2>2, <3>1 DEF WillWrite
  <2>11. ASSUME Conflict(c) \/ PromotionRaises(c) PROVE SegmentsReturn(d)'
    <3>1. /\ pc[c] # "fail" /\ pc'[c] = "fail" /\ todo'[c] = pending[c] /\ batch'[c] = batch[c]
          /\ UNCHANGED <<committed, position, owner>>
      BY <2>11 DEF Conflict, PromotionRaises, PromotionFails, TypeOK, Writing
    <3> QED
      BY <2>2, <3>1 DEF WillWrite
  <2>12. ASSUME PublishFailure(c) PROVE SegmentsReturn(d)'
    <3>1. PICK one : FailurePublished(c, one)
      BY <2>12, PublishFailureSteps
    <3>2. /\ pc[c] = "fail" /\ pc'[c] = "fail" /\ batch'[c] = batch[c]
          /\ todo'[c] = todo[c] \ {one} /\ UNCHANGED <<committed, position, owner>>
      BY <2>12, <3>1 DEF PublishFailure, FailurePublished, TypeOK
    <3>3. CASE WillWrite(c, item) /\ one = item /\ log' = log /\ dlq' = dlq \cup {DocAt(item)}
      BY <3>3 DEF SegmentsReturn
    <3>4. ASSUME one = item, NEW t \in Topics, NEW i \in Nat, i > Len(log[t]), i \in DOMAIN log'[t],
                 log'[t][i] = [doc |-> DocAt(item), attempt |-> MessageAt(item).attempt + 1]
          PROVE  SegmentsReturn(d)'
      <4>1. /\ committed[t] < i /\ position[t] < i
        BY <1>1, <3>4 DEF OffsetsAreLogged, TypeOK, LogsGrow
      <4>2. PICK next : next = <<t, i>>
        OBVIOUS
      <4>3. next[1] = t /\ next[2] = i /\ next \in Topics \X Nat
        BY <4>2
      <4>4. next \in Logged' /\ (DocAt(next))' = d
        BY <1>1, <3>4, <4>3 DEF Logged, Offset, DocAt, MessageAt, LogsGrow
      <4>5. ToBeWritten(next)'
        BY <3>2, <4>1, <4>3 DEF ToBeWritten
      <4> QED
        BY <4>4, <4>5 DEF SegmentsReturn
    <3>5. CASE one # item
      BY <2>2, <3>2, <3>5 DEF WillWrite
    <3> QED
      BY <2>2, <3>1, <3>2, <3>3, <3>4, <3>5 DEF FailurePublished
  <2>13. ASSUME CommitOffset(c) PROVE SegmentsReturn(d)'
    <3>1. PICK one \in batch[c] : /\ owner[one[1]] = c
                                  /\ committed' = [committed EXCEPT ![one[1]] = one[2]]
      BY <2>13 DEF CommitOffset, NextToCommit
    <3>2. pc[c] = "commit" /\ UNCHANGED <<position, owner>> /\ ~WillWrite(c, item)
      BY <2>13 DEF CommitOffset, WillWrite
    <3>3. /\ one[1] \in Topics /\ one[2] \in Nat
      BY <3>1, MessagesAreTyped DEF OffsetsAreLogged
    <3>4. c # None /\ one[2] <= position[one[1]] /\ position[one[1]] \in Nat
      BY <3>1, <3>3, PromotionAssumption DEF PositionsSettle, PositionSettles, TypeOK
    <3>5. committed'[item[1]] < item[2]
      <4>1. CASE one[1] # item[1]
        BY <1>2, <3>1, <3>3, <4>1 DEF ToBeWritten, TypeOK
      <4>2. CASE one[1] = item[1]
        <5>1. \A o \in Consumers : ~WillWrite(o, item)
          BY <3>1, <3>2, <4>2 DEF WillWrite, WholeInv, BatchIsOwned
        <5>2. item[2] > position[item[1]]
          BY <3>1, <3>4, <4>2, <5>1 DEF ToBeWritten
        <5>3. committed'[item[1]] = one[2]
          BY <3>1, <3>3, <4>2 DEF TypeOK
        <5> QED
          BY <1>2, <3>3, <3>4, <4>2, <5>2, <5>3
      <4> QED
        BY <4>1, <4>2
    <3>6. ToBeWritten(item)'
      BY <2>1, <3>2, <3>5 DEF ToBeWritten
    <3> QED
      BY <1>3, <3>6
  <2>14. ASSUME Crash(c) PROVE SegmentsReturn(d)'
    <3>1. /\ UNCHANGED <<committed, position>>
          /\ owner'[item[1]] = IF owner[item[1]] = c THEN None ELSE owner[item[1]]
      BY <1>2, <2>14 DEF Crash, Released
    <3>2. WillWrite(c, item) => owner'[item[1]] = None
      BY <3>1 DEF WillWrite, WholeInv, BatchIsOwned
    <3>3. ToBeWritten(item)'
      BY <2>1, <3>1, <3>2, ToBeWrittenStays
    <3> QED
      BY <1>3, <3>3
  <2> QED
    BY <1>6, <2>3, <2>4, <2>5, <2>6, <2>7, <2>8, <2>9, <2>10, <2>11, <2>12, <2>13, <2>14, NoEviction
       DEF StepOf, RunOnce
<1> QED
  BY <1>4, <1>5, <1>6 DEF Next, StepOf, vars

(* Segments that are not there, of a document announced as promoted, are   *)
(* still to be written again.                                              *)
LEMMA NextMissingSegmentsReturn ==
    ASSUME ~evicted', IInv, WholeInv, [Next]_vars
    PROVE  MissingSegmentsReturn'
<1> USE DEF broker, events, zones, consumers, IInv
<1> SUFFICES ASSUME NEW d \in Appended' PROVE SegmentsReturn(d)'
  BY DEF MissingSegmentsReturn
<1>1. LogsGrow /\ EventsGrow
  BY NextGrows
<1>2. CASE d \notin Appended
  <2>1. PICK c \in Consumers : AppendSegments(c) /\ d \in DocsOf(pending[c])
    BY <1>2, NewlyAppended
  <2>2. segments[d] = 0
    BY <2>1 DEF AppendSegments, AppendsFindNone, AppendFindsNone, DocsOf
  <2>3. segments'[d] = 1
    BY <2>1, <2>2, DocsAreTyped DEF AppendSegments
  <2> QED
    BY <2>3 DEF SegmentsReturn
<1>3. CASE d \in Appended /\ d \in dlq
  BY <1>1, <1>3 DEF SegmentsReturn, EventsGrow
<1>4. ASSUME d \in Appended, NEW item \in Logged, DocAt(item) = d, ToBeWritten(item)
      PROVE  SegmentsReturn(d)'
  BY <1>4, StillToBeWritten
<1>5. CASE d \in Appended /\ segments[d] = 1
  <2>1. d \in Docs
    BY <1>5, AppendedIsGood
  <2>2. CASE segments'[d] = segments[d]
    BY <1>5, <2>2 DEF SegmentsReturn
  <2>3. ASSUME NEW c \in Consumers, AppendSegments(c) PROVE SegmentsReturn(d)'
    <3>1. d \notin DocsOf(pending[c])
      BY <1>5, <2>3 DEF AppendSegments, AppendsFindNone, AppendFindsNone, DocsOf
    <3>2. segments'[d] = segments[d]
      BY <2>1, <2>3, <3>1 DEF AppendSegments
    <3> QED
      BY <2>2, <3>2
  <2>4. ASSUME NEW c \in Consumers, DeleteSegments(c), segments'[d] # segments[d]
        PROVE  SegmentsReturn(d)'
    <3>1. d \in DocsOf(pending[c]) /\ pc[c] = "delete"
      BY <2>1, <2>4 DEF DeleteSegments
    <3>2. PICK item \in pending[c] : DocAt(item) = d
      BY <3>1 DEF DocsOf
    <3>3. item \in batch[c] /\ item \in Logged
      BY <3>1, <3>2 DEF WholeInv, BatchIsPending, Writing, OffsetsAreLogged
    <3>4. pc'[c] = "append" /\ UNCHANGED <<committed, batch, pending>>
      BY <2>4 DEF DeleteSegments, TypeOK
    <3>5. ToBeWritten(item)'
      BY <3>2, <3>3, <3>4 DEF ToBeWritten, WillWrite, WholeInv, BatchIsOwned
    <3> QED
      BY <1>1, <3>2, <3>3, <3>5, ReturnsBy
  <2>5. \/ segments' = segments
        \/ \E c \in Consumers : AppendSegments(c) \/ DeleteSegments(c)
    BY SegmentsRest
  <2> QED
    BY <2>2, <2>3, <2>4, <2>5
<1> QED
  BY <1>2, <1>3, <1>4, <1>5 DEF WholeInv, MissingSegmentsReturn, SegmentsReturn

(* Until a member misses the poll interval, a document announced as        *)
(* promoted is whole in both zones, is being rewritten, is to be delivered *)
(* again, or was given up: persist_many's two commits are never abandoned  *)
(* between them for good.                                                  *)
THEOREM CompletedStaysWhole == Spec => []CompletedIsWhole
<1>1. Init => IInv /\ (~evicted => WholeInv)
  BY InitIInv, InitWholeInv
<1>2. IInv /\ (~evicted => WholeInv) /\ [Next]_vars => (~evicted => WholeInv)'
  <2> SUFFICES ASSUME IInv, ~evicted => WholeInv, [Next]_vars, ~evicted' PROVE WholeInv'
    OBVIOUS
  <2>1. WholeInv
    BY NoEviction
  <2> QED
    BY <2>1, NextBatchIsOwned, NextBatchIsPending, NextCommitsTrail, NextMissingSegmentsReturn
       DEF WholeInv
<1>3. ASSUME IInv, ~evicted => WholeInv PROVE CompletedIsWhole
  <2> SUFFICES ASSUME WholeInv, NEW d \in completed PROVE IsWhole(d)
    BY <1>3 DEF CompletedIsWhole
  <2>1. d \in documents \cap claims \cap curated
    BY <1>3 DEF IInv, WrittenSoFar
  <2>2. SegmentsReturn(d)
    BY <1>3 DEF WholeInv, MissingSegmentsReturn, Appended
  <2>3. ASSUME NEW item \in Logged, DocAt(item) = d, ToBeWritten(item) PROVE Uncommitted(d)
    <3>1. item[1] \in Topics /\ item[2] \in 1 .. Len(log[item[1]])
      BY DEF Logged, Offset
    <3>2. log[item[1]] \in Seq(Message)
      BY <1>3, <3>1 DEF IInv, TypeOK
    <3>3. item[2] \in DOMAIN log[item[1]]
      BY <3>1, <3>2
    <3> QED
      BY <1>3, <2>3, <3>1, <3>3 DEF ToBeWritten, Uncommitted, DocAt, MessageAt, IInv, TypeOK
  <2> QED
    BY <2>1, <2>2, <2>3 DEF SegmentsReturn, IsWhole
<1> QED
  BY <1>1, <1>2, <1>3, PromotionInvariance, PTL DEF Spec
=============================================================================
