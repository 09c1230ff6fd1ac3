------------------------------ MODULE CuratedCorpus ------------------------------
(***************************************************************************)
(* The curated zone as batches of documents are promoted into it, or as it *)
(* is rebuilt: what is buffered, which table is committed when, and what a *)
(* batch that breaks off leaves behind.                                    *)
(*                                                                         *)
(* One promoter works at a time (PromotionStream has the consumer group).  *)
(* A table is a function from the identifier of its rows to the rest.      *)
(***************************************************************************)
EXTENDS CurationRules, TLC

LOCAL INSTANCE SequencesExt

CONSTANTS
    BatchSize,      \* documents of one batch
    MaxDeliveries,  \* bound: batches in a behaviour
    MaxRebuilds,    \* bound: rebuilds
    MaxFaults       \* bound: batches or rebuilds that break off

VARIABLES
    normalized,     \* documents of the normalized zone
    curated,        \* the tables of the curated zone
    buffer,         \* _pending: rows of the batch not yet committed
    pc, batch,      \* the promoter and the documents it promotes
    stream,         \* documents a rebuild has run through, in order
    owed,           \* documents begun whose promotion has not been confirmed
    deliveries, rebuilds, faults

promoter == <<pc, batch, stream, owed, deliveries, rebuilds, faults>>
corpus == <<normalized, curated, buffer, promoter>>

ASSUME CorpusAssumption ==
    /\ IsFiniteSet(Docs)
    /\ BatchSize \in Nat \ {0}
    /\ {MaxDeliveries, MaxRebuilds, MaxFaults} \subseteq Nat

(* Variants named Mutant... are plausible slips in the code they stand     *)
(* next to; no specification uses them.                                    *)
MutantTableOrder ==
    <<"claim_candidates", "mentions", "entities", "assertions",
      "extraction_records", "dup_signatures", "dup_bands", "dup_clusters",
      "canonical_claims", "member_of", "conflict_candidates">>

(* The order a batch first touches the tables in, which is the order they  *)
(* are committed in.                                                       *)
TableOrder ==
    <<"claim_candidates", "mentions", "entities", "extraction_records",
      "assertions", "dup_signatures", "dup_bands", "dup_clusters",
      "canonical_claims", "member_of", "conflict_candidates">>

Tables == ToSet(TableOrder)

(* Rows a batch writes again once it has written them; of the others the   *)
(* first one stays.                                                        *)
Replaced == {"claim_candidates", "mentions", "conflict_candidates"}

NoRows == <<>>

CorpusTypeOK ==
    /\ normalized \subseteq Docs
    /\ DOMAIN curated = Tables
    /\ DOMAIN buffer = Tables
    /\ pc \in {"idle", "normalize", "chain", "reconcile", "commit",
               "reset", "rebuild"}
    /\ batch \subseteq Docs
    /\ stream \in Seq(Docs)
    /\ owed \subseteq Docs

CorpusInit ==
    /\ normalized = {}
    /\ curated = [t \in Tables |-> NoRows]
    /\ buffer = [t \in Tables |-> NoRows]
    /\ pc = "idle"
    /\ batch = {}
    /\ stream = <<>>
    /\ owed = {}
    /\ deliveries = 0
    /\ rebuilds = 0
    /\ faults = 0

-------------------------------------------------------------------------------
(* Rows.                                                                   *)

(* A whole table's rows in one commit.                                     *)
CommitRows(t, table, rows) ==
    [k \in DOMAIN table \cup DOMAIN rows |->
        IF k \in DOMAIN table /\ (k \in DOMAIN rows => t \notin Replaced)
        THEN table[k] ELSE rows[k]]

ResolvedTo(m) == EntityOf(m[1], MentionsOf[m[1]][m[2]])

MentionRows(docs) ==
    [m \in UNION {{d} \X DOMAIN MentionsOf[d] : d \in docs} |->
        [entity |-> ResolvedTo(m),
         authoritative |-> GateMention(MentionsOf[m[1]][m[2]], ResolvedTo(m))]]

(* An entity keeps the forms of the first document it was written for.     *)
EntityRows(order) ==
    LET first(e) == SelectSeq(order, LAMBDA d : e \in EntitiesOf[d])[1]
    IN  [e \in UNION {EntitiesOf[d] : d \in ToSet(order)} |-> FormsOf(first(e), e)]

(* A claim's extraction record: where it was read.                         *)
ProvenanceRows(claims) == [c \in claims |-> Claim[c].doc]

ClaimRows(claims, promoted) ==
    [c \in claims |-> [canonical |-> {}, status |->
        IF c \in promoted THEN "promoted" ELSE "quarantined"]]

(* An assertion is observed when its document was published.               *)
AssertionRows(promoted) == [c \in promoted |-> Document[Claim[c].doc].published]

(* What _run_chain writes for documents in an order, whatever the zone has.*)
ChainRows(order) ==
    LET docs == ToSet(order)
        claims == UNION {DocClaims[d] : d \in docs}
        provenance == ProvenanceRows(claims)
        promoted == {c \in claims : GateClaim(Claim[c], {provenance[c]})}
    IN  [t \in Tables |->
            CASE t = "mentions" -> MentionRows(docs)
              [] t = "entities" -> EntityRows(order)
              [] t = "extraction_records" -> provenance
              [] t = "claim_candidates" -> ClaimRows(claims, promoted)
              [] t = "assertions" -> AssertionRows(promoted)
              [] OTHER -> NoRows]

SignatureRows(docs) == [d \in docs |-> Document[d].sentences]

(* Short texts have no bands.                                              *)
BandRows(docs) == SignatureRows({d \in docs : Document[d].long})

ClusterRows(groups) == [members \in groups |-> Finalize(members)]

MutantEarlierCopies(d) == {e \in batch : e < d /\ Similar(d, e)}

WithTextHash(d) == {e \in DOMAIN curated["dup_signatures"] : SameText(d, e)}

(* Documents with a band of this one, compared by their signatures.        *)
WithBand(d) ==
    {e \in DOMAIN curated["dup_bands"] \cap DOMAIN curated["dup_signatures"] :
        <<d, e>> \in Near}

(* Documents already in the zone, or earlier in the batch, that this one   *)
(* repeats.                                                                *)
EarlierCopies(d) ==
    WithTextHash(d) \cup WithBand(d) \cup {e \in batch : e < d /\ Similar(d, e)}

CopyGroups == {group \in {{d} \cup EarlierCopies(d) : d \in batch} : Cardinality(group) > 1}

Promoted(table) == {c \in DOMAIN table : table[c].status = "promoted"}

(* Claims of the blocks the batch has claims in: the corpus they are       *)
(* judged with.                                                            *)
Touched(claims) ==
    {c \in DOMAIN claims : \E n \in DOMAIN claims :
        Claim[n].doc \in batch /\ Block(n) = Block(c)}

CanonicalRows(classes) == [class \in classes |-> Block(CHOOSE c \in class : TRUE)]

MemberRows(classes) ==
    [m \in UNION {{<<c, class>> : c \in class} : class \in classes} |-> TRUE]

(* The rows of the claims a grouping puts into a class.                    *)
Assigned(claims, classes) ==
    [c \in UNION classes |->
        [claims[c] EXCEPT !.canonical = CHOOSE class \in classes : c \in class]]

ByPair(found) ==
    [pair \in {<<k.a, k.b>> : k \in found} |->
        (CHOOSE k \in found : pair = <<k.a, k.b>>).type]

ConflictRows(claims) == ByPair(ConflictCandidates(Claim, claims))

-------------------------------------------------------------------------------
(* Promotion of a batch.                                                   *)

Begin(docs, step) ==
    /\ pc = "idle"
    /\ pc' = step
    /\ batch' = docs
    /\ owed' = owed \cup docs

Deliver(docs) ==
    /\ docs # {}
    /\ Cardinality(docs) <= BatchSize
    /\ deliveries < MaxDeliveries
    /\ deliveries' = deliveries + 1
    /\ Begin(docs, "normalize")
    /\ UNCHANGED <<normalized, curated, buffer, stream, rebuilds, faults>>

Normalize ==
    /\ pc = "normalize"
    /\ normalized' = normalized \cup batch
    /\ pc' = "chain"
    /\ UNCHANGED <<curated, buffer, batch, stream, owed, deliveries, rebuilds, faults>>

(* Everything the chain and dedup write is buffered; then the batch reads  *)
(* its claims back, which commits them.                                    *)
BufferChain(chain) ==
    /\ curated' = [curated EXCEPT !["claim_candidates"] =
                     CommitRows("claim_candidates", @, chain["claim_candidates"])]
    /\ buffer' = [chain EXCEPT !["claim_candidates"] = NoRows,
                               !["dup_signatures"] = SignatureRows(batch),
                               !["dup_bands"] = BandRows(batch),
                               !["dup_clusters"] = ClusterRows(CopyGroups)]

(* The batch is run in the order its references came in.                   *)
RunChain ==
    /\ pc = "chain"
    /\ \E order \in SetToSeqs(batch) : BufferChain(ChainRows(order))
    /\ pc' = "reconcile"
    /\ UNCHANGED <<normalized, batch, stream, owed, deliveries, rebuilds, faults>>

(* The claims of the blocks are read, grouped and assigned; reading them   *)
(* again for the conflicts commits the assignment.                         *)
Reconcile ==
    /\ pc = "reconcile"
    /\ LET claims == curated["claim_candidates"]
           classes == CanonicalizeClaims(Promoted(claims) \cap Touched(claims))
       IN  /\ curated' = [curated EXCEPT !["claim_candidates"] =
                            CommitRows("claim_candidates", @, Assigned(claims, classes))]
           /\ buffer' = [buffer EXCEPT
                !["canonical_claims"] = CanonicalRows(classes),
                !["member_of"] = MemberRows(classes),
                !["conflict_candidates"] =
                    ConflictRows(InOrder(Touched(claims)))]
    /\ pc' = "commit"
    /\ UNCHANGED <<normalized, batch, stream, owed, deliveries, rebuilds, faults>>

Unwritten == {i \in DOMAIN TableOrder : buffer[TableOrder[i]] # NoRows}

CommitTable ==
    /\ pc = "commit"
    /\ \E i \in Unwritten :
        LET t == TableOrder[i] IN
        /\ \A j \in Unwritten : i <= j
        /\ curated' = [curated EXCEPT ![t] = CommitRows(t, @, buffer[t])]
        /\ buffer' = [buffer EXCEPT ![t] = NoRows]
    /\ UNCHANGED <<normalized, promoter>>

Finished ==
    /\ pc' = "idle"
    /\ batch' = {}
    /\ stream' = <<>>

MutantConfirm ==
    /\ pc = "commit"
    /\ owed' = owed \ batch
    /\ Finished
    /\ UNCHANGED <<normalized, curated, buffer, deliveries, rebuilds, faults>>

(* promote_raw_refs returns, and the consumer commits its offsets.         *)
Confirm ==
    /\ pc = "commit"
    /\ Unwritten = {}
    /\ owed' = owed \ batch
    /\ Finished
    /\ UNCHANGED <<normalized, curated, buffer, deliveries, rebuilds, faults>>

(* An exception or the end of the process: the buffer is gone, the tables  *)
(* committed so far are not, and the batch is still to be redelivered.     *)
BreakOff ==
    /\ pc # "idle"
    /\ faults < MaxFaults
    /\ faults' = faults + 1
    /\ buffer' = [t \in Tables |-> NoRows]
    /\ Finished
    /\ UNCHANGED <<normalized, curated, owed, deliveries, rebuilds>>

-------------------------------------------------------------------------------
(* rebuild_zones: the whole raw zone again, rows committed one by one.     *)

RebuildNormalized ==
    /\ rebuilds < MaxRebuilds
    /\ rebuilds' = rebuilds + 1
    /\ Begin(Docs, "reset")
    /\ normalized' = Docs
    /\ UNCHANGED <<curated, buffer, stream, deliveries, faults>>

ResetCurated ==
    /\ pc = "reset"
    /\ curated' = [t \in Tables |-> NoRows]
    /\ pc' = "rebuild"
    /\ UNCHANGED <<normalized, buffer, batch, stream, owed, deliveries, rebuilds, faults>>

CommitAll(rows) == curated' = [t \in Tables |-> CommitRows(t, curated[t], rows[t])]

RebuildDocument(d) ==
    /\ pc = "rebuild"
    /\ d \notin ToSet(stream)
    /\ CommitAll(ChainRows(<<d>>))
    /\ stream' = Append(stream, d)
    /\ UNCHANGED <<normalized, buffer, pc, batch, owed, deliveries, rebuilds, faults>>

(* run_pipeline ends with dedup and reconciliation over all it ran through *)
(* and hands conflict detection the claims in that order.                  *)
ReconciledRows(claims, order) ==
    LET classes == CanonicalizeClaims(Promoted(claims))
    IN  [t \in Tables |->
            CASE t = "dup_signatures" -> SignatureRows(Docs)
              [] t = "dup_bands" -> BandRows(Docs)
              [] t = "dup_clusters" -> ClusterRows(CascadeCluster(Docs))
              [] t = "canonical_claims" -> CanonicalRows(classes)
              [] t = "member_of" -> MemberRows(classes)
              [] t = "conflict_candidates" -> ConflictRows(order)
              [] t = "claim_candidates" -> Assigned(claims, classes)
              [] OTHER -> NoRows]

(* Row by row, but nothing reads the zone before the last.                 *)
RebuildReconcile ==
    /\ pc = "rebuild"
    /\ ToSet(stream) = Docs
    /\ LET upTo[n \in 0 .. Len(stream)] ==
               IF n = 0 THEN <<>> ELSE upTo[n - 1] \o InOrder(DocClaims[stream[n]])
       IN  CommitAll(ReconciledRows(curated["claim_candidates"], upTo[Len(stream)]))
    /\ owed' = {}
    /\ Finished
    /\ UNCHANGED <<normalized, buffer, deliveries, rebuilds, faults>>

Promote ==
    \/ \E docs \in SUBSET Docs : Deliver(docs)
    \/ Normalize \/ RunChain \/ Reconcile \/ CommitTable \/ Confirm \/ BreakOff

Rebuild ==
    \/ RebuildNormalized \/ ResetCurated \/ RebuildReconcile
    \/ \E d \in Docs : RebuildDocument(d)

-------------------------------------------------------------------------------
(* Properties.                                                             *)

Confirmed == normalized \ owed

(* Types, and: a document whose promotion was confirmed is whole in every  *)
(* table, under whatever partition into batches, redelivery and batch      *)
(* broken off half written.                                                *)
ConfirmedIsWhole ==
    /\ CorpusTypeOK
    /\ \A d \in Confirmed :
        /\ d \in DOMAIN curated["dup_signatures"]
        /\ Document[d].long => d \in DOMAIN curated["dup_bands"]
        /\ EntitiesOf[d] \subseteq DOMAIN curated["entities"]
        /\ \A c \in DocClaims[d] :
            /\ c \in Promoted(curated["claim_candidates"])
            /\ c \in DOMAIN curated["extraction_records"] \cap DOMAIN curated["assertions"]

Unordered(pairs) == {{p[1], p[2]} : p \in pairs}

(* Two confirmed documents that repeat each other are in one cluster,      *)
(* whichever batch each came in.                                           *)
CopiesShareACluster ==
    \A d, e \in Confirmed : d # e /\ Similar(d, e) =>
        \E cluster \in DOMAIN curated["dup_clusters"] : {d, e} \subseteq cluster

(* A block none of whose documents is still owed is reconciled as if the   *)
(* corpus had been judged at once: batches neither split a canonical claim *)
(* nor miss a conflict, and copies share a cluster.  Rows of an earlier    *)
(* grouping stay: a later document may have come between two claims they   *)
(* join, but none joins claims that no chain among them connects.          *)
BatchesReconcileAsOne ==
    LET claims == curated["claim_candidates"]
        open == {Block(c) : c \in UNION {DocClaims[d] : d \in owed}}
        closed == {c \in DOMAIN claims : Block(c) \notin open}
        classes == CanonicalizeClaims(closed \cap Promoted(claims))
    IN  /\ CopiesShareACluster
        /\ \A c \in closed \cap Promoted(claims) :
            /\ c \in claims[c].canonical /\ claims[c].canonical \in classes
            /\ <<c, claims[c].canonical>> \in DOMAIN curated["member_of"]
            /\ claims[c].canonical \in DOMAIN curated["canonical_claims"]
        /\ \A row \in DOMAIN curated["member_of"] : row[1] \in row[2] /\ Connected(row[2])
        /\ Unordered({p \in DOMAIN curated["conflict_candidates"] : {p[1], p[2]} \subseteq closed})
             = Unordered(DOMAIN ConflictRows(InOrder(closed)))
===============================================================================
