------------------------------ MODULE CurationRules ------------------------------
(***************************************************************************)
(* The rules that turn one document into mentions, entities and claims,    *)
(* decide what is promoted, and group what several documents say:          *)
(* extract, resolve, extract_claims, gate, canonicalize, contradiction and *)
(* dedup, as they run without a language model.                            *)
(*                                                                         *)
(* Words are numbers, ordered as they sort.  A document is the matches the *)
(* regular expressions and the gazetteer find in its text, its sentences   *)
(* with the predicate rules that match in each, and what dedup reads of    *)
(* it.  Hashed identifiers are the values they are the hash of.            *)
(***************************************************************************)
EXTENDS Naturals, Sequences, FiniteSets, Selections

LOCAL INSTANCE FiniteSetsExt
LOCAL INSTANCE Folds
LOCAL INSTANCE SequencesExt

CONSTANTS
    Docs,       \* doc_ids, hashes of the raw content: numbers
    Document,   \* what each of them says
    Near,       \* pairs of long documents that share a band and whose MinHash
                \* signatures agree on at least JACCARD_THRESHOLD
    None        \* no entity

(* A document is                                                           *)
(* [found |-> {[word, type, from, to, ids]}    matches in the clean text   *)
(*  segments |-> <<[words |-> {word},                                      *)
(*                  rules |-> <<[predicate, from, to, text]>>]>>           *)
(*  sentences |-> <<sentence>>, long |-> has it MIN_TEXT_CHARS?,           *)
(*  published |-> time or 0, trust |-> Nat]                                *)
ASSUME RulesAssumption ==
    /\ Docs \subseteq Nat
    /\ DOMAIN Document = Docs
    /\ Near \subseteq Docs \X Docs
    /\ \A pair \in Near :
        <<pair[2], pair[1]>> \in Near /\ Document[pair[1]].long
    /\ \A d, e \in Docs : Document[d].sentences = Document[e].sentences =>
        \A f \in Docs \ {e} : <<d, f>> \in Near => <<e, f>> \in Near
    /\ \A d \in Docs : \A m \in Document[d].found : m.from < m.to
    /\ \A d \in Docs : \A s \in DOMAIN Document[d].segments :
        LET rules == Document[d].segments[s].rules
        IN  \A i \in DOMAIN rules :
                /\ rules[i].predicate \in {"announces", "supplies", "partners_with"}
                /\ rules[i].from < rules[i].to

-------------------------------------------------------------------------------
(* extract: matches become mentions unless they overlap an earlier one.    *)

Overlap(a, b) == a.from < b.to /\ b.from < a.to

Precedes(a, b) == a.from < b.from \/ (a.from = b.from /\ a.to > b.to)

MentionsOf == [d \in Docs |->
    LET found == SetToSortSeq(Document[d].found, Precedes)
        Keep(kept, m) == IF \E k \in ToSet(kept) : Overlap(m, k)
                         THEN kept ELSE Append(kept, m)
    IN  FoldLeft(Keep, <<>>, found)]

-------------------------------------------------------------------------------
(* resolve: the mentions of one document that share their identifiers, or, *)
(* having none, their type and word, are one entity.                       *)

BlockingKey(m) == IF m.ids # {} THEN <<"id", m.ids>> ELSE <<"surface", m.type, m.word>>

Bucket(mentions, m) == {n \in mentions : BlockingKey(n) = BlockingKey(m)}

(* The most frequent word names the entity, the first of them on a tie.    *)
CanonicalName(bucket) ==
    LET words == {n.word : n \in bucket}
        count(w) == Cardinality({n \in bucket : n.word = w})
        best == Max({count(w) : w \in words})
    IN  Min({w \in words : count(w) = best})

MakeEntity(bucket) ==
    [type |-> (CHOOSE n \in bucket : \A o \in bucket : n.from <= o.from).type,
     name |-> CanonicalName(bucket),
     ids |-> UNION {n.ids : n \in bucket}]

EntityOf(d, m) == MakeEntity(Bucket(ToSet(MentionsOf[d]), m))

EntitiesOf == [d \in Docs |-> {EntityOf(d, m) : m \in ToSet(MentionsOf[d])}]

(* surface_forms.                                                          *)
FormsOf(d, entity) ==
    {m.word : m \in {m \in ToSet(MentionsOf[d]) : EntityOf(d, m) = entity}}

-------------------------------------------------------------------------------
(* extract_claims: one claim per predicate of a segment, about the first   *)
(* resolved mention whose word the segment contains.                       *)

FirstResolved(d, mentions) ==
    IF mentions = <<>> THEN None ELSE EntityOf(d, mentions[1])

SubjectOf(d, segment) ==
    FirstResolved(d, SelectSeq(MentionsOf[d], LAMBDA m : m.word \in segment.words))

(* The match ends at an offset in its segment, a mention starts at one in  *)
(* the whole text.                                                         *)
ObjectOf(d, subject, rule) ==
    FirstResolved(d, SelectSeq(MentionsOf[d],
        LAMBDA m : EntityOf(d, m) # subject /\ m.from >= rule.to))

Confidence == 80

SegmentClaims(d, s, rules, subject) ==
    {[doc |-> d, seg |-> s, from |-> rules[i].from, to |-> rules[i].to,
      predicate |-> rules[i].predicate, subject |-> subject,
      object |-> ObjectOf(d, subject, rules[i]),
      polarity |-> "positive", confidence |-> Confidence, text |-> rules[i].text] :
        i \in {i \in DOMAIN rules :
            /\ subject # None
            /\ \A j \in 1 .. i - 1 : rules[j].predicate # rules[i].predicate}}

ClaimsOf(d) ==
    UNION {SegmentClaims(d, s, Document[d].segments[s].rules,
                         SubjectOf(d, Document[d].segments[s])) :
            s \in DOMAIN Document[d].segments}

(* The order the identifiers sort in: a hash, so any order would do.       *)
ClaimPrecedes(a, b) ==
    \/ a.doc < b.doc
    \/ a.doc = b.doc /\ a.seg < b.seg
    \/ a.doc = b.doc /\ a.seg = b.seg /\ a.from < b.from
    \/ a.doc = b.doc /\ a.seg = b.seg /\ a.from = b.from /\ a.to < b.to

(* From here on a claim is its place in that order.                        *)
Claim == SetToSortSeq(UNION {ClaimsOf(d) : d \in Docs}, ClaimPrecedes)

DocClaims == [d \in Docs |-> {c \in DOMAIN Claim : Claim[c].doc = d}]

BlockOf(claim) == <<claim.subject, claim.predicate>>
Block(c) == BlockOf(Claim[c])

-------------------------------------------------------------------------------
(* gate.                                                                   *)

CONTROLLED_PREDICATES ==
    {"depends_on", "supplies", "invests_in", "acquires", "partners_with",
     "manufactures", "regulates", "announces", "located_in", "has_capacity",
     "has_market_share"}

PROMOTION_CONFIDENCE == 60

MentionTypes == {"Person", "Organization", "Location", "Product", "Technology",
                 "Event", "Source"}

GateClaim(claim, provenance) ==
    /\ claim.confidence \in PROMOTION_CONFIDENCE .. 100
    /\ claim.from < claim.to
    /\ provenance # {}
    /\ claim.predicate \in CONTROLLED_PREDICATES
    /\ claim.subject # None

GateMention(m, entity) ==
    /\ m.from < m.to
    /\ entity # None
    /\ m.type \in MentionTypes

-------------------------------------------------------------------------------
(* canonicalize: claims of one block with one text, or neighbours in one   *)
(* segment whose spans overlap, are one canonical claim; so is what a      *)
(* chain of such pairs connects.  A segment is its number in its document, *)
(* so claims of several documents may be neighbours.                       *)

SpanPrecedes(x, y) == x.from < y.from \/ (x.from = y.from /\ x.to < y.to)

Neighbours(block, x, y) ==
    /\ x.seg = y.seg
    /\ ~\E z \in block \ {x, y} :
        /\ z.seg = x.seg
        /\ \/ SpanPrecedes(x, z) /\ SpanPrecedes(z, y)
           \/ SpanPrecedes(y, z) /\ SpanPrecedes(z, x)

(* The rule itself looks at the two claims alone.                          *)
SameClaim(x, y) == x.text = y.text \/ (x.seg = y.seg /\ Overlap(x, y))

ClaimsEquivalent(block, x, y) ==
    x.text = y.text \/ (Neighbours(block, x, y) /\ Overlap(x, y))

(* The classes of the pairs that are the same: non-empty, closed, and with *)
(* no smaller closed part.                                                 *)
MinimalClosed(set, same) ==
    LET closed(S) == \A p \in same : p[1] \in S => p[2] \in S
        candidates == {S \in (SUBSET set) \ {{}} : closed(S)}
    IN  {S \in candidates : ~\E T \in candidates : T # S /\ T \subseteq S}

BlocksOf(claims) == {{c \in claims : Block(c) = b} : b \in {Block(c) : c \in claims}}

CanonicalizeClaims(claims) ==
    UNION {LET claim == [c \in block |-> Claim[c]]
               read == {claim[c] : c \in block}
           IN  MinimalClosed(block, {p \in block \X block :
                   ClaimsEquivalent(read, claim[p[1]], claim[p[2]])}) :
            block \in BlocksOf(claims)}

(* Claims that a chain of pairs among them that are the same connects.     *)
Connected(claims) ==
    MinimalClosed(claims, {p \in claims \X claims : SameClaim(Claim[p[1]], Claim[p[2]])}) = {claims}

-------------------------------------------------------------------------------
(* contradiction: candidate pairs, from the claims in the order read.      *)

FirstOf(claims, members) ==
    Min({i \in DOMAIN claims : claims[i] \in members})

(* The buckets of a block.  A pair is written in the order of its buckets, *)
(* and a bucket comes where its first claim does.                          *)
ConflictPairs(claims, block, bucket) ==
    LET first(c) == FirstOf(claims, {o \in ToSet(claims) :
                                        block[o] = block[c] /\ bucket[o] = bucket[c]})
    IN  {p \in ToSet(claims) \X ToSet(claims) :
            /\ block[p[1]] = block[p[2]]
            /\ bucket[p[1]] # bucket[p[2]]
            /\ first(p[1]) < first(p[2])}

(* Opposite polarities conflict, and so do two objects under one polarity. *)
ConflictCandidates(claim, claims) ==
    LET block == [c \in ToSet(claims) |-> BlockOf(claim[c])]
        polarity == [c \in ToSet(claims) |-> claim[c].polarity]
        value == [c \in ToSet(claims) |-> <<claim[c].polarity, claim[c].object>>]
        valued == Picked(claims, {c \in ToSet(claims) : claim[c].object # None})
    IN  {[a |-> p[1], b |-> p[2], type |-> "polarity"] :
            p \in ConflictPairs(claims, block, polarity)}
        \cup
        {[a |-> p[1], b |-> p[2], type |-> "value_conflict"] :
            p \in {p \in ConflictPairs(valued, block, value) :
                        polarity[p[1]] = polarity[p[2]]}}

-------------------------------------------------------------------------------
(* dedup.                                                                  *)

SameText(d, e) == Document[d].sentences = Document[e].sentences

Similar(d, e) == SameText(d, e) \/ <<d, e>> \in Near

(* Without a publication time a document sorts after all that have one.    *)
RootPrecedes(d, e) ==
    LET late(x) == IF Document[x].published = 0 THEN 1 ELSE 0
        key(x) == <<late(x), Document[x].published, 9 - Document[x].trust, x>>
        differ == {i \in 1 .. 4 : key(d)[i] # key(e)[i]}
    IN  d # e /\ key(d)[Min(differ)] < key(e)[Min(differ)]

Finalize(members) ==
    LET root == CHOOSE d \in members : \A e \in members \ {d} : RootPrecedes(d, e)
        sentences(d) == ToSet(Document[d].sentences)
    IN  [root |-> root,
         members |-> members \ {root},
         independent |-> {d \in members \ {root} :
                            ~(sentences(d) \subseteq sentences(root))}]

(* A whole corpus: a group for each text, with what is near its first      *)
(* document, and groups that meet are joined.                              *)
CascadeCluster(docs) ==
    LET texts == {{e \in docs : SameText(d, e)} : d \in docs}
        groups == {text \cup {e \in docs : <<Min(text), e>> \in Near} : text \in texts}
    IN  MinimalClosed(docs, UNION {g \X g : g \in groups})
===============================================================================
