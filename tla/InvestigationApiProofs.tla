------------------------ MODULE InvestigationApiProofs ------------------------
(***************************************************************************)
(* Proofs about InvestigationApi, for any finite set of investigations,    *)
(* any clients, results, page size and bounds.  The inductive invariant    *)
(* IInv says that what a client was told is still true, that what a        *)
(* request under way has read does not contradict it, and where a listing  *)
(* under way stands in the order of its rows.                              *)
(***************************************************************************)
EXTENDS InvestigationApi, FiniteSetTheorems, WellFoundedInduction, TLAPS

AllStatus == {"absent"} \cup Active \cup Ended

(* The rows of the store, as far as the handlers depend on them: only a    *)
(* completed row has an artifact, and a pinned one has it from the start.  *)
RowsAreWhole ==
    /\ status \in [Keys -> AllStatus]
    /\ cancel \in [Keys -> BOOLEAN]
    /\ report \in [Keys -> Results \cup {None}]
    /\ artifact \in [Keys -> Results \cup {None}]
    /\ created_at \in [Keys -> Nat]
    /\ \A k \in Keys : artifact[k] # None => status[k] = "succeeded"

PinnedIsWhole ==
    \A k \in pinned : status[k] = "succeeded" => artifact[k] # None

(* What is true of a row with this status, report and artifact.            *)
FactsOf(s, r, a) ==
    StatusFacts(s)
        \cup {[report |-> e] : e \in IF s = "succeeded" THEN {r} \ {None} ELSE {}}
        \cup {[etag |-> e] : e \in {a} \ {None}}

TrueFacts(k) == FactsOf(status[k], report[k], artifact[k])

ToldIsTrue == \A c \in Clients, k \in Keys : told[c][k] \subseteq TrueFacts(k)

(* A request under way: it has an answer to come, and what it has read     *)
(* contradicts nothing the client was told.                                *)
Kinds == SubResources \cup {"regenerate", "attached"}

ReadIsCurrent(c, q) ==
    /\ q.kind \in SubResources =>
         /\ StatusFacts(q.status) \subseteq TrueFacts(q.key)
         /\ StatusDenies(q.status) \cap told[c][q.key] = {}
         /\ q.status = "succeeded" /\ q.pinned => artifact[q.key] # None
    /\ q.kind = "attached" => artifact[q.key] # None

CurrentRequest(c) ==
    request[c] # None =>
        /\ answers[c] < MaxAnswers
        /\ request[c].key \in Keys
        /\ request[c].kind \in Kinds
        /\ ReadIsCurrent(c, request[c])

RequestIsCurrent == \A c \in Clients : CurrentRequest(c)

(* A listing under way: what was shown is not beyond the cursor, and what  *)
(* was there and was not shown is.                                         *)
ListedInOrder(l) ==
    /\ l.filter \in Filters
    /\ l.shown \subseteq Keys
    /\ l.before \subseteq Keys
    /\ ~l.twice
    /\ l.cursor # None =>
         /\ \E o \in Keys : l.cursor = Position(o)
         /\ \A k \in l.shown : ~Older(k, l.cursor)
    /\ l.filter # Active =>
         \A k \in l.before :
            /\ status[k] # "absent"
            /\ k \in l.shown \/ (l.cursor # None /\ Older(k, l.cursor))

ListingsInOrder == \A c \in Clients : listing[c] # None => ListedInOrder(listing[c])

IInv ==
    /\ TypeOK
    /\ RowsAreWhole
    /\ PinnedIsWhole
    /\ ToldIsTrue
    /\ RequestIsCurrent
    /\ ListingsInOrder
-------------------------------------------------------------------------------
(* The order of a listing.                                                 *)

Behind(k, o) == Older(k, Position(o))

(* The order of a listing, by creation time and then by id, is total.      *)
LEMMA OrderIsTotal ==
    ASSUME created_at \in [Keys -> Nat],
           NEW i \in Keys, NEW j \in Keys, NEW k \in Keys
    PROVE  /\ ~Behind(i, i)
           /\ i # j => Behind(i, j) \/ Behind(j, i)
           /\ Behind(i, j) => ~Behind(j, i)
           /\ Behind(i, j) /\ Behind(j, k) => Behind(i, k)
  BY ApiAssumption DEF Behind, Older, Position

(* A set of naturals that is not empty has a least element.                *)
LEMMA LeastNatural ==
    ASSUME NEW S, S \subseteq Nat, S # {}
    PROVE  \E m \in S : \A n \in S : m <= n
<1>1. PICK m \in S : \A n \in S : <<n, m>> \notin OpToRel(<, Nat)
  BY NatLessThanWellFounded, WFMin
<1>2. \A n \in S : ~(n < m)
  BY <1>1 DEF OpToRel
<1> QED
  BY <1>2

(* Some rows have an oldest, which is the last of their page.              *)
LEMMA OldestIsLast ==
    ASSUME created_at \in [Keys -> Nat], NEW page, page \subseteq Keys, page # {}
    PROVE  /\ Oldest(page) \in page
           /\ \A o \in page : o = Oldest(page) \/ Behind(Oldest(page), o)
<1> DEFINE times == {created_at[k] : k \in page}
<1>1. times \subseteq Nat /\ times # {}
  OBVIOUS
<1>2. PICK t \in times : \A u \in times : t <= u
  BY <1>1, LeastNatural
<1> DEFINE ids == {k \in page : created_at[k] = t}
<1>3. ids \subseteq Nat /\ ids # {}
  BY <1>2, ApiAssumption
<1>4. PICK k \in ids : \A o \in ids : k <= o
  BY <1>3, LeastNatural
<1>5. ASSUME NEW o \in page PROVE o = k \/ Older(k, Position(o))
  <2>1. created_at[o] \in times /\ t <= created_at[o] /\ created_at[k] = t
    BY <1>2, <1>4
  <2>2. created_at[o] = t => k <= o
    BY <1>4
  <2>3. k \in Nat /\ o \in Nat /\ t \in Nat /\ created_at[o] \in Nat
    BY <1>1, ApiAssumption
  <2> QED
    BY <2>1, <2>2, <2>3 DEF Older, Position
<1>6. \E l \in page : \A o \in page : o = l \/ Older(l, Position(o))
  BY <1>4, <1>5
<1> QED
  BY <1>6 DEF Oldest, Behind

(* The rows before one in a listing.                                       *)
Ahead(rows_, k) == {o \in rows_ : Behind(k, o)}

(* A row further down has more rows ahead of it.                           *)
LEMMA AheadGrows ==
    ASSUME created_at \in [Keys -> Nat], NEW S, S \subseteq Keys,
           NEW i \in S, NEW k \in S, Behind(k, i)
    PROVE  /\ Cardinality(Ahead(S, i)) \in Nat /\ Cardinality(Ahead(S, k)) \in Nat
           /\ Cardinality(Ahead(S, i)) < Cardinality(Ahead(S, k))
<1>1. IsFiniteSet(S)
  BY ApiAssumption, FS_Subset
<1>2. IsFiniteSet(Ahead(S, i)) /\ IsFiniteSet(Ahead(S, k))
  BY <1>1, FS_Subset DEF Ahead
<1>3. Ahead(S, i) \subseteq Ahead(S, k)
  BY OrderIsTotal DEF Ahead
<1>4. i \in Ahead(S, k) /\ i \notin Ahead(S, i)
  BY OrderIsTotal DEF Ahead
<1>5. Ahead(S, i) # Ahead(S, k)
  BY <1>4
<1> QED
  BY <1>2, <1>3, <1>5, FS_Subset, FS_CardinalityType

(* A page is the first rows of what is left, and takes some when some are  *)
(* left.                                                                   *)
LEMMA PageIsNewest ==
    ASSUME created_at \in [Keys -> Nat], NEW S, S \subseteq Keys
    PROVE  /\ Page(S) \subseteq S
           /\ S # {} => Page(S) # {}
           /\ \A k \in S \ Page(S), p \in Page(S) : Behind(k, p)
<1>1. Page(S) = {k \in S : Cardinality(Ahead(S, k)) < Limit}
  BY DEF Page, Ahead, Behind
<1>2. ASSUME NEW k \in S PROVE Cardinality(Ahead(S, k)) \in Nat
  <2>1. IsFiniteSet(S)
    BY ApiAssumption, FS_Subset
  <2>2. IsFiniteSet(Ahead(S, k))
    BY <2>1, FS_Subset DEF Ahead
  <2> QED
    BY <2>2, FS_CardinalityType
<1>3. ASSUME S # {} PROVE Page(S) # {}
  <2> DEFINE sizes == {Cardinality(Ahead(S, k)) : k \in S}
  <2>1. sizes \subseteq Nat /\ sizes # {}
    BY <1>2, <1>3
  <2>2. PICK n \in sizes : \A m \in sizes : n <= m
    BY <2>1, LeastNatural
  <2>3. PICK k \in S : n = Cardinality(Ahead(S, k))
    BY <2>2
  <2>4. ASSUME NEW o \in Ahead(S, k) PROVE FALSE
    <3>1. o \in S /\ Behind(k, o)
      BY DEF Ahead
    <3>2. Cardinality(Ahead(S, o)) \in Nat /\ Cardinality(Ahead(S, o)) < n
      BY <2>3, <3>1, AheadGrows
    <3>3. n <= Cardinality(Ahead(S, o)) /\ n \in Nat
      BY <2>1, <2>2, <3>1
    <3> QED
      BY <3>2, <3>3
  <2>5. Cardinality(Ahead(S, k)) = 0
    <3>1. Ahead(S, k) = {}
      BY <2>4
    <3> QED
      BY <3>1, FS_EmptySet
  <2> QED
    BY <1>1, <2>3, <2>5, ApiAssumption
<1>4. ASSUME NEW k \in S \ Page(S), NEW p \in Page(S) PROVE Behind(k, p)
  <2>1. k # p /\ p \in S /\ Cardinality(Ahead(S, p)) < Limit
        /\ ~(Cardinality(Ahead(S, k)) < Limit)
    BY <1>1
  <2>2. CASE Behind(p, k)
    <3>1. Cardinality(Ahead(S, k)) < Cardinality(Ahead(S, p))
      BY <2>1, <2>2, AheadGrows
    <3>2. Cardinality(Ahead(S, k)) \in Nat /\ Cardinality(Ahead(S, p)) \in Nat /\ Limit \in Nat
      BY <1>2, <2>1, ApiAssumption
    <3> QED
      BY <2>1, <3>1, <3>2
  <2> QED
    BY <2>1, <2>2, OrderIsTotal
<1> QED
  BY <1>1, <1>3, <1>4
-------------------------------------------------------------------------------
(* What rows, answers and requests do to what a client was told.           *)

(* An artifact is not another fact.                                        *)
LEMMA FactsDiffer ==
    ASSUME NEW s, NEW r, NEW e, NEW d
    PROVE  /\ [ended |-> s] # [report |-> r]
           /\ [ended |-> s] # [etag |-> e]
           /\ [report |-> r] # [etag |-> e]
           /\ [damaged |-> d] # [ended |-> s]
           /\ [damaged |-> d] # [report |-> r]
           /\ [damaged |-> d] # [etag |-> e]
<1>1. /\ DOMAIN [ended |-> s] = {"ended"} /\ DOMAIN [report |-> r] = {"report"}
      /\ DOMAIN [etag |-> e] = {"etag"} /\ DOMAIN [damaged |-> d] = {"damaged"}
  OBVIOUS
<1>2. "ended" # "report" /\ "ended" # "etag" /\ "report" # "etag"
      /\ "damaged" # "ended" /\ "damaged" # "report" /\ "damaged" # "etag"
  OBVIOUS
<1> QED
  BY <1>1, <1>2

(* A fact that is true of a row is of one of three kinds.                  *)
LEMMA KindsOfFact ==
    ASSUME NEW s, NEW r \in Results \cup {None}, NEW a \in Results \cup {None},
           a # None => s = "succeeded", NEW f \in FactsOf(s, r, a)
    PROVE  /\ f \in Fact
           /\ \/ f = [ended |-> s] /\ s \in Ended
              \/ f = [report |-> r] /\ s = "succeeded" /\ r \in Results
              \/ f = [etag |-> a] /\ s = "succeeded" /\ a \in Results
<1>1. \/ f = [ended |-> s] /\ s \in Ended
      \/ f = [report |-> r] /\ s = "succeeded" /\ r # None
      \/ f = [etag |-> a] /\ a # None
  BY DEF FactsOf, StatusFacts
<1> QED
  BY <1>1 DEF Fact, Stored

(* What the answers deny is not true of the row they describe.             *)
LEMMA DenialsAreTrue ==
    ASSUME NEW s, NEW r \in Results \cup {None}, NEW a \in Results \cup {None},
           a # None => s = "succeeded"
    PROVE  /\ StatusDenies(s) \cap FactsOf(s, r, a) = {}
           /\ s # "succeeded" => Completion \cap FactsOf(s, r, a) = {}
           /\ [etag : Results \ {a}] \cap FactsOf(s, r, a) = {}
           /\ Damaged \cap FactsOf(s, r, a) = {}
<1> SUFFICES ASSUME NEW f \in FactsOf(s, r, a)
             PROVE  /\ f \notin StatusDenies(s)
                    /\ s # "succeeded" => f \notin Completion
                    /\ f \notin [etag : Results \ {a}]
                    /\ f \notin Damaged
  OBVIOUS
<1>1. \A S :
         /\ \A g \in [ended : S] : \E e \in S : g = [ended |-> e]
         /\ \A g \in [report : S] : \E e \in S : g = [report |-> e]
         /\ \A g \in [etag : S] : \E e \in S : g = [etag |-> e]
         /\ \A g \in [damaged : S] : \E e \in S : g = [damaged |-> e]
  <2> TAKE S
  <2>1. \A g \in [ended : S] : g.ended \in S /\ g = [ended |-> g.ended]
    OBVIOUS
  <2>2. \A g \in [report : S] : g.report \in S /\ g = [report |-> g.report]
    OBVIOUS
  <2>3. \A g \in [etag : S] : g.etag \in S /\ g = [etag |-> g.etag]
    OBVIOUS
  <2>4. \A g \in [damaged : S] : g.damaged \in S /\ g = [damaged |-> g.damaged]
    OBVIOUS
  <2> QED
    BY <2>1, <2>2, <2>3, <2>4
<1>2. CASE f = [ended |-> s] /\ s \in Ended
  <2>1. f \notin Stored /\ f \notin Damaged /\ f \notin [etag : Results \ {a}]
    BY <1>1, <1>2, FactsDiffer DEF Stored, Damaged
  <2>2. f \notin [ended : Ended \ {s}]
    BY <1>1, <1>2
  <2>3. s # "succeeded" => f # [ended |-> "succeeded"]
    BY <1>2
  <2> QED
    BY <1>2, <2>1, <2>2, <2>3 DEF StatusDenies, Completion
<1>3. CASE /\ s = "succeeded"
           /\ \/ f = [report |-> r]
              \/ f = [etag |-> a]
  <2>1. f \notin [ended : Ended \ {s}] /\ f \notin Damaged
    BY <1>1, <1>3, FactsDiffer DEF Damaged
  <2>2. f \notin [etag : Results \ {a}]
    BY <1>1, <1>3, FactsDiffer
  <2> QED
    BY <1>3, <2>1, <2>2 DEF StatusDenies, Ended
<1> QED
  BY <1>2, <1>3, KindsOfFact

(* The values of a row these lemmas are about.                             *)
LEMMA RowValues ==
    ASSUME RowsAreWhole, NEW k \in Keys
    PROVE  /\ status[k] \in AllStatus
           /\ report[k] \in Results \cup {None}
           /\ artifact[k] \in Results \cup {None}
           /\ artifact[k] # None => status[k] = "succeeded"
  BY DEF RowsAreWhole
-------------------------------------------------------------------------------
(* What a step may do to the rows: what was true of them stays so, and a   *)
(* row completes only with an artifact.                                    *)

RowsOnlyGrow ==
    /\ RowsAreWhole'
    /\ created_at' = created_at
    /\ \A k \in Keys :
         /\ TrueFacts(k) \subseteq (TrueFacts(k))'
         /\ artifact[k] # None => artifact'[k] # None
         /\ status[k] # "absent" => status'[k] # "absent"
         /\ status[k] # "succeeded" /\ status'[k] = "succeeded" => artifact'[k] # None

(* One row moves, to this status, report and artifact.                     *)
MovesTo(k, s, b, r, a) ==
    /\ s \in AllStatus /\ b \in BOOLEAN /\ {r, a} \subseteq Results \cup {None}
    /\ status' = [status EXCEPT ![k] = s]
    /\ cancel' = [cancel EXCEPT ![k] = b]
    /\ report' = [report EXCEPT ![k] = r]
    /\ artifact' = [artifact EXCEPT ![k] = a]
    /\ status[k] \in Ended => s = status[k]
    /\ status[k] # "absent" => s # "absent"
    /\ status[k] = "succeeded" => r = report[k]
    /\ artifact[k] # None => a = artifact[k]
    /\ a # None => s = "succeeded"
    /\ s = "succeeded" => status[k] = "succeeded" \/ a # None

(* What was true of a row stays true in a move.                            *)
LEMMA MovesKeepFacts ==
    ASSUME RowsAreWhole, created_at' = created_at, NEW k \in Keys,
           NEW s, NEW b, NEW r, NEW a, MovesTo(k, s, b, r, a)
    PROVE  RowsOnlyGrow
<1>1. /\ status'[k] = s /\ cancel'[k] = b /\ report'[k] = r /\ artifact'[k] = a
      /\ \A o \in Keys \ {k} : /\ status'[o] = status[o] /\ cancel'[o] = cancel[o]
                               /\ report'[o] = report[o] /\ artifact'[o] = artifact[o]
  BY DEF RowsAreWhole, MovesTo
<1>2. RowsAreWhole'
  BY DEF RowsAreWhole, MovesTo
<1>3. ASSUME NEW o \in Keys PROVE TrueFacts(o) \subseteq (TrueFacts(o))'
  <2>1. CASE o # k
    BY <1>1, <2>1 DEF TrueFacts, FactsOf
  <2>2. CASE o = k
    <3> SUFFICES ASSUME NEW f \in TrueFacts(k) PROVE f \in (TrueFacts(k))'
      BY <2>2
    <3>1. CASE f = [ended |-> status[k]] /\ status[k] \in Ended
      BY <1>1, <3>1 DEF MovesTo, TrueFacts, FactsOf, StatusFacts
    <3>2. CASE f = [report |-> report[k]] /\ status[k] = "succeeded" /\ report[k] \in Results
      BY <1>1, <3>2, ApiAssumption DEF MovesTo, TrueFacts, FactsOf, Ended
    <3>3. CASE f = [etag |-> artifact[k]] /\ status[k] = "succeeded" /\ artifact[k] \in Results
      BY <1>1, <3>3, ApiAssumption DEF MovesTo, TrueFacts, FactsOf
    <3> QED
      BY <3>1, <3>2, <3>3, KindsOfFact, RowValues DEF TrueFacts
  <2> QED
    BY <2>1, <2>2
<1> QED
  BY <1>1, <1>2, <1>3 DEF RowsOnlyGrow, MovesTo

(* Every step of the life cycle is such a move.                            *)
RowStep(k) ==
    \/ Store!Submit(k) \/ Store!Start(k) \/ \E r \in Results : Store!Succeed(k, r)
    \/ Store!Fail(k) \/ Store!RequestCancel(k) \/ Store!Cancel(k) \/ Store!Rewrite(k)

(* Each step of the life cycle is such a move.                             *)
LEMMA RowSteps ==
    ASSUME RowsAreWhole, created_at' = created_at, NEW k \in Keys, RowStep(k)
    PROVE  RowsOnlyGrow
<1> USE DEF AllStatus, Active, Ended
<1>1. /\ status \in [Keys -> AllStatus] /\ cancel \in [Keys -> BOOLEAN]
      /\ report \in [Keys -> Results \cup {None}] /\ artifact \in [Keys -> Results \cup {None}]
      /\ artifact[k] # None => status[k] = "succeeded"
  BY DEF RowsAreWhole
<1>2. None \notin Results
  BY ApiAssumption
<1>3. ASSUME Store!Submit(k) PROVE MovesTo(k, "queued", cancel[k], report[k], artifact[k])
  BY <1>1, <1>3 DEF Store!Submit, MovesTo
<1>4. ASSUME Store!Start(k) PROVE MovesTo(k, "running", cancel[k], report[k], artifact[k])
  BY <1>1, <1>4 DEF Store!Start, MovesTo
<1>5. ASSUME NEW r \in Results, Store!Succeed(k, r)
      PROVE  MovesTo(k, "succeeded", cancel[k], r, r)
  BY <1>1, <1>2, <1>5 DEF Store!Succeed, MovesTo
<1>6. ASSUME Store!Fail(k) PROVE MovesTo(k, "failed", cancel[k], report[k], artifact[k])
  BY <1>1, <1>6 DEF Store!Fail, MovesTo
<1>7. ASSUME Store!RequestCancel(k)
      PROVE  \E s : MovesTo(k, s, TRUE, report[k], artifact[k])
  <2>1. CASE status[k] = "queued"
    <3>1. MovesTo(k, "cancelled", TRUE, report[k], artifact[k])
      BY <1>1, <1>7, <2>1 DEF Store!RequestCancel, MovesTo
    <3> QED
      BY <3>1
  <2>2. CASE status[k] = "running"
    <3>1. MovesTo(k, "running", TRUE, report[k], artifact[k])
      BY <1>1, <1>7, <2>2 DEF Store!RequestCancel, MovesTo
    <3> QED
      BY <3>1
  <2> QED
    BY <1>7, <2>1, <2>2 DEF Store!RequestCancel
<1>8. ASSUME Store!Cancel(k) PROVE MovesTo(k, "cancelled", cancel[k], report[k], artifact[k])
  BY <1>1, <1>8 DEF Store!Cancel, MovesTo
<1>9. ASSUME Store!Rewrite(k) PROVE MovesTo(k, "succeeded", cancel[k], report[k], report[k])
  BY <1>1, <1>9 DEF Store!Rewrite, MovesTo
<1> QED
  BY <1>3, <1>4, <1>5, <1>6, <1>7, <1>8, <1>9, MovesKeepFacts DEF RowStep

(* Rows that do not change have lost nothing.                              *)
LEMMA RowsAtRest == RowsAreWhole /\ UNCHANGED <<rows, created_at>> => RowsOnlyGrow
  BY DEF rows, RowsAreWhole, RowsOnlyGrow, TrueFacts
-------------------------------------------------------------------------------
(* What a step may do to the clients.                                      *)

TellsTruth(c, k, a) ==
    /\ a.facts \subseteq (TrueFacts(k))'
    /\ a.denied \cap told[c][k] = {}

ClientsHearTruth ==
    /\ told' \in [Clients -> [Keys -> SUBSET Fact]]
    /\ ToldIsTrue'
    /\ \A c \in Clients, k \in Keys : told[c][k] \subseteq told'[c][k]
    /\ answers' \in [Clients -> 0 .. MaxAnswers]
    /\ RequestIsCurrent'

(* What is true is a fact, now and after a step.                           *)
LEMMA TrueFactsAreFacts ==
    ASSUME RowsOnlyGrow, NEW k \in Keys
    PROVE  (TrueFacts(k))' \subseteq Fact
<1>1. /\ status'[k] \in AllStatus /\ report'[k] \in Results \cup {None}
      /\ artifact'[k] \in Results \cup {None}
      /\ artifact'[k] # None => status'[k] = "succeeded"
  BY DEF RowsOnlyGrow, RowsAreWhole
<1> QED
  BY <1>1, KindsOfFact DEF TrueFacts

(* What a client was told of its request stays true.                       *)
LEMMA RequestStays ==
    ASSUME IInv, RowsOnlyGrow, NEW c \in Clients, request'[c] = request[c],
           told'[c] = told[c], answers'[c] = answers[c]
    PROVE  (CurrentRequest(c))'
<1>1. request[c] # None => /\ answers[c] < MaxAnswers /\ request[c].key \in Keys
                           /\ request[c].kind \in Kinds /\ ReadIsCurrent(c, request[c])
  BY DEF IInv, RequestIsCurrent, CurrentRequest
<1>2. \A k \in Keys : /\ TrueFacts(k) \subseteq (TrueFacts(k))'
                      /\ artifact[k] # None => artifact'[k] # None
  BY DEF RowsOnlyGrow
<1> QED
  BY <1>1, <1>2 DEF CurrentRequest, ReadIsCurrent

(* An answer ends the request, and adds to what is true.                   *)
LEMMA Replied ==
    ASSUME IInv, RowsOnlyGrow, NEW c \in Clients, NEW k \in Keys, NEW a,
           answers[c] < MaxAnswers, Reply(c, k, a), TellsTruth(c, k, a)
    PROVE  ClientsHearTruth
<1>1. /\ told \in [Clients -> [Keys -> SUBSET Fact]] /\ answers \in [Clients -> 0 .. MaxAnswers]
      /\ MaxAnswers \in Nat
  BY ApiAssumption DEF IInv, TypeOK
<1>2. /\ told' = [told EXCEPT ![c][k] = (@ \ a.denied) \cup a.facts]
      /\ answers' = [answers EXCEPT ![c] = @ + 1]
      /\ request' = [request EXCEPT ![c] = None]
  BY DEF Reply
<1>3. ASSUME NEW d \in Clients, NEW o \in Keys
      PROVE  told'[d][o] = IF d = c /\ o = k THEN told[c][k] \cup a.facts ELSE told[d][o]
  BY <1>1, <1>2 DEF TellsTruth
<1>4. ToldIsTrue'
  BY <1>3 DEF ToldIsTrue, TellsTruth, RowsOnlyGrow, IInv
<1>5. told' \in [Clients -> [Keys -> SUBSET Fact]]
  <2>1. a.facts \subseteq Fact
    BY TrueFactsAreFacts DEF TellsTruth
  <2> QED
    BY <1>1, <1>2, <2>1
<1>6. answers' \in [Clients -> 0 .. MaxAnswers]
  BY <1>1, <1>2
<1>7. ASSUME NEW d \in Clients PROVE (CurrentRequest(d))'
  <2>1. CASE d # c
    <3>1. told'[d] = told[d] /\ answers'[d] = answers[d]
      BY <1>1, <1>2, <2>1
    <3>2. request'[d] = request[d]
      BY <1>2, <2>1 DEF IInv, TypeOK
    <3> QED
      BY <3>1, <3>2, RequestStays
  <2>2. CASE d = c
    <3>1. request'[c] = None
      BY <1>2 DEF IInv, TypeOK
    <3> QED
      BY <2>2, <3>1 DEF CurrentRequest
  <2> QED
    BY <2>1, <2>2
<1> QED
  BY <1>3, <1>4, <1>5, <1>6, <1>7 DEF ClientsHearTruth, RequestIsCurrent

(* A reply that is true, or an error, leaves clients with the truth.       *)
LEMMA RepliedOrFailed ==
    ASSUME IInv, RowsOnlyGrow, NEW c \in Clients, NEW k \in Keys, NEW a,
           answers[c] < MaxAnswers, ReplyOrFail(c, k, a), TellsTruth(c, k, a)
    PROVE  ClientsHearTruth
<1>1. TellsTruth(c, k, Unavailable)
  BY DEF TellsTruth, Unavailable, Answer
<1> QED
  BY <1>1, Replied DEF ReplyOrFail

(* A request that is held until its next statement.                        *)
LEMMA Held ==
    ASSUME IInv, RowsOnlyGrow, NEW c \in Clients, NEW q,
           answers[c] < MaxAnswers, Hold(c, q),
           q.key \in Keys, q.kind \in Kinds, (ReadIsCurrent(c, q))'
    PROVE  ClientsHearTruth
<1>1. /\ request' = [request EXCEPT ![c] = q] /\ told' = told /\ answers' = answers
  BY DEF Hold
<1>2. ToldIsTrue'
  BY <1>1 DEF ToldIsTrue, RowsOnlyGrow, IInv
<1>3. ASSUME NEW d \in Clients PROVE (CurrentRequest(d))'
  <2>1. CASE d # c
    BY <1>1, <2>1, RequestStays DEF IInv, TypeOK
  <2>2. CASE d = c
    <3>1. request'[c] = q /\ answers'[c] < MaxAnswers
      BY <1>1 DEF IInv, TypeOK
    <3> QED
      BY <2>2, <3>1 DEF CurrentRequest
  <2> QED
    BY <2>1, <2>2
<1> QED
  BY <1>1, <1>2, <1>3 DEF ClientsHearTruth, RequestIsCurrent, IInv, TypeOK

(* Nobody is answered.                                                     *)
LEMMA NobodyAnswered ==
    ASSUME IInv, RowsOnlyGrow, UNCHANGED <<request, told, answers>>
    PROVE  ClientsHearTruth
<1>1. ToldIsTrue'
  BY DEF ToldIsTrue, RowsOnlyGrow, IInv
<1>2. RequestIsCurrent'
  BY RequestStays DEF RequestIsCurrent
<1> QED
  BY <1>1, <1>2 DEF ClientsHearTruth, IInv, TypeOK
-------------------------------------------------------------------------------
(* What a step may do to the listings.                                     *)

(* Rows do not leave their place.                                          *)
LEMMA ListingStays ==
    ASSUME RowsOnlyGrow, NEW l, ListedInOrder(l)
    PROVE  (ListedInOrder(l))'
<1>1. created_at' = created_at /\ \A k \in Keys : status[k] # "absent" => status'[k] # "absent"
  BY DEF RowsOnlyGrow
<1>2. \A k : (Position(k))' = Position(k)
  BY <1>1 DEF Position
<1>3. \A k, p : (Older(k, p))' = Older(k, p)
  BY <1>2 DEF Older
<1> QED
  BY <1>1, <1>2, <1>3 DEF ListedInOrder

(* Listings stay in order while rows only grow.                            *)
LEMMA ListingsStay ==
    ASSUME IInv, RowsOnlyGrow, UNCHANGED listing
    PROVE  ListingsInOrder'
<1>1. ASSUME NEW c \in Clients, listing[c] # None PROVE (ListedInOrder(listing[c]))'
  <2>1. PICK l : l = listing[c]
    OBVIOUS
  <2>2. ListedInOrder(l)
    BY <1>1, <2>1 DEF IInv, ListingsInOrder
  <2>3. (ListedInOrder(l))'
    BY <2>2, ListingStays
  <2>4. listing'[c] = l
    BY <2>1
  <2> QED
    BY <2>3, <2>4 DEF ListedInOrder
<1> QED
  BY <1>1 DEF ListingsInOrder

(* The page behind a cursor leaves a listing in order: it repeats nothing, *)
(* and what it leaves out is behind its last row.                          *)
LEMMA PageInOrder ==
    ASSUME RowsAreWhole, NEW filter \in Filters, NEW cursor,
           NEW shown \in SUBSET Keys, NEW before \in SUBSET Keys,
           cursor = None => shown = {},
           cursor # None => /\ \E o \in Keys : cursor = Position(o)
                            /\ \A k \in shown : ~Older(k, cursor),
           filter # Active => \A k \in before :
                                 /\ status[k] # "absent"
                                 /\ k \in shown \/ cursor = None \/ Older(k, cursor)
    PROVE  ListedInOrder(PageOf(filter, cursor, shown, before, FALSE))
<1> DEFINE matching == Matching(filter, cursor)
           page == Page(matching)
           next == IF page # matching THEN Position(Oldest(page)) ELSE None
<1>1. created_at \in [Keys -> Nat] /\ matching \subseteq Keys
  BY DEF RowsAreWhole, Matching
<1>2. /\ page \subseteq matching /\ (matching # {} => page # {})
      /\ \A k \in matching \ page, p \in page : Behind(k, p)
  BY <1>1, PageIsNewest
<1>3. page # {} => /\ Oldest(page) \in page
                   /\ \A o \in page : o = Oldest(page) \/ Behind(Oldest(page), o)
  <2>1. page \subseteq Keys
    BY <1>1, <1>2
  <2> HIDE DEF page
  <2> QED
    BY <1>1, <2>1, OldestIsLast
<1>4. \A k \in matching : cursor = None \/ Older(k, cursor)
  BY DEF Matching, Beyond
<1>5. page \cap shown = {}
  <2> HIDE DEF matching, page
  <2> QED
    BY <1>2, <1>4
<1>6. PageOf(filter, cursor, shown, before, FALSE) =
        [filter |-> filter, cursor |-> next, shown |-> shown \cup page,
         before |-> before, twice |-> FALSE]
  <2>1. (FALSE \/ page \cap shown # {}) = FALSE
    BY <1>5
  <2> QED
    BY <2>1 DEF PageOf
<1>7. ASSUME next # None
      PROVE  /\ Oldest(page) \in page /\ page \subseteq Keys /\ page # matching
             /\ next = Position(Oldest(page))
             /\ \A k \in shown \cup page : ~Behind(k, Oldest(page))
  <2>1. page # matching /\ next = Position(Oldest(page))
    BY <1>7
  <2> HIDE DEF page, matching, next
  <2>2. Oldest(page) \in page /\ page \subseteq Keys
    BY <1>1, <1>2, <1>3, <2>1
  <2>3. PICK last \in Keys : last = Oldest(page)
    BY <2>2
  <2>4. ASSUME NEW k \in page PROVE ~Behind(k, last)
    BY <1>1, <1>3, <2>2, <2>3, OrderIsTotal
  <2>5. ASSUME NEW k \in shown PROVE ~Behind(k, last)
    <3>1. cursor # None
      BY <2>5
    <3>2. PICK o \in Keys : cursor = Position(o)
      BY <3>1
    <3>3. ~Behind(k, o) /\ Behind(last, o)
      BY <1>2, <1>4, <2>2, <2>3, <3>1, <3>2 DEF Behind
    <3> QED
      BY <1>1, <3>3, OrderIsTotal
  <2> QED
    BY <2>1, <2>2, <2>3, <2>4, <2>5
<1>8. ASSUME filter # Active, NEW k \in before
      PROVE  /\ status[k] # "absent"
             /\ k \in shown \cup page \/ (next # None /\ Behind(k, Oldest(page)))
  <2>1. status[k] \in AllStatus /\ status[k] # "absent"
    BY <1>8 DEF RowsAreWhole
  <2>2. status[k] \in filter
    BY <1>8, <2>1 DEF Filters, AllStatus, Active, Ended
  <2>3. k \in shown \/ k \in matching
    BY <1>8, <2>2 DEF Matching, Beyond
  <2>4. CASE k \in matching /\ k \notin page
    <3>1. page # matching
      BY <2>4
    <3>2. Oldest(page) \in page /\ Behind(k, Oldest(page))
      BY <1>2, <1>3, <2>4
    <3>3. next = Position(Oldest(page)) /\ Oldest(page) \in Keys
      BY <1>1, <1>2, <3>1, <3>2
    <3>4. next # None
      <4>1. PICK o \in Keys : o = Oldest(page)
        BY <3>3
      <4>2. Position(o) \in Nat \X Nat
        BY <1>1, ApiAssumption DEF Position
      <4> HIDE DEF next, page
      <4> QED
        BY <3>3, <4>1, <4>2, ApiAssumption
    <3> QED
      BY <2>1, <3>2, <3>4
  <2> QED
    BY <2>1, <2>3, <2>4
<1>9. page \subseteq Keys
  BY <1>1, <1>2
<1> HIDE DEF page, next
<1>10. ASSUME next # None PROVE \A k : Older(k, next) = Behind(k, Oldest(page))
  BY <1>7, <1>10 DEF Behind
<1> HIDE DEF matching
<1>11. PICK l : l = PageOf(filter, cursor, shown, before, FALSE)
  OBVIOUS
<1>12. /\ l.filter = filter /\ l.cursor = next /\ l.shown = shown \cup page
       /\ l.before = before /\ ~l.twice
  <2>1. l = [filter |-> filter, cursor |-> next, shown |-> shown \cup page,
             before |-> before, twice |-> FALSE]
    BY <1>6, <1>11
  <2>2. /\ l.filter = filter /\ l.cursor = next /\ l.shown = shown \cup page
        /\ l.before = before
    BY <2>1
  <2>3. l.twice = FALSE
    BY <2>1
  <2> QED
    BY <2>2, <2>3
<1>13. ASSUME next # None
       PROVE  /\ \E o \in Keys : next = Position(o)
              /\ \A k \in shown \cup page : ~Older(k, next)
  BY <1>7, <1>9, <1>10, <1>13
<1>14. ASSUME filter # Active, NEW k \in before
       PROVE  /\ status[k] # "absent"
              /\ k \in shown \cup page \/ (next # None /\ Older(k, next))
  BY <1>8, <1>10, <1>14
<1>15. ListedInOrder(l)
  BY <1>9, <1>12, <1>13, <1>14 DEF ListedInOrder
<1> QED
  BY <1>11, <1>15

(* The rows of a page are shown as they are.                               *)
LEMMA PageTellsTruth ==
    ASSUME IInv, UNCHANGED <<rows, created_at>>, NEW c \in Clients, NEW page,
           answers[c] < MaxAnswers, request[c] = None, ListReply(c, page)
    PROVE  ClientsHearTruth
<1>1. RowsOnlyGrow
  BY RowsAtRest DEF IInv
<1>2. /\ told \in [Clients -> [Keys -> SUBSET Fact]] /\ answers \in [Clients -> 0 .. MaxAnswers]
      /\ MaxAnswers \in Nat
  BY ApiAssumption DEF IInv, TypeOK
<1>3. ASSUME NEW k \in Keys
      PROVE  /\ told[c][k] \cap StatusDenies(status[k]) = {}
             /\ ItemFacts(k) \subseteq TrueFacts(k) /\ TrueFacts(k) \subseteq Fact
  <2>1. told[c][k] \subseteq TrueFacts(k)
    BY DEF IInv, ToldIsTrue
  <2>2. StatusDenies(status[k]) \cap TrueFacts(k) = {} /\ TrueFacts(k) \subseteq Fact
    BY RowValues, DenialsAreTrue, KindsOfFact DEF IInv, TrueFacts
  <2>3. ~(status[k] = "succeeded" /\ k \in pinned /\ artifact[k] = None)
    BY DEF IInv, PinnedIsWhole
  <2> QED
    BY <2>1, <2>2, <2>3 DEF ItemFacts, TrueFacts, FactsOf
<1>4. /\ answers' = [answers EXCEPT ![c] = @ + 1] /\ request' = request
      /\ told' = [told EXCEPT ![c] =
                     [k \in Keys |-> IF k \in page
                                     THEN (@[k] \ StatusDenies(status[k])) \cup ItemFacts(k)
                                     ELSE @[k]]]
  BY DEF ListReply
<1>5. ASSUME NEW d \in Clients, NEW k \in Keys
      PROVE  told'[d][k] = told[d][k] \cup (IF d = c /\ k \in page THEN ItemFacts(k) ELSE {})
  BY <1>2, <1>3, <1>4
<1>6. told' \in [Clients -> [Keys -> SUBSET Fact]]
  <2>1. [k \in Keys |-> IF k \in page
                        THEN (told[c][k] \ StatusDenies(status[k])) \cup ItemFacts(k)
                        ELSE told[c][k]] \in [Keys -> SUBSET Fact]
    BY <1>2, <1>3
  <2> QED
    BY <1>2, <1>4, <2>1
<1>7. ToldIsTrue'
  <2> SUFFICES ASSUME NEW d \in Clients, NEW k \in Keys PROVE told'[d][k] \subseteq (TrueFacts(k))'
    BY DEF ToldIsTrue
  <2>1. told[d][k] \subseteq TrueFacts(k) /\ TrueFacts(k) \subseteq (TrueFacts(k))'
    BY <1>1 DEF IInv, ToldIsTrue, RowsOnlyGrow
  <2> QED
    BY <1>3, <1>5, <2>1
<1>8. answers' \in [Clients -> 0 .. MaxAnswers]
  BY <1>2, <1>4
<1>9. ASSUME NEW d \in Clients PROVE (CurrentRequest(d))'
  <2>1. CASE d # c
    BY <1>1, <1>2, <1>4, <2>1, RequestStays
  <2>2. CASE d = c
    BY <1>4, <2>2 DEF CurrentRequest
  <2> QED
    BY <2>1, <2>2
<1> QED
  BY <1>5, <1>6, <1>7, <1>8, <1>9 DEF ClientsHearTruth, RequestIsCurrent
-------------------------------------------------------------------------------
(* The steps, one by one.                                                  *)

(* What a step leaves behind, and what it took back of what was told.      *)
StepKeeps ==
    /\ IInv'
    /\ \A c \in Clients, k \in Keys : told[c][k] \subseteq told'[c][k]

(* What is pinned and has a row stays whole.                               *)
LEMMA PinnedStaysWhole ==
    ASSUME IInv, RowsOnlyGrow,
           \A k \in pinned' : k \in Backfilled \/
               (k \in Keys /\ (status'[k] = "queued" \/ artifact'[k] # None))
    PROVE  PinnedIsWhole' /\ pinned' \subseteq Keys
<1>1. \A k \in Keys : k \in Backfilled /\ status'[k] = "succeeded" => artifact'[k] # None
  BY DEF IInv, PinnedIsWhole, RowsOnlyGrow, Backfilled, Active
<1>2. Backfilled \subseteq Keys
  BY DEF Backfilled, IInv, TypeOK
<1> QED
  BY <1>1, <1>2 DEF PinnedIsWhole

(* A step keeps the invariant when it does so for rows, clients, pins and  *)
(* listings.                                                               *)
LEMMA TogetherKept ==
    ASSUME RowsOnlyGrow, ClientsHearTruth, PinnedIsWhole', pinned' \subseteq Keys,
           ListingsInOrder', DOMAIN request' = Clients, DOMAIN listing' = Clients
    PROVE  StepKeeps
  BY DEF RowsOnlyGrow, ClientsHearTruth, StepKeeps, IInv, TypeOK, RequestIsCurrent, CurrentRequest

(* An answer about a row as the step leaves it.                            *)
LEMMA TellsStatus ==
    ASSUME IInv, RowsOnlyGrow, NEW c \in Clients, NEW k \in Keys
    PROVE  /\ TellsTruth(c, k, Answer(StatusFacts(status'[k]), StatusDenies(status'[k])))
           /\ status'[k] # "succeeded" => TellsTruth(c, k, Answer({}, Completion))
           /\ artifact'[k] # None =>
                TellsTruth(c, k, Answer({[etag |-> artifact'[k]]},
                                        [etag : Results \ {artifact'[k]}]))
           /\ artifact'[k] = None => [etag : Results] \cap told[c][k] = {}
<1>1. /\ status'[k] \in AllStatus /\ report'[k] \in Results \cup {None}
      /\ artifact'[k] \in Results \cup {None}
      /\ artifact'[k] # None => status'[k] = "succeeded"
  BY DEF RowsOnlyGrow, RowsAreWhole
<1>2. told[c][k] \subseteq FactsOf(status'[k], report'[k], artifact'[k])
  BY DEF IInv, ToldIsTrue, RowsOnlyGrow, TrueFacts
<1>3. /\ StatusDenies(status'[k]) \cap told[c][k] = {}
      /\ status'[k] # "succeeded" => Completion \cap told[c][k] = {}
      /\ [etag : Results \ {artifact'[k]}] \cap told[c][k] = {}
  BY <1>1, <1>2, DenialsAreTrue
<1>4. /\ StatusFacts(status'[k]) \subseteq (TrueFacts(k))'
      /\ artifact'[k] # None => {[etag |-> artifact'[k]]} \subseteq (TrueFacts(k))'
  BY DEF TrueFacts, FactsOf
<1>5. artifact'[k] = None => Results \ {artifact'[k]} = Results
  BY ApiAssumption
<1> QED
  BY <1>3, <1>4, <1>5 DEF TellsTruth, Answer

(* Steps that leave rows, listings and what the clients go by to others:   *)
(* only the handlers' own part differs.                                    *)
LEMMA WorkKeeps ==
    ASSUME IInv, NEW k \in Keys, Work(k)
    PROVE  StepKeeps
<1>1. RowStep(k) /\ UNCHANGED <<created_at, request, told, listing, answers>> /\ pinned' = Backfilled
  BY DEF Work, RowStep
<1>2. RowsOnlyGrow
  BY <1>1, RowSteps DEF IInv
<1> QED
  BY <1>1, <1>2, NobodyAnswered, PinnedStaysWhole, ListingsStay, TogetherKept DEF IInv, TypeOK

(* A POST or a GET that is answered at once.                               *)
LEMMA AnsweredAtOnce ==
    ASSUME IInv, RowsOnlyGrow, NEW c \in Clients, NEW k \in Keys, NEW a,
           answers[c] < MaxAnswers, ReplyOrFail(c, k, a), TellsTruth(c, k, a),
           PinnedIsWhole', pinned' \subseteq Keys, UNCHANGED listing
    PROVE  StepKeeps
<1>1. DOMAIN request' = Clients
  BY DEF ReplyOrFail, Reply, IInv, TypeOK
<1> QED
  BY <1>1, RepliedOrFailed, ListingsStay, TogetherKept DEF IInv, TypeOK

(* A handler that goes on to its next statement.                           *)
LEMMA HeldUntilNext ==
    ASSUME IInv, RowsOnlyGrow, NEW c \in Clients, NEW q,
           answers[c] < MaxAnswers, Hold(c, q),
           q.key \in Keys, q.kind \in Kinds, (ReadIsCurrent(c, q))',
           PinnedIsWhole', pinned' \subseteq Keys, UNCHANGED listing
    PROVE  StepKeeps
<1>1. DOMAIN request' = Clients
  BY DEF Hold, IInv, TypeOK
<1> QED
  BY <1>1, Held, ListingsStay, TogetherKept DEF IInv, TypeOK

(* Each handler keeps the invariant: a request, a repeat of it, a full     *)
(* queue.                                                                  *)
LEMMA PostInvestigationKeeps ==
    ASSUME IInv, NEW c \in Clients, NEW k \in Keys, PostInvestigation(c, k)
    PROVE  StepKeeps
<1>1. RowsOnlyGrow
  BY RowSteps, RowsAtRest DEF PostInvestigation, RowStep, IInv
<1>2. status'[k] = "queued" \/ (status[k] # "absent" /\ rows' = rows)
  BY DEF PostInvestigation, Store!Submit, IInv, RowsAreWhole
<1>3. PinnedIsWhole' /\ pinned' \subseteq Keys
  <2>1. \A j \in pinned' : j \in Backfilled \/ (j = k /\ status[k] = "absent")
    BY DEF PostInvestigation
  <2> QED
    BY <1>1, <1>2, <2>1, PinnedStaysWhole
<1> QED
  BY <1>1, <1>3, TellsStatus, AnsweredAtOnce DEF PostInvestigation, Idle

(* A cancellation, of a row in any status.                                 *)
LEMMA PostCancelKeeps ==
    ASSUME IInv, NEW c \in Clients, NEW k \in Keys, PostCancel(c, k)
    PROVE  StepKeeps
<1>1. RowsOnlyGrow
  BY RowSteps, RowsAtRest DEF PostCancel, RowStep, IInv
<1>2. PinnedIsWhole' /\ pinned' \subseteq Keys
  BY <1>1, PinnedStaysWhole DEF PostCancel
<1>3. PICK a : /\ ReplyOrFail(c, k, a)
               /\ a = IF status[k] = "absent"
                      THEN Answer({}, StatusDenies("absent"))
                      ELSE Answer(StatusFacts(status'[k]), StatusDenies(status'[k]))
  BY DEF PostCancel
<1>4. a = Answer(StatusFacts(status'[k]), StatusDenies(status'[k]))
  <2>1. CASE status[k] = "absent"
    <3>1. status'[k] = "absent"
      BY <2>1 DEF PostCancel, Store!RequestCancel, rows
    <3>2. StatusFacts("absent") = {}
      BY DEF StatusFacts, Ended
    <3> QED
      BY <1>3, <2>1, <3>1, <3>2
  <2> QED
    BY <1>3, <2>1
<1>5. TellsTruth(c, k, a)
  BY <1>1, <1>4, TellsStatus
<1> QED
  BY <1>1, <1>2, <1>3, <1>5, AnsweredAtOnce DEF PostCancel, Idle

(* The handlers that read and change no row.                               *)
LEMMA Reading ==
    ASSUME IInv, UNCHANGED <<rows, created_at>>, pinned' = Backfilled \/ pinned' = pinned
    PROVE  /\ RowsOnlyGrow /\ PinnedIsWhole' /\ pinned' \subseteq Keys
           /\ \A k \in Keys : /\ status'[k] = status[k] /\ report'[k] = report[k]
                              /\ artifact'[k] = artifact[k]
                              /\ (TrueFacts(k))' = TrueFacts(k)
<1>1. RowsOnlyGrow
  BY RowsAtRest DEF IInv
<1>2. PinnedIsWhole' /\ pinned' \subseteq Keys
  BY <1>1, PinnedStaysWhole DEF Backfilled
<1> QED
  BY <1>1, <1>2 DEF rows, TrueFacts

(* The source of a regeneration.                                           *)
LEMMA GetRegenerationSourceKeeps ==
    ASSUME IInv, NEW c \in Clients, NEW k \in Keys, GetRegenerationSource(c, k)
    PROVE  StepKeeps
<1>1. /\ RowsOnlyGrow /\ PinnedIsWhole' /\ pinned' \subseteq Keys
      /\ status'[k] = status[k] /\ artifact'[k] = artifact[k]
      /\ answers[c] < MaxAnswers /\ UNCHANGED listing
  BY Reading DEF GetRegenerationSource, Idle
<1>2. CASE status[k] # "succeeded" /\ ReplyOrFail(c, k, Answer({}, Completion))
  BY <1>1, <1>2, TellsStatus, AnsweredAtOnce
<1>3. CASE artifact[k] # None /\ ReplyOrFail(c, k, Answer({[etag |-> artifact[k]]}, {}))
  <2>1. TellsTruth(c, k, Answer({[etag |-> artifact[k]]}, {}))
    BY <1>1, <1>3 DEF TellsTruth, Answer, TrueFacts, FactsOf
  <2> QED
    BY <1>1, <1>3, <2>1, AnsweredAtOnce
<1>4. CASE ReplyOrFail(c, k, Answer({}, {}))
  <2>1. TellsTruth(c, k, Answer({}, {}))
    BY DEF TellsTruth, Answer
  <2> QED
    BY <1>1, <1>4, <2>1, AnsweredAtOnce
<1>5. CASE Hold(c, [kind |-> "regenerate", key |-> k, source |-> report[k]])
  <2>1. PICK q : q = [kind |-> "regenerate", key |-> k, source |-> report[k]]
    OBVIOUS
  <2>2. q.key \in Keys /\ q.kind \in Kinds /\ q.kind = "regenerate" /\ Hold(c, q)
    BY <1>5, <2>1 DEF Kinds
  <2>3. (ReadIsCurrent(c, q))'
    BY <2>2 DEF ReadIsCurrent, SubResources
  <2> QED
    BY <1>1, <2>2, <2>3, HeldUntilNext
<1> QED
  BY <1>2, <1>3, <1>4, <1>5 DEF GetRegenerationSource

(* An attached artifact stays, and its description is read back.           *)
LEMMA AttachReportArtifactKeeps ==
    ASSUME IInv, NEW c \in Clients, AttachReportArtifact(c)
    PROVE  StepKeeps
<1>1. CurrentRequest(c) /\ request[c] # None /\ UNCHANGED <<created_at, listing>>
  BY DEF AttachReportArtifact, IInv, RequestIsCurrent
<1>2. PICK k : k = request[c].key
  OBVIOUS
<1>3. k \in Keys /\ answers[c] < MaxAnswers
  BY <1>1, <1>2 DEF CurrentRequest
<1>4. CASE Reply(c, k, Unavailable) /\ UNCHANGED <<rows, pinned>>
  <2>1. TellsTruth(c, k, Unavailable)
    BY DEF TellsTruth, Unavailable, Answer
  <2> QED
    BY <1>1, <1>3, <1>4, <2>1, Reading, AnsweredAtOnce DEF ReplyOrFail
<1>5. CASE artifact[k] # None /\ Reply(c, k, Answer({[etag |-> artifact[k]]}, {}))
           /\ UNCHANGED <<rows, pinned>>
  <2>1. RowsOnlyGrow /\ artifact'[k] = artifact[k]
    BY <1>1, <1>3, <1>5, Reading
  <2>2. TellsTruth(c, k, Answer({[etag |-> artifact[k]]}, {}))
    BY <1>5, <2>1 DEF TellsTruth, Answer, TrueFacts, FactsOf
  <2> QED
    BY <1>1, <1>3, <1>5, <2>2, Reading, AnsweredAtOnce DEF ReplyOrFail
<1>6. CASE Store!Rewrite(k) /\ pinned' = pinned \cup {k}
           /\ Hold(c, [kind |-> "attached", key |-> k])
  <2>1. RowsOnlyGrow
    BY <1>1, <1>3, <1>6, RowSteps DEF IInv, RowStep
  <2>2. artifact'[k] # None
    BY <1>3, <1>6 DEF Store!Rewrite, IInv, RowsAreWhole
  <2>3. PinnedIsWhole' /\ pinned' \subseteq Keys
    BY <1>3, <1>6, <2>1, <2>2, PinnedStaysWhole DEF Backfilled
  <2>4. PICK q : q = [kind |-> "attached", key |-> k]
    OBVIOUS
  <2>5. q.key = k /\ q.kind = "attached" /\ q.kind \in Kinds /\ Hold(c, q)
    BY <1>6, <2>4 DEF Kinds
  <2>6. (ReadIsCurrent(c, q))'
    BY <2>2, <2>5 DEF ReadIsCurrent, SubResources
  <2> QED
    BY <1>1, <1>3, <2>1, <2>3, <2>5, <2>6, HeldUntilNext
<1> QED
  BY <1>2, <1>4, <1>5, <1>6 DEF AttachReportArtifact

(* The artifact read back for it.                                          *)
LEMMA ReadBackArtifactKeeps ==
    ASSUME IInv, NEW c \in Clients, ReadBackArtifact(c)
    PROVE  StepKeeps
<1>1. /\ CurrentRequest(c) /\ request[c] # None /\ request[c].kind = "attached"
      /\ UNCHANGED <<rows, created_at, pinned, listing>>
  BY DEF ReadBackArtifact, IInv, RequestIsCurrent
<1>2. PICK k : k = request[c].key
  OBVIOUS
<1>3. k \in Keys /\ answers[c] < MaxAnswers /\ artifact[k] # None
  BY <1>1, <1>2 DEF CurrentRequest, ReadIsCurrent
<1>4. ReplyOrFail(c, k, Answer({[etag |-> artifact[k]]}, {}))
  BY <1>2, <1>3 DEF ReadBackArtifact
<1>5. RowsOnlyGrow /\ artifact'[k] = artifact[k]
  BY <1>1, <1>3, Reading
<1>6. TellsTruth(c, k, Answer({[etag |-> artifact[k]]}, {}))
  BY <1>3, <1>5 DEF TellsTruth, Answer, TrueFacts, FactsOf
<1> QED
  BY <1>1, <1>3, <1>4, <1>6, Reading, AnsweredAtOnce

(* The status of a job.                                                    *)
LEMMA GetJobKeeps ==
    ASSUME IInv, NEW c \in Clients, NEW k \in Keys, GetJob(c, k)
    PROVE  StepKeeps
<1>1. /\ RowsOnlyGrow /\ PinnedIsWhole' /\ pinned' \subseteq Keys
      /\ status'[k] = status[k] /\ answers[c] < MaxAnswers /\ UNCHANGED listing
  BY Reading DEF GetJob, Idle
<1>2. StatusAnswer(k) = Answer(StatusFacts(status[k]), StatusDenies(status[k]))
  BY DEF StatusAnswer, StatusFacts, Ended
<1>3. TellsTruth(c, k, StatusAnswer(k))
  BY <1>1, <1>2, TellsStatus
<1> QED
  BY <1>1, <1>3, AnsweredAtOnce DEF GetJob

(* The first read of a report or of a part of it.                          *)
LEMMA GetInvestigationKeeps ==
    ASSUME IInv, NEW c \in Clients, NEW k \in Keys, NEW kind \in SubResources,
           GetInvestigation(c, k, kind)
    PROVE  StepKeeps
<1>1. /\ RowsOnlyGrow /\ PinnedIsWhole' /\ pinned' \subseteq Keys
      /\ status'[k] = status[k] /\ artifact'[k] = artifact[k] /\ (TrueFacts(k))' = TrueFacts(k)
      /\ answers[c] < MaxAnswers /\ UNCHANGED listing
  BY Reading DEF GetInvestigation, Idle
<1>2. CASE status[k] = "absent"
  <2>1. StatusAnswer(k) = Answer(StatusFacts(status[k]), StatusDenies(status[k]))
    BY DEF StatusAnswer, StatusFacts, Ended
  <2>2. TellsTruth(c, k, StatusAnswer(k))
    BY <1>1, <2>1, TellsStatus
  <2> QED
    BY <1>1, <1>2, <2>2, AnsweredAtOnce DEF GetInvestigation
<1>3. CASE status[k] # "absent"
  <2>1. PICK q : q = [kind |-> kind, key |-> k, status |-> status[k],
                      pinned |-> k \in Backfilled]
    OBVIOUS
  <2>2. /\ q.key = k /\ q.kind = kind /\ q.status = status[k]
        /\ kind \in Kinds /\ Hold(c, q)
    BY <1>3, <2>1 DEF Kinds, GetInvestigation
  <2>3. q.pinned <=> k \in Backfilled
    BY <2>1
  <2>4. q.status = "succeeded" /\ q.pinned => artifact[k] # None
    BY <2>2, <2>3 DEF Backfilled, Active, IInv, PinnedIsWhole
  <2>5. StatusFacts(status[k]) \subseteq (TrueFacts(k))'
        /\ StatusDenies(status[k]) \cap told[c][k] = {}
    BY <1>1, TellsStatus DEF TellsTruth, Answer
  <2>6. (ReadIsCurrent(c, q))'
    <3>1. told' = told
      BY <2>2 DEF Hold
    <3>2. q.kind # "attached"
      BY <2>2 DEF SubResources
    <3>3. q.status = "succeeded" /\ q.pinned => artifact'[q.key] # None
      BY <1>1, <2>2, <2>4
    <3> QED
      BY <2>2, <2>5, <3>1, <3>2, <3>3 DEF ReadIsCurrent
  <2> QED
    BY <1>1, <2>2, <2>6, HeldUntilNext
<1> QED
  BY <1>2, <1>3

(* The second statement of a GET: the answer may be put together from what *)
(* was read before and what is read now.                                   *)
SecondRead(c) == GetLatestStep(c) \/ GetReport(c) \/ GetReportArtifact(c)

(* The artifact, read after the row.                                       *)
LEMMA SecondReadKeeps ==
    ASSUME IInv, NEW c \in Clients, SecondRead(c)
    PROVE  StepKeeps
<1>1. /\ CurrentRequest(c) /\ request[c] # None /\ request[c].kind \in SubResources
      /\ UNCHANGED <<rows, created_at, pinned, listing>>
  BY DEF SecondRead, GetLatestStep, GetReport, GetReportArtifact, SubResources, IInv,
     RequestIsCurrent
<1>2. PICK k : k = request[c].key
  OBVIOUS
<1>3. /\ k \in Keys /\ answers[c] < MaxAnswers
      /\ StatusFacts(request[c].status) \subseteq TrueFacts(k)
      /\ StatusDenies(request[c].status) \cap told[c][k] = {}
      /\ request[c].status = "succeeded" /\ request[c].pinned => artifact[k] # None
  BY <1>1, <1>2 DEF CurrentRequest, ReadIsCurrent
<1>4. /\ RowsOnlyGrow /\ PinnedIsWhole' /\ pinned' \subseteq Keys
      /\ status'[k] = status[k] /\ artifact'[k] = artifact[k] /\ report'[k] = report[k]
      /\ (TrueFacts(k))' = TrueFacts(k)
  BY <1>1, <1>3, Reading
<1>5. ASSUME NEW a, ReplyOrFail(c, k, a), TellsTruth(c, k, a) PROVE StepKeeps
  BY <1>1, <1>3, <1>4, <1>5, AnsweredAtOnce
<1>6. CASE GetLatestStep(c)
  <2>1. PICK s : s = request[c].status
    OBVIOUS
  <2>2. ReplyOrFail(c, k, Answer(StatusFacts(s), StatusDenies(s)))
    BY <1>2, <1>6, <2>1 DEF GetLatestStep
  <2>3. TellsTruth(c, k, Answer(StatusFacts(s), StatusDenies(s)))
    BY <1>3, <1>4, <2>1 DEF TellsTruth, Answer
  <2> QED
    BY <1>5, <2>2, <2>3
<1>7. CASE GetReport(c)
  <2>1. ReplyOrFail(c, k, ReportAnswer(k))
    BY <1>2, <1>7 DEF GetReport
  <2>2. CASE status[k] = "succeeded"
    <3>1. ReportAnswer(k) = Answer({[report |-> r] : r \in {report[k]} \ {None}}, {})
      BY <2>2 DEF ReportAnswer
    <3>2. TellsTruth(c, k, ReportAnswer(k))
      BY <1>4, <2>2, <3>1 DEF TellsTruth, Answer, TrueFacts, FactsOf
    <3> QED
      BY <1>5, <2>1, <3>2
  <2>3. CASE status[k] # "succeeded"
    <3>1. TellsTruth(c, k, ReportAnswer(k))
      BY <1>3, <1>4, <2>3, TellsStatus DEF ReportAnswer
    <3> QED
      BY <1>5, <2>1, <3>1
  <2> QED
    BY <2>2, <2>3
<1>8. CASE GetReportArtifact(c)
  <2>1. ReplyOrFail(c, k, ReportArtifact(k, request[c], artifact[k]))
    BY <1>2, <1>8 DEF GetReportArtifact
  <2>2. CASE request[c].status # "succeeded"
    <3>1. ReportArtifact(k, request[c], artifact[k]) = Answer({}, Completion)
      BY <2>2 DEF ReportArtifact
    <3>2. Completion \subseteq StatusDenies(request[c].status)
      BY <2>2 DEF StatusDenies
    <3>3. TellsTruth(c, k, Answer({}, Completion))
      BY <1>3, <3>2 DEF TellsTruth, Answer
    <3> QED
      BY <1>5, <2>1, <3>1, <3>3
  <2>3. CASE request[c].status = "succeeded" /\ artifact[k] = None
    <3>1. ReportArtifact(k, request[c], artifact[k])
            = Answer({[ended |-> "succeeded"]}, [etag : Results])
      BY <1>3, <2>3 DEF ReportArtifact
    <3>2. {[ended |-> "succeeded"]} \subseteq TrueFacts(k)
      BY <1>3, <2>3 DEF StatusFacts, Ended
    <3>3. [etag : Results] \cap told[c][k] = {}
      BY <1>3, <1>4, <2>3, TellsStatus
    <3>4. TellsTruth(c, k, Answer({[ended |-> "succeeded"]}, [etag : Results]))
      BY <1>4, <3>2, <3>3 DEF TellsTruth, Answer
    <3> QED
      BY <1>5, <2>1, <3>1, <3>4
  <2>4. CASE request[c].status = "succeeded" /\ artifact[k] # None
    <3>1. ReportArtifact(k, request[c], artifact[k])
            = Answer({[etag |-> artifact[k]]}, [etag : Results \ {artifact[k]}])
      BY <2>4 DEF ReportArtifact
    <3>2. TellsTruth(c, k, Answer({[etag |-> artifact[k]]}, [etag : Results \ {artifact[k]}]))
      BY <1>3, <1>4, <2>4, TellsStatus
    <3> QED
      BY <1>5, <2>1, <3>1, <3>2
  <2> QED
    BY <2>2, <2>3, <2>4
<1> QED
  BY <1>6, <1>7, <1>8 DEF SecondRead

(* A page of a listing, and one that is not answered.                      *)
LEMMA ListKeeps ==
    ASSUME IInv, NEW c \in Clients, NEW l, ListedInOrder(l), NEW page,
           Idle(c), pinned' = Backfilled, UNCHANGED <<rows, created_at>>,
           listing' = [listing EXCEPT ![c] = l], ListReply(c, page)
    PROVE  StepKeeps
<1>1. RowsOnlyGrow /\ PinnedIsWhole' /\ pinned' \subseteq Keys
  BY Reading
<1>2. ClientsHearTruth
  BY PageTellsTruth DEF Idle
<1>3. (ListedInOrder(l))' /\ \A d \in Clients : listing'[d] = IF d = c THEN l ELSE listing[d]
  BY <1>1, ListingStays DEF IInv, TypeOK
<1>4. ASSUME NEW d \in Clients, listing'[d] # None PROVE (ListedInOrder(listing[d]))'
  <2>1. CASE d = c
    <3>1. listing'[d] = l
      BY <1>3, <2>1
    <3> QED
      BY <1>3, <3>1 DEF ListedInOrder
  <2>2. CASE d # c
    <3>1. PICK m : m = listing[d]
      OBVIOUS
    <3>2. ListedInOrder(m) /\ listing'[d] = m
      BY <1>3, <1>4, <2>2, <3>1 DEF IInv, ListingsInOrder
    <3>3. (ListedInOrder(m))'
      BY <1>1, <3>2, ListingStays
    <3> QED
      BY <3>2, <3>3 DEF ListedInOrder
  <2> QED
    BY <2>1, <2>2
<1>5. ListingsInOrder'
  BY <1>4 DEF ListingsInOrder
<1>6. DOMAIN listing' = Clients /\ DOMAIN request' = Clients
  BY DEF ListReply, IInv, TypeOK
<1> QED
  BY <1>1, <1>2, <1>5, <1>6, TogetherKept

(* The first page of a listing.                                            *)
LEMMA ListFirstKeeps ==
    ASSUME IInv, NEW c \in Clients, NEW filter \in Filters, ListFirst(c, filter)
    PROVE  StepKeeps
<1>1. PICK l : l = PageOf(filter, None, {}, Matching(filter, None), FALSE)
  OBVIOUS
<1>2. PICK before \in SUBSET Keys : before = Matching(filter, None)
  BY DEF Matching
<1>3. \A k \in before : status[k] # "absent"
  BY <1>2 DEF Matching, Filters, Active
<1>4. ListedInOrder(PageOf(filter, None, {}, before, FALSE))
  BY <1>3, PageInOrder DEF IInv
<1>5. ListedInOrder(l)
  BY <1>1, <1>2, <1>4
<1>6. /\ Idle(c) /\ pinned' = Backfilled /\ UNCHANGED <<rows, created_at>>
      /\ listing' = [listing EXCEPT ![c] = l]
      /\ ListReply(c, Page(Matching(filter, None)))
  BY <1>1 DEF ListFirst
<1> QED
  BY <1>5, <1>6, ListKeeps

(* A further page, behind the cursor.                                      *)
LEMMA ListNextKeeps ==
    ASSUME IInv, NEW c \in Clients, ListNext(c)
    PROVE  StepKeeps
<1>1. PICK l : l = listing[c]
  OBVIOUS
<1>2. ListedInOrder(l) /\ l.cursor # None
  BY <1>1 DEF ListNext, IInv, ListingsInOrder
<1>3. PICK m : m = PageOf(l.filter, l.cursor, l.shown, l.before, l.twice)
  OBVIOUS
<1>4. l.twice => FALSE
  BY <1>2 DEF ListedInOrder
<1>5. PageOf(l.filter, l.cursor, l.shown, l.before, l.twice)
        = PageOf(l.filter, l.cursor, l.shown, l.before, FALSE)
  BY <1>4 DEF PageOf
<1>6. ListedInOrder(PageOf(l.filter, l.cursor, l.shown, l.before, FALSE))
  <2>1. l.filter \in Filters /\ l.shown \in SUBSET Keys /\ l.before \in SUBSET Keys
    BY <1>2 DEF ListedInOrder
  <2>2. /\ \E o \in Keys : l.cursor = Position(o)
        /\ \A k \in l.shown : ~Older(k, l.cursor)
        /\ l.filter # Active => \A k \in l.before :
                                 /\ status[k] # "absent"
                                 /\ k \in l.shown \/ l.cursor = None \/ Older(k, l.cursor)
    BY <1>2 DEF ListedInOrder
  <2> QED
    BY <1>2, <2>1, <2>2, PageInOrder DEF IInv
<1>7. ListedInOrder(m)
  BY <1>3, <1>5, <1>6
<1>8. /\ Idle(c) /\ pinned' = Backfilled /\ UNCHANGED <<rows, created_at>>
      /\ listing' = [listing EXCEPT ![c] = m]
      /\ ListReply(c, Page(Matching(l.filter, l.cursor)))
  BY <1>1, <1>3 DEF ListNext
<1> QED
  BY <1>7, <1>8, ListKeeps

(* A listing that fails.                                                   *)
LEMMA ListFailsKeeps ==
    ASSUME IInv, NEW c \in Clients, ListFails(c)
    PROVE  StepKeeps
<1>1. RowsOnlyGrow /\ PinnedIsWhole' /\ pinned' \subseteq Keys
  BY Reading DEF ListFails
<1>2. /\ answers' = [answers EXCEPT ![c] = @ + 1] /\ answers[c] < MaxAnswers /\ request[c] = None
      /\ UNCHANGED <<request, told, listing>>
  BY DEF ListFails, Idle
<1>3. ToldIsTrue'
  BY <1>1, <1>2 DEF ToldIsTrue, RowsOnlyGrow, IInv
<1>4. ASSUME NEW d \in Clients PROVE (CurrentRequest(d))'
  <2>1. CASE d = c
    BY <1>2, <2>1 DEF CurrentRequest
  <2>2. CASE d # c
    BY <1>1, <1>2, <2>2, RequestStays DEF IInv, TypeOK
  <2> QED
    BY <2>1, <2>2
<1>5. answers' \in [Clients -> 0 .. MaxAnswers]
  BY <1>2, ApiAssumption DEF IInv, TypeOK
<1>6. ClientsHearTruth
  BY <1>2, <1>3, <1>4, <1>5 DEF ClientsHearTruth, RequestIsCurrent, IInv, TypeOK
<1> QED
  BY <1>1, <1>2, <1>6, ListingsStay, TogetherKept DEF IInv, TypeOK
-------------------------------------------------------------------------------

(* The invariant at the beginning.                                         *)
LEMMA InitIInv == Init => IInv
<1> SUFFICES ASSUME Init PROVE IInv
  OBVIOUS
<1>1. RowsAreWhole
  <2>1. created_at \in [Keys -> Nat]
    BY ApiAssumption DEF Init
  <2> QED
    BY <2>1 DEF Init, Store!Init, Store!LegacyRow, Store!FreshRow, RowsAreWhole, AllStatus,
       Active, Ended
<1>2. TypeOK /\ PinnedIsWhole /\ ToldIsTrue
  BY ApiAssumption DEF Init, TypeOK, PinnedIsWhole, ToldIsTrue
<1>3. RequestIsCurrent /\ ListingsInOrder
  BY DEF Init, RequestIsCurrent, CurrentRequest, ListingsInOrder
<1> QED
  BY <1>1, <1>2, <1>3 DEF IInv

(* Every step keeps the invariant and what clients were told.              *)
LEMMA NextKeeps == ASSUME IInv, [Next]_vars PROVE StepKeeps
<1>1. CASE UNCHANGED vars
  <2>1. RowsOnlyGrow
    BY <1>1, RowsAtRest DEF IInv, vars
  <2>2. PinnedIsWhole' /\ pinned' \subseteq Keys
    BY <1>1, <2>1, PinnedStaysWhole DEF vars, Backfilled
  <2>3. ClientsHearTruth /\ ListingsInOrder'
    BY <1>1, <2>1, NobodyAnswered, ListingsStay DEF vars
  <2> QED
    BY <1>1, <2>1, <2>2, <2>3, TogetherKept DEF IInv, TypeOK, vars
<1> QED
  BY <1>1, WorkKeeps, PostInvestigationKeeps, PostCancelKeeps, GetRegenerationSourceKeeps,
     AttachReportArtifactKeeps, ReadBackArtifactKeeps, GetJobKeeps, GetInvestigationKeeps,
     SecondReadKeeps, ListFirstKeeps, ListNextKeeps, ListFailsKeeps DEF Next, SecondRead

(* What clients were told stays true, and requests and listings under way  *)
(* agree with it, for any number of investigations and clients.            *)
THEOREM ApiInvariance == Spec => []IInv
<1>1. IInv /\ [Next]_vars => IInv'
  BY NextKeeps DEF StepKeeps
<1> QED
  BY <1>1, InitIInv, PTL DEF Spec

(* No answer takes back what the same client was told before, although the *)
(* handlers read the job, the row and the artifact in separate statements. *)
THEOREM AnswersAreKept == Spec => NeverTakenBack
<1>1. IInv /\ [Next]_vars =>
        [\A c \in Clients, k \in Keys : told[c][k] \subseteq told'[c][k]]_vars
  BY NextKeeps DEF StepKeeps
<1>2. Spec => [][\A c \in Clients, k \in Keys : told[c][k] \subseteq told'[c][k]]_vars
  BY <1>1, ApiInvariance, PTL DEF Spec
<1> QED
  BY <1>2 DEF NeverTakenBack

(* report_artifact_missing is answered to nobody whose database is whole.  *)
THEOREM NoArtifactIsMissing == Spec => []ArtifactIsNeverMissing
<1>1. IInv => ArtifactIsNeverMissing
  BY RowValues, DenialsAreTrue DEF IInv, ArtifactIsNeverMissing, ToldIsTrue, TrueFacts
<1> QED
  BY <1>1, ApiInvariance, PTL

(* Paging shows no investigation twice and, unfiltered, misses none that   *)
(* was there, for any page size and whatever is created in between.        *)
THEOREM ListingsAreFaithful == Spec => []ListingIsFaithful
<1>1. IInv => ListingIsFaithful
  BY DEF IInv, ListingIsFaithful, ListingsInOrder, ListedInOrder
<1> QED
  BY <1>1, ApiInvariance, PTL
=============================================================================
