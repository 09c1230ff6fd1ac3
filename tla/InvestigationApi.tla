--------------------------- MODULE InvestigationApi ---------------------------
(***************************************************************************)
(* The HTTP handlers of viewer.py over the durable investigation queue.    *)
(*                                                                         *)
(* The rows the handlers read and write change as InvestigationLifecycle   *)
(* says, which InvestigationQueue implements.  Every handler works on an   *)
(* autocommit connection: each statement sees the rows of its own moment,  *)
(* so that an answer put together from two statements, a listing read page *)
(* by page and a regeneration that renders between two statements all meet *)
(* the transactions of workers and of other clients.                       *)
(***************************************************************************)
EXTENDS FiniteSets, Naturals

CONSTANTS
    Keys,       \* investigation ids, numbered as their ULIDs sort
    Results,    \* what an execution may conclude
    None,
    Clients,    \* API clients, each with one request at a time
    Limit,      \* page size of a listing
    MaxTime,    \* bound: values of created_at
    MaxAnswers  \* bound: answers one client is given

VARIABLES
    status, cancel, report, artifact,   \* as in InvestigationLifecycle
    created_at, \* creation times; rows created together share one
    pinned,     \* ids whose row has a report profile
    request,    \* what the handler of a client has read so far
    told,       \* facts each client goes by, from the answers it was given
    listing,    \* listing a client is paging through
    answers     \* answers given to each client

Store == INSTANCE InvestigationLifecycle

rows == <<status, cancel, report, artifact>>
vars == <<rows, created_at, pinned, request, told, listing, answers>>

ASSUME ApiAssumption ==
    /\ Keys \subseteq Nat
    /\ IsFiniteSet(Keys)
    /\ None \notin Results \cup (Nat \X Nat)
    /\ Limit \in Nat \ {0}
    /\ MaxTime \in Nat \ {0}
    /\ MaxAnswers \in Nat

-------------------------------------------------------------------------------
(* Answers.                                                                *)

Ended == {"succeeded", "failed", "cancelled"}
Active == {"queued", "running"}

(* What an answer may say: the investigation ended so, this report is      *)
(* stored, an artifact with this source (its ETag) is stored; or the       *)
(* report_artifact_missing error of a damaged database.                    *)
Stored == [report : Results] \cup [etag : Results]
Damaged == [damaged : {TRUE}]
Fact == [ended : Ended] \cup Stored \cup Damaged

(* An answer says some facts and is incompatible with others.              *)
Answer(facts, denied) == [facts |-> facts, denied |-> denied]

StatusFacts(s) == IF s \in Ended THEN {[ended |-> s]} ELSE {}

(* What an answer about a row that has not ended, or that has not          *)
(* completed, is incompatible with.                                        *)
Completion == Stored \cup {[ended |-> "succeeded"]}
StatusDenies(s) ==
    (IF s \in Ended THEN [ended : Ended \ {s}] ELSE [ended : Ended])
        \cup (IF s = "succeeded" THEN {} ELSE Completion)

Reply(c, k, a) ==
    /\ answers' = [answers EXCEPT ![c] = @ + 1]
    /\ told' = [told EXCEPT ![c][k] = (@ \ a.denied) \cup a.facts]
    /\ request' = [request EXCEPT ![c] = None]

(* The store fails under or after the last statement of a request: 503,    *)
(* or 500 from a regeneration, whatever was committed before.              *)
Unavailable == Answer({}, {})

ReplyOrFail(c, k, a) == Reply(c, k, a) \/ Reply(c, k, Unavailable)

Idle(c) == request[c] = None /\ answers[c] < MaxAnswers
Hold(c, r) ==
    /\ request' = [request EXCEPT ![c] = r]
    /\ UNCHANGED <<told, answers>>

-------------------------------------------------------------------------------
Init ==
    /\ Store!Init
    /\ created_at \in [Keys -> 1..MaxTime]
    /\ pinned = {}
    /\ request = [c \in Clients |-> None]
    /\ told = [c \in Clients |-> [k \in Keys |-> {}]]
    /\ listing = [c \in Clients |-> None]
    /\ answers = [c \in Clients |-> 0]

(* Variants named Mutant... are plausible slips in the code they stand     *)
(* next to; no specification uses them.                                    *)
MutantBackfilled == pinned \cup {k \in Keys : status[k] # "absent"}

(* ensure_tables pins the default profile to active rows that have none;   *)
(* _investigation_store calls it for every request, a worker before it     *)
(* claims.                                                                 *)
Backfilled == pinned \cup {k \in Keys : status[k] \in Active}

(* Workers move the rows; clients see none of it but in their answers.     *)
Work(k) ==
    /\ \/ Store!Start(k)
       \/ \E r \in Results : Store!Succeed(k, r)
       \/ Store!Fail(k)
       \/ Store!Cancel(k)
    /\ pinned' = Backfilled
    /\ UNCHANGED <<created_at, request, told, listing, answers>>

-------------------------------------------------------------------------------
(* POST.                                                                   *)

(* create: a repeated Idempotency-Key is given the row that is there, and  *)
(* the answer does not tell which of the two it was.                       *)
PostInvestigation(c, k) ==
    /\ Idle(c)
    /\ \/ Store!Submit(k)
       \/ status[k] # "absent" /\ UNCHANGED rows
    /\ pinned' = Backfilled \cup (IF status[k] = "absent" THEN {k} ELSE {})
    /\ ReplyOrFail(c, k, Answer(StatusFacts(status'[k]), StatusDenies(status'[k])))
    /\ UNCHANGED <<created_at, listing>>

MutantPostCancel(c, k) ==
    /\ Idle(c)
    /\ status[k] # "absent"
    /\ status' = [status EXCEPT ![k] = "cancelled"]
    /\ cancel' = [cancel EXCEPT ![k] = TRUE]
    /\ pinned' = Backfilled
    /\ ReplyOrFail(c, k, Answer(StatusFacts("cancelled"), StatusDenies("cancelled")))
    /\ UNCHANGED <<report, artifact, created_at, listing>>

(* cancel answers with the state it left behind.                           *)
PostCancel(c, k) ==
    /\ Idle(c)
    /\ \/ Store!RequestCancel(k)
       \/ status[k] \notin Active /\ UNCHANGED rows
    /\ pinned' = Backfilled
    /\ ReplyOrFail(c, k, IF status[k] = "absent"
                THEN Answer({}, StatusDenies("absent"))
                ELSE Answer(StatusFacts(status'[k]), StatusDenies(status'[k])))
    /\ UNCHANGED <<created_at, listing>>

(* regenerate_report reads the source; what is not a completed row without *)
(* an artifact is refused.                                                 *)
GetRegenerationSource(c, k) ==
    /\ Idle(c)
    /\ pinned' = Backfilled
    /\ \/ /\ status[k] # "succeeded"
          /\ ReplyOrFail(c, k, Answer({}, Completion))
       \/ /\ status[k] = "succeeded"
          /\ artifact[k] # None
          /\ ReplyOrFail(c, k, Answer({[etag |-> artifact[k]]}, {}))
       \/ /\ status[k] = "succeeded"
          /\ artifact[k] = None
          /\ report[k] = None
          /\ ReplyOrFail(c, k, Answer({}, {}))
       \/ /\ status[k] = "succeeded"
          /\ artifact[k] = None
          /\ report[k] # None
          /\ Hold(c, [kind |-> "regenerate", key |-> k, source |-> report[k]])
    /\ UNCHANGED <<rows, created_at, listing>>

(* The rendering may raise (500); otherwise the artifact is attached, or   *)
(* somebody else's is left alone.  Profile and artifact go in together.    *)
AttachReportArtifact(c) ==
    /\ request[c] # None
    /\ request[c].kind = "regenerate"
    /\ LET k == request[c].key IN
       \/ /\ Reply(c, k, Unavailable)
          /\ UNCHANGED <<rows, pinned>>
       \/ /\ artifact[k] # None
          /\ Reply(c, k, Answer({[etag |-> artifact[k]]}, {}))
          /\ UNCHANGED <<rows, pinned>>
       \/ /\ report[k] = request[c].source
          /\ Store!Rewrite(k)
          /\ pinned' = pinned \cup {k}
          /\ Hold(c, [kind |-> "attached", key |-> k])
    /\ UNCHANGED <<created_at, listing>>

(* The answer of a regeneration describes the artifact it reads back.      *)
ReadBackArtifact(c) ==
    /\ request[c] # None
    /\ request[c].kind = "attached"
    /\ LET k == request[c].key IN
       ReplyOrFail(c, k, IF artifact[k] = None
                THEN Answer(Damaged, {})
                ELSE Answer({[etag |-> artifact[k]]}, {}))
    /\ UNCHANGED <<rows, created_at, pinned, listing>>

-------------------------------------------------------------------------------
(* GET of one investigation or job.                                        *)

StatusAnswer(k) ==
    IF status[k] = "absent"
    THEN Answer({}, StatusDenies("absent"))
    ELSE Answer(StatusFacts(status[k]), StatusDenies(status[k]))

(* One statement, one answer: the job, or the investigation.               *)
GetJob(c, k) ==
    /\ Idle(c)
    /\ pinned' = Backfilled
    /\ ReplyOrFail(c, k, StatusAnswer(k))
    /\ UNCHANGED <<rows, created_at, listing>>

(* "artifact" is the report's description as well as its HTML.             *)
SubResources == {"status", "report", "artifact"}

(* They read the investigation row first: the status page is completed by  *)
(* the latest step, the others by report or artifact.                      *)
GetInvestigation(c, k, kind) ==
    /\ Idle(c)
    /\ pinned' = Backfilled
    /\ IF status[k] = "absent"
       THEN ReplyOrFail(c, k, StatusAnswer(k))
       ELSE Hold(c, [kind |-> kind, key |-> k, status |-> status[k],
                     pinned |-> k \in Backfilled])
    /\ UNCHANGED <<rows, created_at, listing>>

GetLatestStep(c) ==
    /\ request[c] # None
    /\ request[c].kind = "status"
    /\ LET s == request[c].status IN
       ReplyOrFail(c, request[c].key, Answer(StatusFacts(s), StatusDenies(s)))
    /\ UNCHANGED <<rows, created_at, pinned, listing>>

ReportAnswer(k) ==
    IF status[k] = "succeeded"
    THEN Answer({[report |-> r] : r \in {report[k]} \ {None}}, {})
    ELSE Answer({}, Completion)

GetReport(c) ==
    /\ request[c] # None
    /\ request[c].kind = "report"
    /\ ReplyOrFail(c, request[c].key, ReportAnswer(request[c].key))
    /\ UNCHANGED <<rows, created_at, pinned, listing>>

(* _send_report_artifact, from the row read first and the artifact read    *)
(* second.  The ETag is the content hash: a client that holds it is told   *)
(* 304, which states the same fact as sending the bytes again.             *)
ReportArtifact(k, investigation, stored) ==
    IF investigation.status # "succeeded"
    THEN Answer({}, Completion)
    ELSE IF stored = None
    THEN IF investigation.pinned THEN Answer(Damaged, {})
         ELSE Answer({[ended |-> "succeeded"]}, [etag : Results])
    ELSE Answer({[etag |-> stored]}, [etag : Results \ {stored}])

GetReportArtifact(c) ==
    /\ request[c] # None
    /\ request[c].kind = "artifact"
    /\ LET k == request[c].key IN
       ReplyOrFail(c, k, ReportArtifact(k, request[c], artifact[k]))
    /\ UNCHANGED <<rows, created_at, pinned, listing>>

-------------------------------------------------------------------------------
(* GET of the list, newest first, one page per request.                    *)

Filters == {{"queued", "running", "succeeded", "failed", "cancelled"}, Active}

Position(k) == <<created_at[k], k>>

(* Further down the list than a position: ORDER BY created_at DESC,        *)
(* investigation_id DESC.                                                  *)
Older(k, position) ==
    \/ Position(k)[1] < position[1]
    \/ Position(k)[1] = position[1] /\ Position(k)[2] < position[2]

MutantBeyond(k, cursor) == Position(k)[1] < cursor[1]

(* (created_at, investigation_id) < the cursor, which is the position of   *)
(* the last row of the page before.                                        *)
Beyond(k, cursor) == Older(k, cursor)

Matching(filter, cursor) ==
    {k \in Keys : status[k] \in filter /\ (cursor = None \/ Beyond(k, cursor))}

(* The newest of the rows, at most Limit of them.                          *)
Page(matching) ==
    {k \in matching : Cardinality({o \in matching : Older(k, Position(o))}) < Limit}

Oldest(page) == CHOOSE k \in page : \A o \in page : o = k \/ Older(k, Position(o))

(* What is left to page through: a cursor, or nothing; what the pages have *)
(* shown; what was listed before the first of them was read.               *)
PageOf(filter, cursor, shown, before, twice) ==
    LET matching == Matching(filter, cursor)
        page == Page(matching)
    IN  [filter |-> filter,
         cursor |-> IF page # matching THEN Position(Oldest(page)) ELSE None,
         shown |-> shown \cup page,
         before |-> before,
         twice |-> twice \/ page \cap shown # {}]

(* One statement joins rows and artifacts.  An item that has completed     *)
(* with a profile but without an artifact fails the whole request.         *)
ItemFacts(k) ==
    StatusFacts(status[k])
        \cup {[etag |-> r] : r \in {artifact[k]} \ {None}}
        \cup (IF status[k] = "succeeded" /\ k \in pinned /\ artifact[k] = None
              THEN Damaged ELSE {})

ListReply(c, page) ==
    /\ answers' = [answers EXCEPT ![c] = @ + 1]
    /\ told' = [told EXCEPT ![c] =
                   [k \in Keys |-> IF k \in page
                                   THEN (@[k] \ StatusDenies(status[k])) \cup ItemFacts(k)
                                   ELSE @[k]]]
    /\ UNCHANGED request

(* A page that was not answered is asked for again.                        *)
ListFails(c) ==
    /\ Idle(c)
    /\ pinned' = Backfilled
    /\ answers' = [answers EXCEPT ![c] = @ + 1]
    /\ UNCHANGED <<rows, created_at, request, told, listing>>

ListFirst(c, filter) ==
    /\ Idle(c)
    /\ listing[c] = None
    /\ pinned' = Backfilled
    /\ listing' = [listing EXCEPT ![c] =
                      PageOf(filter, None, {}, Matching(filter, None), FALSE)]
    /\ ListReply(c, Page(Matching(filter, None)))
    /\ UNCHANGED <<rows, created_at>>

ListNext(c) ==
    /\ Idle(c)
    /\ listing[c] # None
    /\ listing[c].cursor # None
    /\ pinned' = Backfilled
    /\ LET l == listing[c] IN
       /\ listing' = [listing EXCEPT ![c] =
                         PageOf(l.filter, l.cursor, l.shown, l.before, l.twice)]
       /\ ListReply(c, Page(Matching(l.filter, l.cursor)))
    /\ UNCHANGED <<rows, created_at>>

-------------------------------------------------------------------------------
Next ==
    \/ \E k \in Keys : Work(k)
    \/ \E c \in Clients, k \in Keys :
          \/ PostInvestigation(c, k)
          \/ PostCancel(c, k)
          \/ GetRegenerationSource(c, k)
          \/ GetJob(c, k)
          \/ \E kind \in SubResources : GetInvestigation(c, k, kind)
    \/ \E c \in Clients :
          \/ AttachReportArtifact(c)
          \/ ReadBackArtifact(c)
          \/ GetLatestStep(c)
          \/ GetReport(c)
          \/ GetReportArtifact(c)
          \/ \E filter \in Filters : ListFirst(c, filter)
          \/ ListNext(c)
          \/ ListFails(c)

Spec == Init /\ [][Next]_vars

-------------------------------------------------------------------------------
(* Properties.                                                             *)

TypeOK ==
    /\ pinned \subseteq Keys
    /\ told \in [Clients -> [Keys -> SUBSET Fact]]
    /\ answers \in [Clients -> 0..MaxAnswers]
    /\ DOMAIN request = Clients
    /\ DOMAIN listing = Clients
    /\ \A c \in Clients : request[c] # None => request[c].key \in Keys

(* No answer takes back what the same client was told before: an outcome   *)
(* stays that outcome, a report or an artifact that was served is never    *)
(* "not completed" or "not found" later, and its ETag stays the same,      *)
(* although the handlers read the job, the row and the artifact apart.     *)
NeverTakenBack ==
    [][\A c \in Clients, k \in Keys : told[c][k] \subseteq told'[c][k]]_vars

(* The "completed but no artifact" answers, meant for a damaged database,  *)
(* are never given to a client that asks while a worker completes, while   *)
(* a legacy investigation is given its artifact, or in a listing.          *)
ArtifactIsNeverMissing ==
    \A c \in Clients, k \in Keys : told[c][k] \cap Damaged = {}

(* Types, and: paging through the list shows no investigation twice,       *)
(* whatever is created or ends between two pages; and once it is through,  *)
(* the unfiltered list has shown every investigation that was listed when  *)
(* its first page was read.                                                *)
ListingIsFaithful ==
    /\ TypeOK
    /\ \A c \in Clients :
        listing[c] # None =>
            /\ ~listing[c].twice
            /\ listing[c].cursor = None /\ listing[c].filter # Active
                  => listing[c].before \subseteq listing[c].shown
===============================================================================
