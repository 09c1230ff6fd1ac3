-------------------------- MODULE InvestigationQueue --------------------------
(***************************************************************************)
(* The durable investigation queue: the PostgreSQL tables owned by         *)
(* InvestigationStore (investigations, jobs, steps, report_artifacts), the *)
(* API calls that create and cancel, the InvestigationWorker processes     *)
(* that claim, execute and finalise, and the report regeneration.          *)
(*                                                                         *)
(* Each action is one call of the store (one statement or transaction), so *)
(* every interleaving of workers, clients and regenerations between two    *)
(* store calls is explored.  Time is abstract: a lease is "live" until it  *)
(* is "expired".  A worker may crash anywhere, losing its memory.          *)
(***************************************************************************)
EXTENDS Naturals

CONSTANTS
    Keys,           \* idempotency keys; one investigation and one job per key
    Legacy,         \* keys whose rows predate the report artifact tables
    Workers,        \* investigation worker processes
    Regenerators,   \* API threads serving report:regenerate
    Results,        \* what an execution may conclude
    Profiles,       \* report profiles (template, schema and prompt versions)
    None,           \* SQL NULL
    MaxCrashes,     \* bound: worker crashes in a behaviour
    MaxStalls,      \* bound: leases that expire under a worker still alive
    CanFail         \* may an execution, a rendering or a store call raise?

VARIABLES
    \* jobs table, one row per key
    status, cancel_requested, claim_token, lease, created_at,
    \* investigations table
    inv_status, report, report_profile,
    \* steps and report_artifacts tables
    steps, artifact,
    \* worker processes: where run_once stands, the claimed row, the result
    pc, claimed, result,
    \* regenerations in progress
    regen,
    \* source of created_at values and of fresh claim tokens
    clock,
    \* fault counters
    crashes, stalls

jobs == <<status, cancel_requested, claim_token, lease, created_at>>
investigations == <<inv_status, report, report_profile>>
tables == <<jobs, investigations, steps, artifact>>
workers == <<pc, claimed, result>>
faults == <<crashes, stalls>>
vars == <<tables, workers, regen, clock, faults>>

-------------------------------------------------------------------------------
(* Types.                                                                  *)

Terminal == {"succeeded", "failed", "cancelled"}
JobStatus == {"absent", "queued", "running"} \cup Terminal
InvStatus == {"absent", "queued", "running", "completed", "failed", "cancelled"}
Stages == {"PLAN", "RUN", "SYNTHESIZE", "AUDIT", "REPORT"}

(* Variants named Mutant... are plausible slips in the code they stand     *)
(* next to; no specification uses them.                                    *)
MutantAfterBoundaryMisnamed ==
    [claimed |-> "plan", planned |-> "run", executed |-> "synthesize",
     synthesized |-> "audit", audited |-> "report",
     reported |-> "completing", errored |-> "failing"]
MutantAfterBoundarySkips ==
    [claimed |-> "plan", planned |-> "run", executed |-> "audit",
     synthesized |-> "audit", audited |-> "reporting",
     reported |-> "completing", errored |-> "failing"]

(* The stage a worker resumes at when the boundary sees no cancel request. *)
AfterBoundary ==
    [claimed |-> "plan", planned |-> "run", executed |-> "synthesize",
     synthesized |-> "audit", audited |-> "reporting",
     reported |-> "completing", errored |-> "failing"]

(* The recording stages: what is recorded, and where the worker goes next. *)
StageOf == [plan |-> "PLAN", run |-> "RUN",
            synthesize |-> "SYNTHESIZE", audit |-> "AUDIT"]
AfterRecord == [plan |-> "planned", run |-> "executing",
                synthesize |-> "synthesized", audit |-> "audited"]

BoundaryPcs == {"claimed", "planned", "executed", "synthesized", "audited",
                "reported", "errored"}
RecordPcs == {"plan", "run", "synthesize", "audit"}
Pcs == {"idle", "executing", "reporting", "completing", "failing", "cancelling"}
         \cup BoundaryPcs \cup RecordPcs

(* Payloads of PLAN and RUN repeat the claimed row: only those derived     *)
(* from a result tell two workers apart.                                   *)
StepRow == Results \cup {None, "request"}
Artifact == [source : Results, profile : Profiles]
ClaimedRow == [key : Keys, token : Nat, profile : Profiles]
NoClaim == [key |-> None, token |-> 0, profile |-> None]
Regeneration == [key : Keys, source : Results, profile : Profiles]

(* None is told apart from every value a column may hold.                  *)
ASSUME QueueAssumption ==
    /\ Legacy \subseteq Keys
    /\ None \notin Keys \cup Results \cup Profiles \cup {"request"} \cup Artifact
    /\ MaxCrashes \in Nat
    /\ MaxStalls \in Nat
    /\ CanFail \in BOOLEAN

TypeOK ==
    /\ status \in [Keys -> JobStatus]
    /\ cancel_requested \in [Keys -> BOOLEAN]
    /\ claim_token \in [Keys -> Nat]
    /\ lease \in [Keys -> {"none", "live", "expired"}]
    /\ created_at \in [Keys -> Nat]
    /\ inv_status \in [Keys -> InvStatus]
    /\ report \in [Keys -> Results \cup {None}]
    /\ report_profile \in [Keys -> Profiles \cup {None}]
    /\ steps \in [Keys -> [Stages -> StepRow]]
    /\ artifact \in [Keys -> Artifact \cup {None}]
    /\ pc \in [Workers -> Pcs]
    /\ claimed \in [Workers -> ClaimedRow \cup {NoClaim}]
    /\ result \in [Workers -> Results \cup {None}]
    /\ regen \in [Regenerators -> Regeneration \cup {None}]
    /\ clock \in Nat
    /\ crashes \in Nat
    /\ stalls \in Nat

-------------------------------------------------------------------------------
(* Initial states: an empty queue, except for rows written before report   *)
(* profiles and artifacts existed, still queued or already completed.      *)

InitialRow(k) ==
    \/ /\ k \notin Legacy
       /\ status[k] = "absent"
       /\ inv_status[k] = "absent"
       /\ report[k] = None
    \/ /\ k \in Legacy
       /\ status[k] = "queued"
       /\ inv_status[k] = "queued"
       /\ report[k] = None
    \/ /\ k \in Legacy
       /\ status[k] = "succeeded"
       /\ inv_status[k] = "completed"

Init ==
    /\ status \in [Keys -> {"absent", "queued", "succeeded"}]
    /\ inv_status \in [Keys -> {"absent", "queued", "completed"}]
    /\ report \in [Keys -> Results \cup {None}]
    /\ \A k \in Keys : InitialRow(k)
    /\ cancel_requested = [k \in Keys |-> FALSE]
    /\ claim_token = [k \in Keys |-> 0]
    /\ lease = [k \in Keys |-> "none"]
    /\ created_at = [k \in Keys |-> 0]
    /\ report_profile = [k \in Keys |-> None]
    /\ steps = [k \in Keys |-> [s \in Stages |-> None]]
    /\ artifact = [k \in Keys |-> None]
    /\ pc = [w \in Workers |-> "idle"]
    /\ claimed = [w \in Workers |-> NoClaim]
    /\ result = [w \in Workers |-> None]
    /\ regen = [r \in Regenerators |-> None]
    /\ clock = 1
    /\ crashes = 0
    /\ stalls = 0

-------------------------------------------------------------------------------
(* Predicates of the tables.                                               *)

MutantOwnsAnyToken(w) == status[claimed[w].key] = "running"

(* The WHERE clause every finalising statement repeats.                    *)
Owns(w) ==
    LET k == claimed[w].key IN
    status[k] = "running" /\ claim_token[k] = claimed[w].token

MutantClaimableQueuedOnly(k) ==
    ~cancel_requested[k] /\ status[k] = "queued"

Claimable(k) ==
    /\ ~cancel_requested[k]
    /\ \/ status[k] = "queued"
       \/ status[k] = "running" /\ lease[k] = "expired"

MutantBackfilledAll(p) ==
    [k \in Keys |-> IF inv_status[k] \in {"queued", "running"}
                    THEN p ELSE report_profile[k]]

(* ensure_tables pins the calling process' default profile to every active *)
(* investigation that has none.                                            *)
Backfilled(p) ==
    [k \in Keys |->
        IF inv_status[k] \in {"queued", "running"} /\ report_profile[k] = None
        THEN p ELSE report_profile[k]]

Goto(w, next) ==
    /\ pc' = [pc EXCEPT ![w] = next]
    /\ UNCHANGED <<claimed, result>>

(* run_once returns, or the process dies: its memory of the claim is gone. *)
Release(w) ==
    /\ pc' = [pc EXCEPT ![w] = "idle"]
    /\ claimed' = [claimed EXCEPT ![w] = NoClaim]
    /\ result' = [result EXCEPT ![w] = None]

-------------------------------------------------------------------------------
(* Clients.                                                                *)

(* A repeated key returns the existing pair: only the backfill remains.    *)
Create(k, p) ==
    /\ IF status[k] = "absent"
       THEN /\ status' = [status EXCEPT ![k] = "queued"]
            /\ inv_status' = [inv_status EXCEPT ![k] = "queued"]
            /\ report_profile' = [Backfilled(p) EXCEPT ![k] = p]
            /\ created_at' = [created_at EXCEPT ![k] = clock]
            /\ clock' = clock + 1
       ELSE /\ report_profile' = Backfilled(p)
            /\ UNCHANGED <<status, inv_status, created_at, clock>>
    /\ UNCHANGED <<cancel_requested, claim_token, lease, report, steps, artifact,
                   workers, regen, faults>>

(* A queued job is cancelled at once; a running one is only flagged.       *)
Cancel(k) ==
    /\ status[k] \in {"queued", "running"}
    /\ cancel_requested' = [cancel_requested EXCEPT ![k] = TRUE]
    /\ IF status[k] = "queued"
       THEN /\ status' = [status EXCEPT ![k] = "cancelled"]
            /\ inv_status' = [inv_status EXCEPT ![k] = "cancelled"]
       ELSE UNCHANGED <<status, inv_status>>
    /\ UNCHANGED <<claim_token, lease, created_at, report, report_profile, steps,
                   artifact, workers, regen, clock, faults>>

-------------------------------------------------------------------------------
(* Workers.                                                                *)

MutantClaimNextKeepsToken(w, k, p) ==
    LET token == IF claim_token[k] = 0 THEN clock ELSE claim_token[k] IN
    /\ pc[w] = "idle"
    /\ Claimable(k)
    /\ status' = [status EXCEPT ![k] = "running"]
    /\ claim_token' = [claim_token EXCEPT ![k] = token]
    /\ lease' = [lease EXCEPT ![k] = "live"]
    /\ inv_status' = [inv_status EXCEPT ![k] = IF @ = "queued" THEN "running" ELSE @]
    /\ report_profile' = Backfilled(p)
    /\ pc' = [pc EXCEPT ![w] = "claimed"]
    /\ claimed' = [claimed EXCEPT ![w] =
                      [key |-> k, token |-> token, profile |-> Backfilled(p)[k]]]
    /\ clock' = clock + 1
    /\ UNCHANGED <<cancel_requested, created_at, report, steps, artifact, result,
                   regen, faults>>

(* Oldest claimable job first; a reclaim replaces the token.               *)
ClaimNext(w, k, p) ==
    /\ pc[w] = "idle"
    /\ Claimable(k)
    /\ \A o \in Keys : Claimable(o) => created_at[k] <= created_at[o]
    /\ status' = [status EXCEPT ![k] = "running"]
    /\ claim_token' = [claim_token EXCEPT ![k] = clock]
    /\ lease' = [lease EXCEPT ![k] = "live"]
    /\ inv_status' = [inv_status EXCEPT ![k] = IF @ = "queued" THEN "running" ELSE @]
    /\ report_profile' = Backfilled(p)
    /\ pc' = [pc EXCEPT ![w] = "claimed"]
    /\ claimed' = [claimed EXCEPT ![w] =
                      [key |-> k, token |-> clock, profile |-> Backfilled(p)[k]]]
    /\ clock' = clock + 1
    /\ UNCHANGED <<cancel_requested, created_at, report, steps, artifact, result,
                   regen, faults>>

(* is_cancel_requested reads the flag under the worker's own token: a      *)
(* worker that lost its claim never sees the request.                      *)
SeesCancel(w) ==
    LET k == claimed[w].key IN
    claim_token[k] = claimed[w].token /\ cancel_requested[k]

CancelAtBoundary(w) ==
    /\ pc[w] \in BoundaryPcs
    /\ Goto(w, IF SeesCancel(w) THEN "cancelling" ELSE AfterBoundary[pc[w]])
    /\ UNCHANGED <<tables, regen, clock, faults>>

(* One finalising statement pair: the job row by token, the investigation  *)
(* row if it is still running.                                             *)
Finish(k, outcome) ==
    /\ status' = [status EXCEPT ![k] = outcome]
    /\ lease' = [lease EXCEPT ![k] = "none"]
    /\ inv_status' = [inv_status EXCEPT ![k] = IF @ = "running" THEN outcome ELSE @]

MarkCancelled(w) ==
    LET k == claimed[w].key IN
    /\ pc[w] = "cancelling"
    /\ IF Owns(w) /\ cancel_requested[k]
       THEN Finish(k, "cancelled")
       ELSE UNCHANGED <<status, lease, inv_status>>
    /\ Release(w)
    /\ UNCHANGED <<cancel_requested, claim_token, created_at, report,
                   report_profile, steps, artifact, regen, clock, faults>>

(* The insert carries no claim token: a stale worker may still append, and *)
(* the first writer of a step wins.                                        *)
RecordStep(w) ==
    LET k == claimed[w].key
        stage == StageOf[pc[w]]
        payload == IF pc[w] \in {"plan", "run"} THEN "request" ELSE result[w]
    IN
    /\ pc[w] \in RecordPcs
    /\ steps' = [steps EXCEPT ![k][stage] = IF @ = None THEN payload ELSE @]
    /\ Goto(w, AfterRecord[pc[w]])
    /\ UNCHANGED <<jobs, investigations, artifact, regen, clock, faults>>

(* The heartbeat of the RUN and REPORT stages.  It extends a lease that    *)
(* has already expired as long as nobody else claimed the job, and makes   *)
(* the worker walk away when somebody did.                                 *)
RenewLease(w) ==
    /\ pc[w] \in {"executing", "reporting"}
    /\ IF Owns(w)
       THEN /\ lease' = [lease EXCEPT ![claimed[w].key] = "live"]
            /\ UNCHANGED workers
       ELSE /\ Release(w)
            /\ UNCHANGED lease
    /\ UNCHANGED <<status, cancel_requested, claim_token, created_at,
                   investigations, steps, artifact, regen, clock, faults>>

(* The execution returns between two heartbeats: ownership is not looked   *)
(* at again.                                                               *)
ExecuteReturns(w, r) ==
    /\ pc[w] = "executing"
    /\ pc' = [pc EXCEPT ![w] = "executed"]
    /\ result' = [result EXCEPT ![w] = r]
    /\ UNCHANGED <<tables, claimed, regen, clock, faults>>

ReportReturns(w) ==
    /\ pc[w] = "reporting"
    /\ Goto(w, "reported")
    /\ UNCHANGED <<tables, regen, clock, faults>>

(* The execution, the generator or the completing transaction raises.      *)
StageRaises(w) ==
    /\ CanFail
    /\ pc[w] \in {"executing", "reporting", "completing"}
    /\ Goto(w, "errored")
    /\ UNCHANGED <<tables, regen, clock, faults>>

(* The fence and the uniqueness and pin checks of the completion.          *)
MayComplete(w) ==
    LET k == claimed[w].key IN
    /\ Owns(w)
    /\ ~cancel_requested[k]
    /\ inv_status[k] = "running"
    /\ claimed[w].profile = report_profile[k]
    /\ artifact[k] = None
    /\ steps[k]["REPORT"] = None

MutantCompleteIgnoresCancel(w) ==
    LET k == claimed[w].key IN
    /\ pc[w] = "completing"
    /\ Owns(w)
    /\ Finish(k, "succeeded")
    /\ report' = [report EXCEPT ![k] = result[w]]
    /\ artifact' = [artifact EXCEPT ![k] =
                       [source |-> result[w], profile |-> claimed[w].profile]]
    /\ steps' = [steps EXCEPT ![k]["REPORT"] = result[w]]
    /\ Release(w)
    /\ UNCHANGED <<cancel_requested, claim_token, created_at, report_profile,
                   regen, clock, faults>>

Complete(w) ==
    LET k == claimed[w].key IN
    /\ pc[w] = "completing"
    /\ MayComplete(w)
    /\ status' = [status EXCEPT ![k] = "succeeded"]
    /\ lease' = [lease EXCEPT ![k] = "none"]
    /\ inv_status' = [inv_status EXCEPT ![k] = "completed"]
    /\ report' = [report EXCEPT ![k] = result[w]]
    /\ artifact' = [artifact EXCEPT ![k] =
                       [source |-> result[w], profile |-> claimed[w].profile]]
    /\ steps' = [steps EXCEPT ![k]["REPORT"] = result[w]]
    /\ Release(w)
    /\ UNCHANGED <<cancel_requested, claim_token, created_at, report_profile,
                   regen, clock, faults>>

(* The transaction is rolled back and the worker goes on to record a       *)
(* failure, behind one more boundary.                                      *)
CompletionRejected(w) ==
    /\ pc[w] = "completing"
    /\ ~MayComplete(w)
    /\ Goto(w, "errored")
    /\ UNCHANGED <<tables, regen, clock, faults>>

MutantFailIgnoresCancel(w) ==
    LET k == claimed[w].key IN
    /\ pc[w] = "failing"
    /\ IF Owns(w)
       THEN Finish(k, "failed")
       ELSE UNCHANGED <<status, lease, inv_status>>
    /\ Release(w)
    /\ UNCHANGED <<cancel_requested, claim_token, created_at, report,
                   report_profile, steps, artifact, regen, clock, faults>>

MutantFailUnfenced(w) ==
    /\ pc[w] = "failing"
    /\ Finish(claimed[w].key, "failed")
    /\ Release(w)
    /\ UNCHANGED <<cancel_requested, claim_token, created_at, report,
                   report_profile, steps, artifact, regen, clock, faults>>

(* A cancel request that arrived since the boundary makes the update match *)
(* no row; the worker returns all the same.                                *)
Fail(w) ==
    LET k == claimed[w].key IN
    /\ pc[w] = "failing"
    /\ IF Owns(w) /\ ~cancel_requested[k]
       THEN Finish(k, "failed")
       ELSE UNCHANGED <<status, lease, inv_status>>
    /\ Release(w)
    /\ UNCHANGED <<cancel_requested, claim_token, created_at, report,
                   report_profile, steps, artifact, regen, clock, faults>>

-------------------------------------------------------------------------------
(* Faults and time.                                                        *)

Crash(w) ==
    /\ crashes < MaxCrashes
    /\ pc[w] # "idle"
    /\ Release(w)
    /\ crashes' = crashes + 1
    /\ UNCHANGED <<tables, regen, clock, stalls>>

Held(k) ==
    \E w \in Workers :
        pc[w] # "idle" /\ claimed[w].key = k /\ claimed[w].token = claim_token[k]

(* Nobody renews the lease of a worker that is gone.                       *)
OrphanExpires(k) ==
    /\ status[k] = "running"
    /\ lease[k] = "live"
    /\ ~Held(k)
    /\ lease' = [lease EXCEPT ![k] = "expired"]
    /\ UNCHANGED <<status, cancel_requested, claim_token, created_at,
                   investigations, steps, artifact, workers, regen, clock, faults>>

(* A worker alive but slower than its lease: a pause, a slow store call.   *)
StalledExpires(k) ==
    /\ stalls < MaxStalls
    /\ status[k] = "running"
    /\ lease[k] = "live"
    /\ Held(k)
    /\ lease' = [lease EXCEPT ![k] = "expired"]
    /\ stalls' = stalls + 1
    /\ UNCHANGED <<status, cancel_requested, claim_token, created_at,
                   investigations, steps, artifact, workers, regen, clock, crashes>>

-------------------------------------------------------------------------------
(* Report regeneration: read, render outside any lock, attach under lock.  *)

GetRegenerationSource(r, k, p) ==
    /\ regen[r] = None
    /\ inv_status[k] = "completed"
    /\ artifact[k] = None
    /\ report[k] # None
    /\ regen' = [regen EXCEPT ![r] =
            [key |-> k, source |-> report[k],
             profile |-> IF report_profile[k] = None THEN p ELSE report_profile[k]]]
    /\ UNCHANGED <<tables, workers, clock, faults>>

MutantAttachWithoutPin(r) ==
    LET k == regen[r].key IN
    /\ regen[r] # None
    /\ artifact[k] = None
    /\ artifact' = [artifact EXCEPT ![k] =
           [source |-> regen[r].source, profile |-> regen[r].profile]]
    /\ steps' = [steps EXCEPT ![k]["REPORT"] = regen[r].source]
    /\ regen' = [regen EXCEPT ![r] = None]
    /\ UNCHANGED <<jobs, investigations, workers, clock, faults>>

AttachReportArtifact(r) ==
    LET k == regen[r].key IN
    /\ regen[r] # None
    /\ IF /\ inv_status[k] = "completed"
          /\ artifact[k] = None
          /\ report_profile[k] \in {None, regen[r].profile}
          /\ regen[r].source = report[k]
       THEN /\ artifact' = [artifact EXCEPT ![k] =
                   [source |-> regen[r].source, profile |-> regen[r].profile]]
            /\ steps' = [steps EXCEPT ![k]["REPORT"] =
                   IF @ = None THEN regen[r].source ELSE @]
            /\ report_profile' = [report_profile EXCEPT ![k] = regen[r].profile]
       ELSE UNCHANGED <<artifact, steps, report_profile>>
    /\ regen' = [regen EXCEPT ![r] = None]
    /\ UNCHANGED <<jobs, inv_status, report, workers, clock, faults>>

(* The generator raises, or the API process dies while rendering.          *)
RegenerationAborts(r) ==
    /\ CanFail
    /\ regen[r] # None
    /\ regen' = [regen EXCEPT ![r] = None]
    /\ UNCHANGED <<tables, workers, clock, faults>>

-------------------------------------------------------------------------------
Claim(w) == \E k \in Keys, p \in Profiles : ClaimNext(w, k, p)

(* What run_once does on its own, once it holds a claim.                   *)
RunOnce(w) ==
    \/ CancelAtBoundary(w)
    \/ MarkCancelled(w)
    \/ RecordStep(w)
    \/ \E r \in Results : ExecuteReturns(w, r)
    \/ ReportReturns(w)
    \/ StageRaises(w)
    \/ Complete(w)
    \/ CompletionRejected(w)
    \/ Fail(w)

(* The poll loop found nothing, and nobody is at work.                     *)
Quiescent ==
    /\ \A w \in Workers : pc[w] = "idle"
    /\ \A r \in Regenerators : regen[r] = None
    /\ \A k \in Keys : ~Claimable(k)
    /\ UNCHANGED vars

Next ==
    \/ \E k \in Keys, p \in Profiles : Create(k, p)
    \/ \E k \in Keys : Cancel(k)
    \/ \E w \in Workers : Claim(w)
    \/ \E w \in Workers : RunOnce(w)
    \/ \E w \in Workers : RenewLease(w)
    \/ \E w \in Workers : Crash(w)
    \/ \E k \in Keys : OrphanExpires(k)
    \/ \E k \in Keys : StalledExpires(k)
    \/ \E r \in Regenerators, k \in Keys, p \in Profiles :
          GetRegenerationSource(r, k, p)
    \/ \E r \in Regenerators : AttachReportArtifact(r)
    \/ \E r \in Regenerators : RegenerationAborts(r)
    \/ Quiescent

Spec == Init /\ [][Next]_vars

(* The worker's poll loop never stops for good, an execution and a         *)
(* rendering return (each is bounded by its client timeouts), and time     *)
(* passes.  Clients, crashes and stalls owe nothing.                       *)
Fairness ==
    /\ \A w \in Workers : WF_vars(Claim(w))
    /\ \A w \in Workers : WF_vars(RunOnce(w))
    /\ \A k \in Keys : WF_vars(OrphanExpires(k))

FairSpec == Spec /\ Fairness

-------------------------------------------------------------------------------
(* Safety.                                                                 *)

InvStatusOf(s) == IF s = "succeeded" THEN "completed" ELSE s

(* The jobs row and the investigations row a client polls separately never *)
(* tell different stories, whichever transactions interleave.              *)
StatusesAgree == \A k \in Keys : inv_status[k] = InvStatusOf(status[k])

(* An artifact is only ever visible with the completed investigation whose *)
(* stored report it was rendered from, with its REPORT step, and under the *)
(* profile the investigation is pinned to; and a job a worker brought to   *)
(* success always has one (complete_with_report_artifact,                  *)
(* attach_report_artifact).                                                *)
PublishedTogether ==
    \A k \in Keys :
        /\ artifact[k] # None =>
              /\ inv_status[k] = "completed"
              /\ artifact[k].source = report[k]
              /\ artifact[k].source = steps[k]["REPORT"]
              /\ artifact[k].profile = report_profile[k]
        /\ status[k] = "succeeded" /\ claim_token[k] # 0 => artifact[k] # None
        /\ artifact[k] = None => steps[k]["REPORT"] = None

(* A cancel request accepted before the outcome is never followed by a     *)
(* success or a failure, however late the result arrives.                  *)
CancelBeatsResult ==
    \A k \in Keys : cancel_requested[k] => status[k] \in {"running", "cancelled"}

(* Two workers that both believe they run the same job hold different      *)
(* claim tokens, so that at most one passes any token-guarded statement.   *)
ClaimsAreExclusive ==
    \A v, w \in Workers :
        /\ pc[v] # "idle"
        /\ pc[w] # "idle"
        /\ claimed[v].key = claimed[w].key
        /\ claimed[v].token = claimed[w].token
        => v = w

(* The audit trail of a job that a worker completed has no hole: a worker  *)
(* reaches completion only behind its own four recorded (or already        *)
(* recorded) steps.                                                        *)
TrailIsComplete ==
    \A k \in Keys :
        status[k] = "succeeded" /\ claim_token[k] # 0
            => \A s \in Stages : steps[k][s] # None

-------------------------------------------------------------------------------
(* Action properties.                                                      *)

(* Nothing a stale worker, a late result, a second cancel or a             *)
(* regeneration does changes an outcome, its report, a published artifact  *)
(* or a recorded step.                                                     *)
OutcomeIsFinal ==
    [][\A k \in Keys :
         /\ status[k] \in Terminal =>
               /\ status'[k] = status[k]
               /\ cancel_requested'[k] = cancel_requested[k]
               /\ inv_status'[k] = inv_status[k]
               /\ report'[k] = report[k]
         /\ artifact[k] # None => artifact'[k] = artifact[k]
         /\ \A s \in Stages : steps[k][s] # None => steps'[k][s] = steps[k][s]]_vars

(* A running job reaches an outcome only by a step of the worker that      *)
(* holds its latest claim token.                                           *)
OnlyOwnerEnds ==
    [][\A k \in Keys :
         status[k] = "running" /\ status'[k] # "running" =>
            \E w \in Workers :
               /\ pc[w] \in {"completing", "failing", "cancelling"}
               /\ claimed[w].key = k
               /\ claimed[w].token = claim_token[k]]_vars

(* A profile, once pinned, is never replaced (backfill, regeneration).     *)
ProfileIsPinned ==
    [][\A k \in Keys :
         report_profile[k] # None => report_profile'[k] = report_profile[k]]_vars

-------------------------------------------------------------------------------
(* Liveness, under FairSpec.                                               *)

(* Every queued job ends, through worker crashes, lost leases and failed   *)
(* executions, unless a client asks for its cancellation.                  *)
EveryJobEnds ==
    \A k \in Keys :
        status[k] = "queued" ~> status[k] \in Terminal \/ cancel_requested[k]

(* cancel: a running job whose cancellation was requested is ended by its  *)
(* worker at a stage boundary.                                             *)
CancelEndsTheJob ==
    \A k \in Keys : cancel_requested[k] ~> status[k] = "cancelled"

-------------------------------------------------------------------------------
(* The queue implements the lifecycle its clients see.                     *)

Lifecycle == INSTANCE InvestigationLifecycle WITH
    cancel   <- cancel_requested,
    artifact <- [k \in Keys |-> IF artifact[k] = None THEN None
                                ELSE artifact[k].source]

(* Every behaviour of workers, leases, claim tokens, crashes and           *)
(* regenerations is, to an API client, a behaviour of the lifecycle.       *)
ImplementsLifecycle == Lifecycle!Spec
===============================================================================
