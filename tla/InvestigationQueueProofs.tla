---------------------- MODULE InvestigationQueueProofs ----------------------
(***************************************************************************)
(* Proofs about InvestigationQueue, for any number of keys, workers,       *)
(* regenerations, results and profiles, and any bound on crashes and       *)
(* stalls.  The inductive invariant IInv adds to the checked invariants    *)
(* what makes them inductive: claim tokens are fresh and held by one       *)
(* worker at most, a worker past the execution carries a result, and a     *)
(* worker past a recording stage finds that stage in the trail.            *)
(***************************************************************************)
EXTENDS InvestigationQueue, TLAPS

(* Program counters behind the record of each step, and those that carry   *)
(* the result of an execution.                                             *)
Completing == {"reporting", "reported", "completing"}
BehindAudit == {"audited"} \cup Completing
BehindSynthesize == {"synthesized", "audit"} \cup BehindAudit
BehindExecute == {"executed", "synthesize"} \cup BehindSynthesize
BehindRun == {"executing"} \cup BehindExecute
BehindPlan == {"planned", "run"} \cup BehindRun

(* What a worker at work knows: the row it claimed, a token no later than  *)
(* any token to come, and a result once the execution has returned.        *)
WorkersOK ==
    \A w \in Workers :
        /\ pc[w] # "idle" => /\ claimed[w] \in ClaimedRow
                             /\ claimed[w].token < clock
                             /\ claimed[w].token # 0
        /\ pc[w] \in BehindExecute => result[w] \in Results

TokensAreFresh == \A k \in Keys : claim_token[k] < clock

TokensAreUnique ==
    \A v, w \in Workers :
        pc[v] # "idle" /\ pc[w] # "idle" /\ claimed[v].token = claimed[w].token
            => v = w

AbsentIsBlank == \A k \in Keys : status[k] = "absent" => report_profile[k] = None

TrailFollowsPc ==
    \A w \in Workers :
        /\ pc[w] \in BehindPlan => steps[claimed[w].key]["PLAN"] # None
        /\ pc[w] \in BehindRun => steps[claimed[w].key]["RUN"] # None
        /\ pc[w] \in BehindSynthesize => steps[claimed[w].key]["SYNTHESIZE"] # None
        /\ pc[w] \in BehindAudit => steps[claimed[w].key]["AUDIT"] # None

IInv ==
    /\ TypeOK
    /\ WorkersOK
    /\ TokensAreFresh
    /\ TokensAreUnique
    /\ StatusesAgree
    /\ CancelBeatsResult
    /\ PublishedTogether
    /\ AbsentIsBlank
    /\ TrailFollowsPc
    /\ TrailIsComplete
-------------------------------------------------------------------------------
(* The stage tables stay within the program counters.                      *)
LEMMA StageTables ==
    /\ \A p \in BoundaryPcs : AfterBoundary[p] \in Pcs \ {"idle"}
    /\ \A p \in RecordPcs : AfterRecord[p] \in Pcs \ {"idle"}
    /\ \A p \in RecordPcs : StageOf[p] \in Stages \ {"REPORT"}
  BY DEF BoundaryPcs, RecordPcs, AfterBoundary, AfterRecord, StageOf, Stages, Pcs

(* The initial tables are well typed.                                      *)
LEMMA InitTypeOK == Init => TypeOK
  BY QueueAssumption DEF Init, TypeOK, JobStatus, InvStatus, Terminal, StepRow,
     Pcs, Stages

(* No action writes a value of the wrong kind into a table or a worker.    *)
LEMMA NextTypeOK == IInv /\ [Next]_vars => TypeOK'
<1> SUFFICES ASSUME IInv, [Next]_vars PROVE TypeOK'
  OBVIOUS
<1> USE DEF IInv, jobs, investigations, tables, workers, faults
<1>1. ASSUME NEW k \in Keys, NEW p \in Profiles, Create(k, p) PROVE TypeOK'
  <2>1. Backfilled(p) \in [Keys -> Profiles \cup {None}]
    BY DEF TypeOK, Backfilled
  <2>2. report_profile' \in [Keys -> Profiles \cup {None}]
    BY <1>1, <2>1 DEF Create
  <2>3. status' \in [Keys -> JobStatus] /\ inv_status' \in [Keys -> InvStatus]
    BY <1>1 DEF Create, TypeOK, JobStatus, InvStatus
  <2>4. created_at' \in [Keys -> Nat] /\ clock' \in Nat
    <3>1. created_at \in [Keys -> Nat] /\ clock \in Nat
      BY DEF TypeOK
    <3>2. \/ created_at' = [created_at EXCEPT ![k] = clock] /\ clock' = clock + 1
          \/ UNCHANGED <<created_at, clock>>
      BY <1>1 DEF Create
    <3> HIDE DEF IInv
    <3> QED
      BY <3>1, <3>2
  <2> QED
    BY <1>1, <2>2, <2>3, <2>4 DEF Create, TypeOK
<1>2. ASSUME NEW k \in Keys, Cancel(k) PROVE TypeOK'
  BY <1>2 DEF Cancel, TypeOK, JobStatus, InvStatus, Terminal
<1>3. ASSUME NEW w \in Workers, NEW k \in Keys, NEW p \in Profiles, ClaimNext(w, k, p)
      PROVE  TypeOK'
  <2>1. Backfilled(p) \in [Keys -> Profiles \cup {None}] /\ Backfilled(p)[k] \in Profiles
    BY <1>3 DEF ClaimNext, TypeOK, Claimable, Backfilled, StatusesAgree, InvStatusOf
  <2>2. claimed' \in [Workers -> ClaimedRow \cup {NoClaim}]
    BY <1>3, <2>1 DEF ClaimNext, TypeOK, ClaimedRow
  <2>3. pc' \in [Workers -> Pcs]
    BY <1>3 DEF ClaimNext, TypeOK, Pcs, BoundaryPcs
  <2>4. status' \in [Keys -> JobStatus] /\ inv_status' \in [Keys -> InvStatus]
    BY <1>3 DEF ClaimNext, TypeOK, JobStatus, InvStatus
  <2> QED
    BY <1>3, <2>1, <2>2, <2>3, <2>4 DEF ClaimNext, TypeOK
<1>4. ASSUME NEW w \in Workers, CancelAtBoundary(w) PROVE TypeOK'
  BY <1>4, StageTables DEF CancelAtBoundary, Goto, TypeOK, Pcs
<1>5. ASSUME NEW w \in Workers, RecordStep(w) PROVE TypeOK'
  <2> DEFINE k == claimed[w].key
  <2>1. k \in Keys
    BY <1>5 DEF RecordStep, WorkersOK, ClaimedRow, RecordPcs
  <2>2. pc' \in [Workers -> Pcs]
    BY <1>5, StageTables DEF RecordStep, Goto, TypeOK
  <2>3. result[w] \in StepRow /\ "request" \in StepRow
    BY DEF TypeOK, StepRow
  <2>4. StageOf[pc[w]] \in Stages
    BY <1>5, StageTables DEF RecordStep
  <2>5. steps' \in [Keys -> [Stages -> StepRow]]
    BY <1>5, <2>1, <2>3, <2>4 DEF RecordStep, TypeOK
  <2> QED
    BY <1>5, <2>2, <2>5 DEF RecordStep, Goto, TypeOK
<1>6. ASSUME NEW w \in Workers, MarkCancelled(w) PROVE TypeOK'
  <2>1. claimed[w].key \in Keys
    BY <1>6 DEF MarkCancelled, WorkersOK, ClaimedRow
  <2>2. pc' \in [Workers -> Pcs] /\ claimed' \in [Workers -> ClaimedRow \cup {NoClaim}]
        /\ result' \in [Workers -> Results \cup {None}]
    BY <1>6 DEF MarkCancelled, Release, TypeOK, Pcs
  <2>3. /\ status' \in [Keys -> JobStatus] /\ inv_status' \in [Keys -> InvStatus]
        /\ lease' \in [Keys -> {"none", "live", "expired"}]
    <3>1. CASE UNCHANGED <<status, lease, inv_status>>
      BY <3>1 DEF TypeOK
    <3>2. CASE Finish(claimed[w].key, "cancelled")
      BY <3>2 DEF Finish, TypeOK, JobStatus, InvStatus, Terminal
    <3> QED
      BY <1>6, <3>1, <3>2 DEF MarkCancelled
  <2> QED
    BY <1>6, <2>2, <2>3 DEF MarkCancelled, TypeOK
<1>7. ASSUME NEW w \in Workers, NEW r \in Results, ExecuteReturns(w, r) PROVE TypeOK'
  BY <1>7 DEF ExecuteReturns, TypeOK, Pcs, BoundaryPcs
<1>8. ASSUME NEW w \in Workers, ReportReturns(w) \/ StageRaises(w) \/ CompletionRejected(w)
      PROVE  TypeOK'
  BY <1>8 DEF ReportReturns, StageRaises, CompletionRejected, Goto, TypeOK, Pcs,
     BoundaryPcs
<1>9. ASSUME NEW w \in Workers, Complete(w) PROVE TypeOK'
  <2> DEFINE k == claimed[w].key
  <2>1. k \in Keys /\ claimed[w].profile \in Profiles /\ result[w] \in Results
    BY <1>9 DEF Complete, WorkersOK, ClaimedRow, BehindExecute, BehindSynthesize,
       BehindAudit, Completing
  <2>2. artifact' \in [Keys -> Artifact \cup {None}]
    BY <1>9, <2>1 DEF Complete, TypeOK, Artifact
  <2>3. steps' \in [Keys -> [Stages -> StepRow]]
    BY <1>9, <2>1 DEF Complete, TypeOK, StepRow, Stages
  <2>4. status' \in [Keys -> JobStatus] /\ inv_status' \in [Keys -> InvStatus]
    BY <1>9 DEF Complete, TypeOK, JobStatus, InvStatus, Terminal
  <2> QED
    BY <1>9, <2>1, <2>2, <2>3, <2>4 DEF Complete, Release, TypeOK, Pcs
<1>10. ASSUME NEW w \in Workers, Fail(w) PROVE TypeOK'
  <2>1. claimed[w].key \in Keys
    BY <1>10 DEF Fail, WorkersOK, ClaimedRow
  <2>2. pc' \in [Workers -> Pcs] /\ claimed' \in [Workers -> ClaimedRow \cup {NoClaim}]
        /\ result' \in [Workers -> Results \cup {None}]
    BY <1>10 DEF Fail, Release, TypeOK, Pcs
  <2>3. status' \in [Keys -> JobStatus] /\ inv_status' \in [Keys -> InvStatus]
    <3>1. CASE UNCHANGED <<status, lease, inv_status>>
      BY <3>1 DEF TypeOK
    <3>2. CASE Finish(claimed[w].key, "failed")
      BY <3>2 DEF Finish, TypeOK, JobStatus, InvStatus, Terminal
    <3> QED
      BY <1>10, <3>1, <3>2 DEF Fail
  <2> QED
    BY <1>10, <2>2, <2>3 DEF Fail, Finish, TypeOK
<1>11. ASSUME NEW w \in Workers, RenewLease(w) PROVE TypeOK'
  <2>1. CASE Owns(w)
    BY <1>11, <2>1 DEF RenewLease, TypeOK
  <2>2. CASE ~Owns(w)
    BY <1>11, <2>2 DEF RenewLease, Release, TypeOK, Pcs
  <2> QED
    BY <2>1, <2>2
<1>12. ASSUME NEW w \in Workers, Crash(w) PROVE TypeOK'
  BY <1>12 DEF Crash, Release, TypeOK, Pcs
<1>13. ASSUME NEW k \in Keys, OrphanExpires(k) \/ StalledExpires(k) PROVE TypeOK'
  BY <1>13 DEF OrphanExpires, StalledExpires, TypeOK
<1>14. ASSUME NEW r \in Regenerators, NEW k \in Keys, NEW p \in Profiles,
              GetRegenerationSource(r, k, p)
       PROVE  TypeOK'
  BY <1>14 DEF GetRegenerationSource, TypeOK, Regeneration
<1>15. ASSUME NEW r \in Regenerators, AttachReportArtifact(r) PROVE TypeOK'
  <2> DEFINE k == regen[r].key
  <2>1. regen' \in [Regenerators -> Regeneration \cup {None}]
    BY <1>15 DEF AttachReportArtifact, TypeOK
  <2>2. k \in Keys /\ regen[r].source \in Results /\ regen[r].profile \in Profiles
    BY <1>15 DEF AttachReportArtifact, TypeOK, Regeneration
  <2>3. CASE UNCHANGED <<artifact, steps, report_profile>>
    BY <1>15, <2>1, <2>3 DEF AttachReportArtifact, TypeOK
  <2>4. CASE ~UNCHANGED <<artifact, steps, report_profile>>
    <3>1. artifact' \in [Keys -> Artifact \cup {None}]
      <4>1. artifact' = [artifact EXCEPT ![k] =
                            [source |-> regen[r].source, profile |-> regen[r].profile]]
        BY <1>15, <2>4 DEF AttachReportArtifact
      <4>2. [source |-> regen[r].source, profile |-> regen[r].profile] \in Artifact
        BY <2>2 DEF Artifact
      <4>3. artifact \in [Keys -> Artifact \cup {None}]
        BY DEF TypeOK
      <4> HIDE DEF IInv
      <4> QED
        BY <4>1, <4>2, <4>3
    <3>2. steps' \in [Keys -> [Stages -> StepRow]]
      <4>1. steps' = [steps EXCEPT ![k]["REPORT"] =
                         IF @ = None THEN regen[r].source ELSE @]
        BY <1>15, <2>4 DEF AttachReportArtifact
      <4> QED
        BY <2>2, <4>1 DEF TypeOK, StepRow, Stages
    <3>3. report_profile' \in [Keys -> Profiles \cup {None}]
      <4>1. report_profile' = [report_profile EXCEPT ![k] = regen[r].profile]
        BY <1>15, <2>4 DEF AttachReportArtifact
      <4> QED
        BY <2>2, <4>1 DEF TypeOK
    <3> QED
      BY <1>15, <2>1, <3>1, <3>2, <3>3 DEF AttachReportArtifact, TypeOK
  <2> QED
    BY <2>3, <2>4
<1>16. ASSUME NEW r \in Regenerators, RegenerationAborts(r) PROVE TypeOK'
  BY <1>16 DEF RegenerationAborts, TypeOK
<1>17. CASE UNCHANGED vars
  BY <1>17 DEF vars, TypeOK
<1> QED
  BY <1>1, <1>2, <1>3, <1>4, <1>5, <1>6, <1>7, <1>8, <1>9, <1>10, <1>11, <1>12,
     <1>13, <1>14, <1>15, <1>16, <1>17 DEF Next, Claim, RunOnce, Quiescent
-------------------------------------------------------------------------------
(* Only six operations touch an outcome, a cancel flag or a report.        *)
outcomes == <<status, cancel_requested, inv_status, report, claim_token, clock>>

(* The actions that can change an outcome.                                 *)
LEMMA OutcomeActions ==
    ASSUME [Next]_vars
    PROVE  \/ UNCHANGED outcomes
           \/ \E k \in Keys, p \in Profiles : Create(k, p)
           \/ \E k \in Keys : Cancel(k)
           \/ \E w \in Workers, k \in Keys, p \in Profiles : ClaimNext(w, k, p)
           \/ \E w \in Workers : MarkCancelled(w) \/ Complete(w) \/ Fail(w)
<1> USE DEF outcomes, jobs, investigations, tables
<1>1. ASSUME NEW w \in Workers, RunOnce(w)
      PROVE  \/ UNCHANGED outcomes
             \/ MarkCancelled(w) \/ Complete(w) \/ Fail(w)
  BY <1>1 DEF RunOnce, CancelAtBoundary, RecordStep, ExecuteReturns, ReportReturns,
     StageRaises, CompletionRejected
<1>2. ASSUME NEW w \in Workers, RenewLease(w) \/ Crash(w)
      PROVE  UNCHANGED outcomes
  BY <1>2 DEF RenewLease, Crash
<1>3. ASSUME NEW k \in Keys, OrphanExpires(k) \/ StalledExpires(k)
      PROVE  UNCHANGED outcomes
  BY <1>3 DEF OrphanExpires, StalledExpires
<1>4. ASSUME NEW r \in Regenerators,
             \/ \E k \in Keys, p \in Profiles : GetRegenerationSource(r, k, p)
             \/ AttachReportArtifact(r)
             \/ RegenerationAborts(r)
      PROVE  UNCHANGED outcomes
  BY <1>4 DEF GetRegenerationSource, AttachReportArtifact, RegenerationAborts
<1>5. UNCHANGED vars
        => UNCHANGED outcomes
  BY DEF vars
<1> QED
  BY <1>1, <1>2, <1>3, <1>4, <1>5 DEF Next, Claim, Quiescent

(* The row a worker at work has claimed exists.                            *)
LEMMA ClaimedKey ==
    ASSUME IInv, NEW w \in Workers, pc[w] # "idle"
    PROVE  claimed[w].key \in Keys /\ claimed[w].profile \in Profiles
  BY DEF IInv, WorkersOK, ClaimedRow

(* The paired updates of jobs and investigations keep the rows in step; no *)
(* outcome but "cancelled" is written over a cancel flag; tokens are drawn *)
(* from the clock.                                                         *)
LEMMA NextStatuses ==
    IInv /\ [Next]_vars => StatusesAgree' /\ CancelBeatsResult' /\ TokensAreFresh'
<1> SUFFICES ASSUME IInv, [Next]_vars
             PROVE  StatusesAgree' /\ CancelBeatsResult' /\ TokensAreFresh'
  OBVIOUS
<1> DEFINE Goal(j) ==
        /\ inv_status'[j] = InvStatusOf(status'[j])
        /\ cancel_requested'[j] => status'[j] \in {"running", "cancelled"}
        /\ claim_token'[j] < clock'
<1>1. ASSUME NEW j \in Keys PROVE Goal(j)
  <2> USE DEF IInv, StatusesAgree, CancelBeatsResult, TokensAreFresh
  <2>1. CASE UNCHANGED outcomes
    BY <2>1 DEF outcomes
  <2>2. ASSUME NEW k \in Keys, NEW p \in Profiles, Create(k, p) PROVE Goal(j)
    <3>1. UNCHANGED <<cancel_requested, claim_token>> /\ clock <= clock'
      BY <2>2 DEF Create, TypeOK
    <3>2. claim_token'[j] < clock'
      <4>1. claim_token[j] \in Nat /\ clock \in Nat /\ clock' \in Nat
        BY <2>2 DEF TypeOK, Create
      <4>2. claim_token[j] < clock
        BY DEF TokensAreFresh
      <4> HIDE DEF IInv, StatusesAgree, CancelBeatsResult, TokensAreFresh
      <4> QED
        BY <3>1, <4>1, <4>2
    <3>3. CASE UNCHANGED <<status, inv_status>>
      BY <3>1, <3>2, <3>3
    <3>4. CASE status[k] = "absent"
      <4>1. /\ status' = [status EXCEPT ![k] = "queued"]
            /\ inv_status' = [inv_status EXCEPT ![k] = "queued"]
        BY <2>2, <3>4 DEF Create
      <4>2. status \in [Keys -> JobStatus] /\ inv_status \in [Keys -> InvStatus]
        BY DEF TypeOK
      <4>3. cancel_requested[k] => status[k] \in {"running", "cancelled"}
        BY DEF CancelBeatsResult
      <4> HIDE DEF IInv, StatusesAgree, CancelBeatsResult, TokensAreFresh
      <4>4. CASE j = k
        BY <3>1, <3>2, <3>4, <4>1, <4>2, <4>3, <4>4 DEF InvStatusOf
      <4>5. CASE j # k
        <5>1. status'[j] = status[j] /\ inv_status'[j] = inv_status[j]
          BY <4>1, <4>2, <4>5
        <5>2. /\ inv_status[j] = InvStatusOf(status[j])
              /\ cancel_requested[j] => status[j] \in {"running", "cancelled"}
          BY DEF IInv, StatusesAgree, CancelBeatsResult
        <5> QED
          BY <3>1, <3>2, <5>1, <5>2
      <4> QED
        BY <4>4, <4>5
    <3> QED
      BY <2>2, <3>3, <3>4 DEF Create
  <2>3. ASSUME NEW k \in Keys, Cancel(k) PROVE Goal(j)
    BY <2>3 DEF Cancel, TypeOK, InvStatusOf
  <2>4. ASSUME NEW w \in Workers, NEW k \in Keys, NEW p \in Profiles, ClaimNext(w, k, p)
        PROVE  Goal(j)
    BY <2>4 DEF ClaimNext, Claimable, TypeOK, InvStatusOf
  <2>5. ASSUME NEW w \in Workers, MarkCancelled(w) PROVE Goal(j)
    <3>1. CASE UNCHANGED <<status, lease, inv_status>>
      BY <2>5, <3>1 DEF MarkCancelled
    <3>2. CASE Owns(w) /\ Finish(claimed[w].key, "cancelled")
      BY <2>5, <3>2, ClaimedKey DEF MarkCancelled, Finish, Owns, TypeOK, InvStatusOf
    <3> QED
      BY <2>5, <3>1, <3>2 DEF MarkCancelled
  <2>6. ASSUME NEW w \in Workers, Complete(w) PROVE Goal(j)
    BY <2>6, ClaimedKey DEF Complete, MayComplete, Owns, TypeOK, InvStatusOf
  <2>7. ASSUME NEW w \in Workers, Fail(w) PROVE Goal(j)
    <3>1. CASE UNCHANGED <<status, lease, inv_status>>
      BY <2>7, <3>1 DEF Fail
    <3>2. CASE /\ Owns(w)
               /\ ~cancel_requested[claimed[w].key]
               /\ Finish(claimed[w].key, "failed")
      BY <2>7, <3>2, ClaimedKey DEF Fail, Finish, Owns, TypeOK, InvStatusOf
    <3> QED
      BY <2>7, <3>1, <3>2 DEF Fail
  <2> QED
    BY OutcomeActions, <2>1, <2>2, <2>3, <2>4, <2>5, <2>6, <2>7
<1>2. StatusesAgree'
  BY <1>1 DEF StatusesAgree
<1>3. CancelBeatsResult'
  BY <1>1 DEF CancelBeatsResult
<1>4. TokensAreFresh'
  BY <1>1 DEF TokensAreFresh
<1> QED
  BY <1>2, <1>3, <1>4

-------------------------------------------------------------------------------
(* What a step may do to a worker: nothing, forget, claim, or go on.       *)
Stays(w) == pc'[w] = pc[w] /\ claimed'[w] = claimed[w] /\ result'[w] = result[w]
Claims(w) ==
    /\ pc'[w] = "claimed"
    /\ claimed'[w] \in ClaimedRow
    /\ claimed'[w].token = clock
    /\ clock # 0
    /\ clock' = clock + 1
    /\ \A v \in Workers \ {w} : Stays(v)
GoesOn(w) ==
    /\ pc[w] # "idle"
    /\ claimed'[w] = claimed[w]
    /\ pc'[w] \in BehindExecute => result'[w] \in Results
    /\ clock' = clock

(* Every step is one of these four for each worker, and a claim leaves the *)
(* other workers alone.                                                    *)
LEMMA WorkerSteps ==
    ASSUME IInv, [Next]_vars, NEW v \in Workers
    PROVE  Stays(v) \/ pc'[v] = "idle" \/ Claims(v) \/ GoesOn(v)
<1> DEFINE Goal == Stays(v) \/ pc'[v] = "idle" \/ Claims(v) \/ GoesOn(v)
<1> USE DEF IInv, jobs, investigations, tables, workers, faults
<1>1. ASSUME NEW w \in Workers, Release(w) PROVE Goal
  BY <1>1 DEF Release, TypeOK, Stays
<1>2. ASSUME UNCHANGED workers PROVE Goal
  BY <1>2 DEF Stays
<1>3. ASSUME NEW w \in Workers, NEW k \in Keys, NEW p \in Profiles, ClaimNext(w, k, p)
      PROVE  Goal
  <2>1. CASE v # w
    BY <1>3, <2>1 DEF ClaimNext, TypeOK, Stays
  <2>2. CASE v = w
    <3>1. Backfilled(p)[k] \in Profiles
      BY <1>3 DEF ClaimNext, TypeOK, Claimable, Backfilled, StatusesAgree, InvStatusOf
    <3>2. claimed'[w] \in ClaimedRow /\ claimed'[w].token = clock
      BY <1>3, <3>1 DEF ClaimNext, TypeOK, ClaimedRow
    <3>3. clock # 0
      BY DEF TypeOK, TokensAreFresh
    <3>4. \A u \in Workers \ {w} : Stays(u)
      BY <1>3 DEF ClaimNext, TypeOK, Stays
    <3> QED
      BY <1>3, <2>2, <3>2, <3>3, <3>4 DEF ClaimNext, TypeOK, Claims
  <2> QED
    BY <2>1, <2>2
<1>4. ASSUME NEW w \in Workers, CancelAtBoundary(w) PROVE Goal
  BY <1>4 DEF CancelAtBoundary, Goto, TypeOK, Stays, GoesOn, WorkersOK, AfterBoundary,
     BoundaryPcs, BehindExecute, BehindSynthesize, BehindAudit, Completing
<1>5. ASSUME NEW w \in Workers, RecordStep(w) PROVE Goal
  BY <1>5 DEF RecordStep, Goto, TypeOK, Stays, GoesOn, WorkersOK, AfterRecord,
     RecordPcs, BehindExecute, BehindSynthesize, BehindAudit, Completing
<1>6. ASSUME NEW w \in Workers, NEW r \in Results, ExecuteReturns(w, r) PROVE Goal
  BY <1>6 DEF ExecuteReturns, TypeOK, Stays, GoesOn
<1>7. ASSUME NEW w \in Workers, ReportReturns(w) \/ StageRaises(w) \/ CompletionRejected(w)
      PROVE  Goal
  BY <1>7 DEF ReportReturns, StageRaises, CompletionRejected, Goto, TypeOK, Stays,
     GoesOn, WorkersOK, BehindExecute, BehindSynthesize, BehindAudit, Completing
<1>8. ASSUME NEW w \in Workers, RunOnce(w) PROVE Goal
  BY <1>1, <1>4, <1>5, <1>6, <1>7, <1>8 DEF RunOnce, MarkCancelled, Complete, Fail
<1>9. ASSUME NEW w \in Workers, RenewLease(w) \/ Crash(w) PROVE Goal
  BY <1>1, <1>2, <1>9 DEF RenewLease, Crash
<1>10. ASSUME NEW k \in Keys,
              \/ \E p \in Profiles : Create(k, p)
              \/ Cancel(k) \/ OrphanExpires(k) \/ StalledExpires(k)
       PROVE  Goal
  BY <1>2, <1>10 DEF Create, Cancel, OrphanExpires, StalledExpires
<1>11. ASSUME NEW r \in Regenerators,
              \/ \E k \in Keys, p \in Profiles : GetRegenerationSource(r, k, p)
              \/ AttachReportArtifact(r) \/ RegenerationAborts(r)
       PROVE  Goal
  BY <1>2, <1>11 DEF GetRegenerationSource, AttachReportArtifact, RegenerationAborts
<1> QED
  BY <1>2, <1>3, <1>8, <1>9, <1>10, <1>11 DEF Next, Claim, Quiescent, vars

(* A worker keeps its claim until it forgets it, and only a claim brings a *)
(* new token into play.                                                    *)
LEMMA NextWorkers == IInv /\ [Next]_vars => WorkersOK' /\ TokensAreUnique'
<1> SUFFICES ASSUME IInv, [Next]_vars PROVE WorkersOK' /\ TokensAreUnique'
  OBVIOUS
<1> USE DEF IInv
<1>1. clock \in Nat /\ clock' \in Nat /\ clock' >= clock
  <2>1. clock' = clock \/ clock' = clock + 1
    BY OutcomeActions DEF outcomes, Create, Cancel, ClaimNext, MarkCancelled, Complete, Fail
  <2> QED
    BY <2>1 DEF TypeOK
<1>2. WorkersOK'
  <2> SUFFICES ASSUME NEW w \in Workers
               PROVE  /\ pc'[w] # "idle" => /\ claimed'[w] \in ClaimedRow
                                            /\ claimed'[w].token < clock'
                                            /\ claimed'[w].token # 0
                      /\ pc'[w] \in BehindExecute => result'[w] \in Results
    BY DEF WorkersOK
  <2>1. claimed[w] \in ClaimedRow => claimed[w].token \in Nat
    BY DEF ClaimedRow
  <2>2. CASE Stays(w)
    BY <1>1, <2>1, <2>2 DEF Stays, WorkersOK
  <2>3. CASE pc'[w] = "idle"
    BY <2>3 DEF BehindExecute, BehindSynthesize, BehindAudit, Completing
  <2>4. CASE Claims(w)
    BY <1>1, <2>4 DEF Claims, BehindExecute, BehindSynthesize, BehindAudit, Completing
  <2>5. CASE GoesOn(w)
    BY <2>5 DEF GoesOn, WorkersOK
  <2> QED
    BY WorkerSteps, <2>2, <2>3, <2>4, <2>5
<1>3. TokensAreUnique'
  BY <1>1, WorkerSteps DEF TokensAreUnique, WorkersOK, Stays, Claims, GoesOn
<1> QED
  BY <1>2, <1>3
-------------------------------------------------------------------------------
(* Six operations touch an outcome, two more a trail, a profile or an      *)
(* artifact.                                                               *)
published == <<outcomes, artifact, steps, report_profile>>

(* The actions that can publish an event.                                  *)
LEMMA PublishActions ==
    ASSUME [Next]_vars
    PROVE  \/ UNCHANGED published
           \/ \E k \in Keys, p \in Profiles : Create(k, p)
           \/ \E k \in Keys : Cancel(k)
           \/ \E w \in Workers, k \in Keys, p \in Profiles : ClaimNext(w, k, p)
           \/ \E w \in Workers : MarkCancelled(w) \/ Complete(w) \/ Fail(w) \/ RecordStep(w)
           \/ \E r \in Regenerators : AttachReportArtifact(r)
<1> USE DEF published, outcomes, jobs, investigations, tables
<1>1. ASSUME NEW w \in Workers, RunOnce(w)
      PROVE  \/ UNCHANGED published
             \/ MarkCancelled(w) \/ Complete(w) \/ Fail(w) \/ RecordStep(w)
  BY <1>1 DEF RunOnce, CancelAtBoundary, ExecuteReturns, ReportReturns,
     StageRaises, CompletionRejected
<1>2. ASSUME NEW w \in Workers, RenewLease(w) \/ Crash(w)
      PROVE  UNCHANGED published
  BY <1>2 DEF RenewLease, Crash
<1>3. ASSUME NEW k \in Keys, OrphanExpires(k) \/ StalledExpires(k)
      PROVE  UNCHANGED published
  BY <1>3 DEF OrphanExpires, StalledExpires
<1>4. ASSUME NEW r \in Regenerators,
             \/ \E k \in Keys, p \in Profiles : GetRegenerationSource(r, k, p)
             \/ RegenerationAborts(r)
      PROVE  UNCHANGED published
  BY <1>4 DEF GetRegenerationSource, RegenerationAborts
<1>5. UNCHANGED vars => UNCHANGED published
  BY DEF vars
<1> QED
  BY <1>1, <1>2, <1>3, <1>4, <1>5 DEF Next, Claim, Quiescent

(* The first writer of a step wins: nothing recorded is ever replaced.     *)
LEMMA StepsGrow ==
    ASSUME IInv, [Next]_vars, NEW k \in Keys, NEW s \in Stages, steps[k][s] # None
    PROVE  steps'[k][s] = steps[k][s]
<1> USE DEF IInv
<1>1. CASE UNCHANGED steps
  BY <1>1
<1>2. ASSUME NEW w \in Workers, RecordStep(w) PROVE steps'[k][s] = steps[k][s]
  BY <1>2, StageTables DEF RecordStep, TypeOK
<1>3. ASSUME NEW w \in Workers, Complete(w) PROVE steps'[k][s] = steps[k][s]
  BY <1>3 DEF Complete, MayComplete, TypeOK
<1>4. ASSUME NEW r \in Regenerators, AttachReportArtifact(r)
      PROVE  steps'[k][s] = steps[k][s]
  BY <1>4 DEF AttachReportArtifact, TypeOK
<1> QED
  BY PublishActions, <1>1, <1>2, <1>3, <1>4 DEF published, Create, Cancel, ClaimNext,
     MarkCancelled, Fail

(* Artifact, REPORT step, report and pinned profile are written together.  *)
LEMMA NextPublished == IInv /\ [Next]_vars => PublishedTogether' /\ AbsentIsBlank'
<1> SUFFICES ASSUME IInv, [Next]_vars, NEW j \in Keys
             PROVE  /\ artifact'[j] # None =>
                          /\ inv_status'[j] = "completed"
                          /\ artifact'[j].source = report'[j]
                          /\ artifact'[j].source = steps'[j]["REPORT"]
                          /\ artifact'[j].profile = report_profile'[j]
                    /\ status'[j] = "succeeded" /\ claim_token'[j] # 0
                          => artifact'[j] # None
                    /\ artifact'[j] = None => steps'[j]["REPORT"] = None
                    /\ status'[j] = "absent" => report_profile'[j] = None
  BY DEF PublishedTogether, AbsentIsBlank
<1> DEFINE Goal ==
        /\ artifact'[j] # None =>
              /\ inv_status'[j] = "completed"
              /\ artifact'[j].source = report'[j]
              /\ artifact'[j].source = steps'[j]["REPORT"]
              /\ artifact'[j].profile = report_profile'[j]
        /\ status'[j] = "succeeded" /\ claim_token'[j] # 0 => artifact'[j] # None
        /\ artifact'[j] = None => steps'[j]["REPORT"] = None
        /\ status'[j] = "absent" => report_profile'[j] = None
<1> USE DEF IInv, PublishedTogether, AbsentIsBlank, StatusesAgree
<1>1. CASE UNCHANGED published
  BY <1>1 DEF published, outcomes
<1>2. ASSUME NEW k \in Keys, NEW p \in Profiles, Create(k, p) PROVE Goal
  <2>1. CASE status[k] = "absent"
    <3>1. CASE j = k
      <4>1. /\ status'[k] = "queued" /\ inv_status'[k] = "queued"
            /\ UNCHANGED <<artifact, steps, report, claim_token>>
        BY <1>2, <2>1 DEF Create, TypeOK
      <4>2. artifact[k] = None /\ steps[k]["REPORT"] = None
        BY <2>1, <3>1 DEF InvStatusOf
      <4> QED
        BY <3>1, <4>1, <4>2
    <3>2. CASE j # k
      <4>1. /\ status'[j] = status[j] /\ inv_status'[j] = inv_status[j]
            /\ UNCHANGED <<artifact, steps, report, claim_token>>
        BY <1>2, <2>1, <3>2 DEF Create, TypeOK
      <4>2. report_profile'[j] = Backfilled(p)[j]
        BY <1>2, <2>1, <3>2 DEF Create, Backfilled
      <4> QED
        BY <4>1, <4>2 DEF Backfilled, InvStatusOf
    <3> QED
      BY <3>1, <3>2
  <2>2. CASE status[k] # "absent"
    <3>1. UNCHANGED <<status, inv_status, artifact, steps, report, claim_token>>
      BY <1>2, <2>2 DEF Create
    <3>2. report_profile'[j] = Backfilled(p)[j]
      BY <1>2, <2>2 DEF Create
    <3> QED
      BY <3>1, <3>2 DEF Backfilled, InvStatusOf
  <2> QED
    BY <2>1, <2>2
<1>3. ASSUME NEW k \in Keys, Cancel(k) PROVE Goal
  BY <1>3 DEF Cancel, TypeOK, InvStatusOf
<1>4. ASSUME NEW w \in Workers, NEW k \in Keys, NEW p \in Profiles, ClaimNext(w, k, p)
      PROVE  Goal
  BY <1>4 DEF ClaimNext, Claimable, Backfilled, TypeOK, InvStatusOf
<1>5. ASSUME NEW w \in Workers, MarkCancelled(w) PROVE Goal
  <2>1. CASE UNCHANGED <<status, lease, inv_status>>
    BY <1>5, <2>1 DEF MarkCancelled
  <2>2. CASE Owns(w) /\ Finish(claimed[w].key, "cancelled")
    BY <1>5, <2>2, ClaimedKey DEF MarkCancelled, Finish, Owns, TypeOK, InvStatusOf
  <2> QED
    BY <1>5, <2>1, <2>2 DEF MarkCancelled
<1>6. ASSUME NEW w \in Workers, Complete(w) PROVE Goal
  <2> DEFINE k == claimed[w].key
  <2>1. /\ k \in Keys
        /\ claimed[w].profile = report_profile[k]
        /\ claimed[w].profile \in Profiles
        /\ result[w] \in Results
    BY <1>6, ClaimedKey DEF Complete, MayComplete, WorkersOK, BehindExecute,
       BehindSynthesize, BehindAudit, Completing
  <2>2. CASE j = k
    <3>1. artifact'[j] = [source |-> result[w], profile |-> claimed[w].profile]
      BY <1>6, <2>2 DEF Complete, TypeOK
    <3>2. artifact'[j] # None
      BY <2>1, <3>1, QueueAssumption DEF Artifact
    <3>3. /\ inv_status'[j] = "completed" /\ status'[j] = "succeeded"
          /\ report'[j] = result[w] /\ steps'[j]["REPORT"] = result[w]
          /\ report_profile'[j] = report_profile[j]
      BY <1>6, <2>2 DEF Complete, TypeOK, Stages
    <3> QED
      BY <2>1, <2>2, <3>1, <3>2, <3>3
  <2>3. CASE j # k
    BY <1>6, <2>3 DEF Complete, TypeOK
  <2> QED
    BY <2>2, <2>3
<1>7. ASSUME NEW w \in Workers, Fail(w) PROVE Goal
  <2>1. CASE UNCHANGED <<status, lease, inv_status>>
    BY <1>7, <2>1 DEF Fail
  <2>2. CASE Owns(w) /\ Finish(claimed[w].key, "failed")
    BY <1>7, <2>2, ClaimedKey DEF Fail, Finish, Owns, TypeOK, InvStatusOf
  <2> QED
    BY <1>7, <2>1, <2>2 DEF Fail
<1>8. ASSUME NEW w \in Workers, RecordStep(w) PROVE Goal
  <2>1. steps'[j]["REPORT"] = steps[j]["REPORT"]
    BY <1>8, StageTables DEF RecordStep, TypeOK, Stages
  <2> QED
    BY <1>8, <2>1 DEF RecordStep, jobs, investigations
<1>9. ASSUME NEW r \in Regenerators, AttachReportArtifact(r) PROVE Goal
  <2> DEFINE k == regen[r].key
  <2>1. CASE UNCHANGED <<artifact, steps, report_profile>>
    BY <1>9, <2>1 DEF AttachReportArtifact, jobs
  <2>2. CASE ~UNCHANGED <<artifact, steps, report_profile>>
    <3>1. /\ k \in Keys /\ regen[r].source \in Results /\ regen[r].profile \in Profiles
      BY <1>9 DEF AttachReportArtifact, TypeOK, Regeneration
    <3>2. /\ inv_status[k] = "completed"
          /\ artifact[k] = None
          /\ regen[r].source = report[k]
          /\ artifact' = [artifact EXCEPT ![k] =
                 [source |-> regen[r].source, profile |-> regen[r].profile]]
          /\ report_profile' = [report_profile EXCEPT ![k] = regen[r].profile]
          /\ steps' = [steps EXCEPT ![k]["REPORT"] =
                           IF @ = None THEN regen[r].source ELSE @]
          /\ UNCHANGED <<status, inv_status, report, claim_token>>
      BY <1>9, <2>2 DEF AttachReportArtifact, jobs
    <3>3. CASE j = k
      <4>1. artifact'[j] = [source |-> regen[r].source, profile |-> regen[r].profile]
        BY <3>2, <3>3 DEF TypeOK
      <4>2. artifact'[j] # None
        BY <3>1, <4>1, QueueAssumption DEF Artifact
      <4>3. steps'[j]["REPORT"] = regen[r].source
        BY <3>1, <3>2, <3>3 DEF TypeOK, Stages
      <4> QED
        BY <3>1, <3>2, <3>3, <4>1, <4>2, <4>3 DEF TypeOK, InvStatusOf
    <3>4. CASE j # k
      BY <3>2, <3>4 DEF TypeOK
    <3> QED
      BY <3>3, <3>4
  <2> QED
    BY <2>1, <2>2
<1> QED
  BY PublishActions, <1>1, <1>2, <1>3, <1>4, <1>5, <1>6, <1>7, <1>8, <1>9
-------------------------------------------------------------------------------
(* A worker past a recording stage finds its row in the trail, because its *)
(* own insert, or the row that made it a no-op, is never removed.          *)
LEMMA NextTrailFollowsPc == IInv /\ [Next]_vars => TrailFollowsPc'
<1> SUFFICES ASSUME IInv, [Next]_vars, NEW v \in Workers, pc'[v] \in BehindPlan
             PROVE  LET k == claimed'[v].key IN
                    /\ steps'[k]["PLAN"] # None
                    /\ pc'[v] \in BehindRun => steps'[k]["RUN"] # None
                    /\ pc'[v] \in BehindSynthesize => steps'[k]["SYNTHESIZE"] # None
                    /\ pc'[v] \in BehindAudit => steps'[k]["AUDIT"] # None
  BY DEF TrailFollowsPc, BehindPlan, BehindRun, BehindExecute, BehindSynthesize
<1> USE DEF IInv
<1> DEFINE k == claimed[v].key
           Trail(c) ==
               /\ c \in BehindPlan => steps'[k]["PLAN"] # None
               /\ c \in BehindRun => steps'[k]["RUN"] # None
               /\ c \in BehindSynthesize => steps'[k]["SYNTHESIZE"] # None
               /\ c \in BehindAudit => steps'[k]["AUDIT"] # None
<1>1. pc[v] # "idle" /\ claimed'[v] = claimed[v] /\ k \in Keys
  <2>1. pc'[v] # "idle" /\ pc'[v] # "claimed"
    BY DEF BehindPlan, BehindRun, BehindExecute, BehindSynthesize, BehindAudit, Completing
  <2>2. ~Claims(v)
    BY <2>1 DEF Claims
  <2> QED
    BY <2>1, <2>2, WorkerSteps, ClaimedKey DEF Stays, GoesOn
<1>2. Trail(pc[v])
  BY <1>1, StepsGrow DEF TrailFollowsPc, Stages
<1>3. \/ pc'[v] = pc[v]
      \/ pc[v] \in BoundaryPcs /\ pc'[v] \in {"cancelling", AfterBoundary[pc[v]]}
      \/ pc[v] \in RecordPcs /\ pc'[v] = AfterRecord[pc[v]] /\ RecordStep(v)
      \/ pc[v] = "executing" /\ pc'[v] = "executed"
      \/ pc[v] = "reporting" /\ pc'[v] = "reported"
      \/ pc'[v] = "errored"
  <2> DEFINE Goal == 
      \/ pc'[v] = pc[v]
      \/ pc[v] \in BoundaryPcs /\ pc'[v] \in {"cancelling", AfterBoundary[pc[v]]}
      \/ pc[v] \in RecordPcs /\ pc'[v] = AfterRecord[pc[v]] /\ RecordStep(v)
      \/ pc[v] = "executing" /\ pc'[v] = "executed"
      \/ pc[v] = "reporting" /\ pc'[v] = "reported"
      \/ pc'[v] = "errored"
  <2>1. pc'[v] # "idle" /\ pc'[v] # "claimed"
    BY DEF BehindPlan, BehindRun, BehindExecute, BehindSynthesize, BehindAudit, Completing
  <2>2. ASSUME NEW w \in Workers, RunOnce(w) PROVE Goal
    <3>1. CASE CancelAtBoundary(w)
      BY <3>1 DEF CancelAtBoundary, Goto, TypeOK
    <3>2. CASE RecordStep(w)
      BY <3>2 DEF RecordStep, Goto, TypeOK
    <3>3. CASE MarkCancelled(w) \/ Complete(w) \/ Fail(w)
      BY <2>1, <3>3 DEF MarkCancelled, Complete, Fail, Release, TypeOK
    <3>4. CASE \/ \E r \in Results : ExecuteReturns(w, r)
               \/ ReportReturns(w) \/ StageRaises(w) \/ CompletionRejected(w)
      BY <3>4 DEF ExecuteReturns, ReportReturns, StageRaises, CompletionRejected, Goto,
         TypeOK
    <3> QED
      BY <2>2, <3>1, <3>2, <3>3, <3>4 DEF RunOnce
  <2>3. ASSUME NEW w \in Workers, Claim(w) \/ RenewLease(w) \/ Crash(w) PROVE Goal
    BY <2>1, <2>3 DEF Claim, ClaimNext, RenewLease, Crash, Release, TypeOK, workers
  <2>4. ASSUME UNCHANGED pc PROVE Goal
    BY <2>4
  <2> QED
    BY <2>2, <2>3, <2>4 DEF Next, Create, Cancel, OrphanExpires, StalledExpires,
       GetRegenerationSource, AttachReportArtifact, RegenerationAborts, Quiescent,
       vars, workers
<1>4. Trail(pc'[v])
  <2>1. CASE pc[v] \in RecordPcs /\ pc'[v] = AfterRecord[pc[v]] /\ RecordStep(v)
    <3>1. /\ result[v] # None \/ pc[v] \in {"plan", "run"}
          /\ "request" # None
      BY <2>1, QueueAssumption DEF WorkersOK, RecordPcs, BehindExecute, BehindSynthesize,
         BehindAudit
    <3>2. StageOf[pc[v]] \in Stages
      BY <2>1, StageTables
    <3>3. steps'[k][StageOf[pc[v]]] # None
      BY <1>1, <2>1, <3>1, <3>2 DEF RecordStep, TypeOK
    <3> QED
      BY <1>2, <2>1, <3>3 DEF RecordPcs, StageOf, AfterRecord, BehindPlan, BehindRun,
         BehindExecute, BehindSynthesize, BehindAudit, Completing
  <2>2. CASE pc[v] \in BoundaryPcs /\ pc'[v] \in {"cancelling", AfterBoundary[pc[v]]}
    BY <1>2, <2>2 DEF BoundaryPcs, AfterBoundary, BehindPlan, BehindRun,
       BehindExecute, BehindSynthesize, BehindAudit, Completing
  <2>3. CASE pc'[v] = pc[v] \/ pc'[v] = "errored"
    BY <1>2, <2>3 DEF BehindPlan, BehindRun, BehindExecute, BehindSynthesize, BehindAudit,
       Completing
  <2>4. CASE \/ pc[v] = "executing" /\ pc'[v] = "executed"
             \/ pc[v] = "reporting" /\ pc'[v] = "reported"
    BY <1>2, <2>4 DEF BehindPlan, BehindRun, BehindExecute, BehindSynthesize, BehindAudit,
       Completing
  <2> QED
    BY <1>3, <2>1, <2>2, <2>3, <2>4
<1> QED
  BY <1>1, <1>4

(* The completing worker stands behind its own four records.               *)
LEMMA NextTrailIsComplete == IInv /\ [Next]_vars => TrailIsComplete'
<1> SUFFICES ASSUME IInv, [Next]_vars, NEW j \in Keys, NEW s \in Stages,
                    status'[j] = "succeeded", claim_token'[j] # 0
             PROVE  steps'[j][s] # None
  BY DEF TrailIsComplete
<1> USE DEF IInv
<1>1. CASE status[j] = "succeeded" /\ claim_token[j] = claim_token'[j]
  BY <1>1, StepsGrow DEF TrailIsComplete
<1>2. ASSUME NEW w \in Workers, Complete(w), claimed[w].key = j PROVE steps'[j][s] # None
  <2>1. pc[w] \in BehindPlan /\ pc[w] \in BehindRun /\ pc[w] \in BehindSynthesize
        /\ pc[w] \in BehindAudit /\ pc[w] \in BehindExecute
    BY <1>2 DEF Complete, BehindPlan, BehindRun, BehindExecute, BehindSynthesize,
       BehindAudit, Completing
  <2>2. CASE s = "REPORT"
    <3>1. steps'[j]["REPORT"] = result[w]
      BY <1>2 DEF Complete, TypeOK, Stages
    <3> QED
      BY <2>1, <2>2, <3>1, QueueAssumption DEF WorkersOK
  <2>3. CASE s # "REPORT"
    BY <1>2, <2>1, <2>3, StepsGrow DEF TrailFollowsPc, Stages
  <2> QED
    BY <2>2, <2>3
<1>3. CASE UNCHANGED outcomes
  BY <1>1, <1>3 DEF outcomes
<1>4. ASSUME NEW k \in Keys, (\E p \in Profiles : Create(k, p)) \/ Cancel(k)
      PROVE  status[j] = "succeeded" /\ claim_token[j] = claim_token'[j]
  BY <1>4 DEF Create, Cancel, TypeOK
<1>5. ASSUME NEW w \in Workers, NEW k \in Keys, NEW p \in Profiles, ClaimNext(w, k, p)
      PROVE  status[j] = "succeeded" /\ claim_token[j] = claim_token'[j]
  BY <1>5 DEF ClaimNext, TypeOK
<1>6. ASSUME NEW w \in Workers,
             \/ MarkCancelled(w) \/ Fail(w)
             \/ Complete(w) /\ claimed[w].key # j
      PROVE  status[j] = "succeeded" /\ claim_token[j] = claim_token'[j]
  BY <1>6 DEF MarkCancelled, Fail, Complete, Finish, TypeOK
<1> QED
  BY OutcomeActions, <1>1, <1>2, <1>3, <1>4, <1>5, <1>6
-------------------------------------------------------------------------------
(* The invariant.                                                          *)
(* The initial states satisfy the invariant.                               *)
LEMMA InitIInv == Init => IInv
<1> SUFFICES ASSUME Init PROVE IInv
  OBVIOUS
<1>1. TypeOK
  BY InitTypeOK
<1>2. \A w \in Workers : pc[w] = "idle"
  BY DEF Init
<1>3. WorkersOK /\ TokensAreUnique /\ TrailFollowsPc
  BY <1>2 DEF WorkersOK, TokensAreUnique, TrailFollowsPc, BehindPlan, BehindRun,
     BehindExecute, BehindSynthesize, BehindAudit, Completing
<1>4. TokensAreFresh /\ CancelBeatsResult /\ PublishedTogether /\ AbsentIsBlank
      /\ TrailIsComplete
  BY DEF Init, TokensAreFresh, CancelBeatsResult, PublishedTogether, AbsentIsBlank,
     TrailIsComplete, Stages
<1>5. StatusesAgree
  BY DEF Init, InitialRow, StatusesAgree, InvStatusOf
<1> QED
  BY <1>1, <1>3, <1>4, <1>5 DEF IInv

(* Every step preserves the invariant.                                     *)
LEMMA NextIInv == IInv /\ [Next]_vars => IInv'
  BY NextTypeOK, NextStatuses, NextWorkers, NextPublished, NextTrailFollowsPc,
     NextTrailIsComplete DEF IInv

(* The inductive invariant holds in every reachable state.                 *)
THEOREM Invariance == Spec => []IInv
  BY InitIInv, NextIInv, PTL DEF Spec

(* Every table row and every worker's memory keeps its type.               *)
THEOREM TypeCorrect == Spec => []TypeOK
<1>1. IInv => TypeOK
  BY DEF IInv
<1> QED
  BY Invariance, <1>1, PTL

(* The two rows a client polls always tell the same story.                 *)
THEOREM StatusAgreement == Spec => []StatusesAgree
<1>1. IInv => StatusesAgree
  BY DEF IInv
<1> QED
  BY Invariance, <1>1, PTL

(* No accepted cancel is overtaken by a success or a failure, however many *)
(* workers hold stale claims on the job.                                   *)
THEOREM CancelPrecedence == Spec => []CancelBeatsResult
<1>1. IInv => CancelBeatsResult
  BY DEF IInv
<1> QED
  BY Invariance, <1>1, PTL

(* Claim tokens are never shared by two workers at work.                   *)
THEOREM ClaimExclusion == Spec => []ClaimsAreExclusive
<1>1. IInv => ClaimsAreExclusive
  BY DEF IInv, TokensAreUnique, ClaimsAreExclusive
<1> QED
  BY Invariance, <1>1, PTL

(* A report and its artifact are published together, from one source and   *)
(* under one profile.                                                      *)
THEOREM PublicationAtomicity == Spec => []PublishedTogether
<1>1. IInv => PublishedTogether
  BY DEF IInv
<1> QED
  BY Invariance, <1>1, PTL

(* A job completed by a worker has all five steps in its audit trail.      *)
THEOREM TrailCompleteness == Spec => []TrailIsComplete
<1>1. IInv => TrailIsComplete
  BY DEF IInv
<1> QED
  BY Invariance, <1>1, PTL

-------------------------------------------------------------------------------
(* Action properties.                                                      *)

(* Outcomes, reports, artifacts and recorded steps never change again.     *)
THEOREM OutcomeFinality == Spec => OutcomeIsFinal
<1> DEFINE Final(k) ==
        /\ status[k] \in Terminal =>
              /\ status'[k] = status[k]
              /\ cancel_requested'[k] = cancel_requested[k]
              /\ inv_status'[k] = inv_status[k]
              /\ report'[k] = report[k]
        /\ artifact[k] # None => artifact'[k] = artifact[k]
        /\ \A s \in Stages : steps[k][s] # None => steps'[k][s] = steps[k][s]
<1>1. ASSUME IInv, [Next]_vars, NEW j \in Keys PROVE Final(j)
  <2> USE DEF IInv
  <2>1. \A s \in Stages : steps[j][s] # None => steps'[j][s] = steps[j][s]
    BY <1>1, StepsGrow
  <2> DEFINE Kept ==
        /\ status[j] \in Terminal =>
              /\ status'[j] = status[j]
              /\ cancel_requested'[j] = cancel_requested[j]
              /\ inv_status'[j] = inv_status[j]
              /\ report'[j] = report[j]
        /\ artifact[j] # None => artifact'[j] = artifact[j]
  <2>2. CASE UNCHANGED published
    BY <2>2 DEF published, outcomes
  <2>3. ASSUME NEW k \in Keys, NEW p \in Profiles, Create(k, p) PROVE Kept
    BY <1>1, <2>3 DEF Create, TypeOK, Terminal
  <2>4. ASSUME NEW k \in Keys, Cancel(k) PROVE Kept
    BY <1>1, <2>4 DEF Cancel, TypeOK, Terminal
  <2>5. ASSUME NEW w \in Workers, NEW k \in Keys, NEW p \in Profiles, ClaimNext(w, k, p)
        PROVE  Kept
    BY <1>1, <2>5 DEF ClaimNext, Claimable, TypeOK, Terminal, StatusesAgree, InvStatusOf
  <2>6. ASSUME NEW w \in Workers, MarkCancelled(w) \/ Fail(w) PROVE Kept
    <3>1. CASE UNCHANGED <<status, lease, inv_status>>
      BY <2>6, <3>1 DEF MarkCancelled, Fail
    <3>2. CASE Owns(w) /\ \E o \in {"cancelled", "failed"} : Finish(claimed[w].key, o)
      BY <1>1, <2>6, <3>2 DEF MarkCancelled, Fail, Finish, Owns, TypeOK, Terminal
    <3> QED
      BY <2>6, <3>1, <3>2 DEF MarkCancelled, Fail
  <2>7. ASSUME NEW w \in Workers, Complete(w) PROVE Kept
    BY <1>1, <2>7 DEF Complete, MayComplete, Owns, TypeOK, Terminal
  <2>8. ASSUME NEW w \in Workers, RecordStep(w) PROVE Kept
    BY <2>8 DEF RecordStep, jobs, investigations
  <2>9. ASSUME NEW r \in Regenerators, AttachReportArtifact(r) PROVE Kept
    BY <1>1, <2>9 DEF AttachReportArtifact, TypeOK, jobs
  <2> QED
    BY <1>1, PublishActions, <2>1, <2>2, <2>3, <2>4, <2>5, <2>6, <2>7, <2>8, <2>9
<1>2. IInv /\ [Next]_vars => [\A k \in Keys : Final(k)]_vars
  BY <1>1
<1> QED
  BY Invariance, <1>2, PTL DEF Spec, OutcomeIsFinal
(* Only the worker holding the latest claim token ends a running job.      *)
THEOREM OwnerEnds == Spec => OnlyOwnerEnds
<1> DEFINE Owned(k) ==
        status[k] = "running" /\ status'[k] # "running" =>
            \E w \in Workers :
               /\ pc[w] \in {"completing", "failing", "cancelling"}
               /\ claimed[w].key = k
               /\ claimed[w].token = claim_token[k]
<1>1. ASSUME IInv, [Next]_vars, NEW j \in Keys PROVE Owned(j)
  <2> SUFFICES ASSUME status[j] = "running", status'[j] # "running" PROVE Owned(j)
    OBVIOUS
  <2> USE DEF IInv
  <2>1. ~UNCHANGED outcomes
    BY DEF outcomes
  <2>2. ASSUME NEW k \in Keys, (\E p \in Profiles : Create(k, p)) \/ Cancel(k)
        PROVE  FALSE
    BY <1>1, <2>2 DEF Create, Cancel, TypeOK
  <2>3. ASSUME NEW w \in Workers, NEW k \in Keys, NEW p \in Profiles, ClaimNext(w, k, p)
        PROVE  FALSE
    BY <1>1, <2>3 DEF ClaimNext, TypeOK
  <2>4. ASSUME NEW w \in Workers, MarkCancelled(w) \/ Complete(w) \/ Fail(w)
        PROVE  Owned(j)
    <3>1. pc[w] \in {"completing", "failing", "cancelling"}
      BY <2>4 DEF MarkCancelled, Complete, Fail
    <3>2. Owns(w) /\ claimed[w].key = j
      BY <1>1, <2>4 DEF MarkCancelled, Complete, MayComplete, Fail, Finish, TypeOK
    <3> QED
      BY <3>1, <3>2 DEF Owns
  <2> QED
    BY <1>1, OutcomeActions, <2>1, <2>2, <2>3, <2>4
<1>2. IInv /\ [Next]_vars => [\A k \in Keys : Owned(k)]_vars
  BY <1>1
<1> QED
  BY Invariance, <1>2, PTL DEF Spec, OnlyOwnerEnds

(* A pinned report profile is never replaced.                              *)
THEOREM ProfilePinning == Spec => ProfileIsPinned
<1> DEFINE Pinned(k) == report_profile[k] # None => report_profile'[k] = report_profile[k]
<1>1. ASSUME IInv, [Next]_vars, NEW j \in Keys PROVE Pinned(j)
  <2> USE DEF IInv
  <2>1. CASE UNCHANGED report_profile
    BY <2>1
  <2>2. ASSUME NEW k \in Keys, NEW p \in Profiles, Create(k, p) PROVE Pinned(j)
    <3>1. CASE status[k] = "absent" /\ j = k
      BY <1>1, <3>1 DEF AbsentIsBlank
    <3>2. CASE status[k] # "absent" \/ j # k
      BY <1>1, <2>2, <3>2 DEF Create, Backfilled, TypeOK
    <3> QED
      BY <3>1, <3>2
  <2>3. ASSUME NEW w \in Workers, NEW k \in Keys, NEW p \in Profiles, ClaimNext(w, k, p)
        PROVE  Pinned(j)
    BY <2>3 DEF ClaimNext, Backfilled
  <2>4. ASSUME NEW r \in Regenerators, AttachReportArtifact(r) PROVE Pinned(j)
    BY <1>1, <2>4 DEF AttachReportArtifact, TypeOK
  <2> QED
    BY <1>1, PublishActions, <2>1, <2>2, <2>3, <2>4 DEF published, Cancel, MarkCancelled,
       Complete, Fail, RecordStep, investigations
<1>2. IInv /\ [Next]_vars => [\A k \in Keys : Pinned(k)]_vars
  BY <1>1
<1> QED
  BY Invariance, <1>2, PTL DEF Spec, ProfileIsPinned

-------------------------------------------------------------------------------
(* The refinement: an abstract step is taken by the six actions that touch *)
(* an outcome and by the regeneration; every other action stutters.        *)

Source(k) == IF artifact[k] = None THEN None ELSE artifact[k].source

(* The initial tables are initial rows of the lifecycle.                   *)
LEMMA InitRefines == Init => Lifecycle!Init
<1> SUFFICES ASSUME Init PROVE Lifecycle!Init
  OBVIOUS
<1>1. [k \in Keys |-> IF artifact[k] = None THEN None ELSE artifact[k].source]
        = [k \in Keys |-> None]
  BY DEF Init
<1>2. ASSUME NEW k \in Keys PROVE Lifecycle!LegacyRow(k) \/ Lifecycle!FreshRow(k)
  <2>1. InitialRow(k)
    BY DEF Init
  <2> QED
    BY <1>1, <2>1 DEF Init, InitialRow, Lifecycle!LegacyRow, Lifecycle!FreshRow
<1> QED
  BY <1>1, <1>2 DEF Init, Lifecycle!Init

(* Every step of the queue is a step of the lifecycle or changes nothing a *)
(* client sees.                                                            *)
LEMMA NextRefines == IInv /\ [Next]_vars => [Lifecycle!Next]_Lifecycle!vars
<1> SUFFICES ASSUME IInv, [Next]_vars PROVE [Lifecycle!Next]_Lifecycle!vars
  OBVIOUS
<1> USE DEF IInv
<1>1. CASE UNCHANGED published
  BY <1>1 DEF published, outcomes, Lifecycle!vars
<1>2. ASSUME NEW k \in Keys, NEW p \in Profiles, Create(k, p)
      PROVE  Lifecycle!Next \/ UNCHANGED Lifecycle!vars
  BY <1>2 DEF Create, Lifecycle!Next, Lifecycle!Submit, Lifecycle!vars
<1>3. ASSUME NEW k \in Keys, Cancel(k) PROVE Lifecycle!Next
  <2>1. status' = [status EXCEPT ![k] = IF @ = "queued" THEN "cancelled" ELSE @]
    BY <1>3 DEF Cancel, TypeOK
  <2> QED
    BY <1>3, <2>1 DEF Cancel, Lifecycle!Next, Lifecycle!RequestCancel
<1>4. ASSUME NEW w \in Workers, NEW k \in Keys, NEW p \in Profiles, ClaimNext(w, k, p)
      PROVE  Lifecycle!Next \/ UNCHANGED Lifecycle!vars
  <2>1. CASE status[k] = "queued"
    BY <1>4, <2>1 DEF ClaimNext, Lifecycle!Next, Lifecycle!Start
  <2>2. CASE status[k] = "running"
    <3>1. status' = status
      BY <1>4, <2>2 DEF ClaimNext, TypeOK
    <3> QED
      BY <1>4, <3>1 DEF ClaimNext, Lifecycle!vars
  <2> QED
    BY <1>4, <2>1, <2>2 DEF ClaimNext, Claimable
<1>5. ASSUME NEW w \in Workers, MarkCancelled(w)
      PROVE  Lifecycle!Next \/ UNCHANGED Lifecycle!vars
  <2>1. CASE UNCHANGED <<status, lease, inv_status>>
    BY <1>5, <2>1 DEF MarkCancelled, Lifecycle!vars
  <2>2. CASE /\ Owns(w) /\ cancel_requested[claimed[w].key]
             /\ Finish(claimed[w].key, "cancelled")
    BY <1>5, <2>2, ClaimedKey DEF MarkCancelled, Owns, Finish, Lifecycle!Next,
       Lifecycle!Cancel
  <2> QED
    BY <1>5, <2>1, <2>2 DEF MarkCancelled
<1>6. ASSUME NEW w \in Workers, Fail(w)
      PROVE  Lifecycle!Next \/ UNCHANGED Lifecycle!vars
  <2>1. CASE UNCHANGED <<status, lease, inv_status>>
    BY <1>6, <2>1 DEF Fail, Lifecycle!vars
  <2>2. CASE /\ Owns(w) /\ ~cancel_requested[claimed[w].key]
             /\ Finish(claimed[w].key, "failed")
    BY <1>6, <2>2, ClaimedKey DEF Fail, Owns, Finish, Lifecycle!Next, Lifecycle!Fail
  <2> QED
    BY <1>6, <2>1, <2>2 DEF Fail
<1>7. ASSUME NEW w \in Workers, Complete(w) PROVE Lifecycle!Next
  <2>1. /\ claimed[w].key \in Keys /\ result[w] \in Results
        /\ claimed[w].profile \in Profiles
    BY <1>7, ClaimedKey DEF Complete, WorkersOK, BehindExecute, BehindSynthesize,
       BehindAudit, Completing
  <2> PICK k \in Keys, r \in Results : k = claimed[w].key /\ r = result[w]
    BY <2>1
  <2>2. [source |-> result[w], profile |-> claimed[w].profile] # None
    BY <2>1, QueueAssumption DEF Artifact
  <2>3. artifact' = [artifact EXCEPT ![k] =
                        [source |-> result[w], profile |-> claimed[w].profile]]
    BY <1>7 DEF Complete
  <2>4. [j \in Keys |-> Source(j)]' = [[j \in Keys |-> Source(j)] EXCEPT ![k] = r]
    BY <2>1, <2>2, <2>3 DEF Source, TypeOK
  <2>5. Lifecycle!Succeed(k, r)
    BY <1>7, <2>1, <2>4 DEF Complete, MayComplete, Owns, Source, Lifecycle!Succeed
  <2> QED
    BY <2>5 DEF Lifecycle!Next
<1>8. ASSUME NEW w \in Workers, RecordStep(w) PROVE UNCHANGED Lifecycle!vars
  BY <1>8 DEF RecordStep, jobs, investigations, Lifecycle!vars
<1>9. ASSUME NEW r \in Regenerators, AttachReportArtifact(r)
      PROVE  Lifecycle!Next \/ UNCHANGED Lifecycle!vars
  <2>1. CASE UNCHANGED <<artifact, steps, report_profile>>
    BY <1>9, <2>1 DEF AttachReportArtifact, jobs, Lifecycle!vars
  <2>2. CASE ~UNCHANGED <<artifact, steps, report_profile>>
    <3>1. /\ regen[r].key \in Keys
          /\ regen[r].source \in Results /\ regen[r].profile \in Profiles
      BY <1>9 DEF AttachReportArtifact, TypeOK, Regeneration
    <3> PICK k \in Keys : k = regen[r].key
      BY <3>1
    <3>2. /\ inv_status[k] = "completed"
          /\ artifact[k] = None
          /\ regen[r].source = report[k]
          /\ artifact' = [artifact EXCEPT ![k] =
                 [source |-> regen[r].source, profile |-> regen[r].profile]]
          /\ UNCHANGED <<status, cancel_requested, report>>
      BY <1>9, <2>2 DEF AttachReportArtifact, jobs
    <3>3. [source |-> regen[r].source, profile |-> regen[r].profile] # None
      BY <3>1, QueueAssumption DEF Artifact
    <3>4. [j \in Keys |-> Source(j)]'
            = [[j \in Keys |-> Source(j)] EXCEPT ![k] = report[k]]
      BY <3>1, <3>2, <3>3 DEF Source, TypeOK
    <3>5. status[k] = "succeeded"
      BY <3>1, <3>2 DEF StatusesAgree, InvStatusOf, TypeOK, JobStatus, Terminal
    <3>6. report[k] # None
      BY <3>1, <3>2, QueueAssumption
    <3>7. Lifecycle!Rewrite(k)
      BY <3>1, <3>2, <3>4, <3>5, <3>6 DEF Source, Lifecycle!Rewrite
    <3> QED
      BY <3>7 DEF Lifecycle!Next
  <2> QED
    BY <2>1, <2>2
<1> QED
  BY PublishActions, <1>1, <1>2, <1>3, <1>4, <1>5, <1>6, <1>7, <1>8, <1>9

(* To its clients, the queue of workers, leases and tokens is the          *)
(* lifecycle: queued, running, one outcome, one artifact.                  *)
THEOREM Refinement == Spec => ImplementsLifecycle
  BY Invariance, InitRefines, NextRefines, PTL DEF Spec, ImplementsLifecycle, Lifecycle!Spec
=============================================================================
