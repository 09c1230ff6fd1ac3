------------------------ MODULE InvestigationLifecycle ------------------------
(***************************************************************************)
(* What the durable investigation queue promises its API clients,          *)
(* stripped of workers, leases and claim tokens: every accepted request    *)
(* moves once through queued -> running -> one outcome, a cancel request   *)
(* that was accepted in time always wins over a result, and the report and *)
(* its immutable HTML artifact appear together.  InvestigationQueue, the   *)
(* model of investigation_store.py and investigation_job.py, implements    *)
(* this specification.                                                     *)
(***************************************************************************)
CONSTANTS
    Keys,       \* idempotency keys: one investigation and one job per key
    Results,    \* what an execution may conclude
    None        \* "no value" (SQL NULL)

VARIABLES
    status,     \* the outcome a client polls for
    cancel,     \* the cancel request was accepted before an outcome existed
    report,     \* the report served with the outcome
    artifact    \* the source the published HTML artifact was rendered from

vars == <<status, cancel, report, artifact>>

(* Rows older than the artifact table: finished without an artifact.       *)
LegacyRow(k) ==
    /\ status[k] = "succeeded"
    /\ ~cancel[k]
    /\ artifact[k] = None

FreshRow(k) ==
    /\ status[k] \in {"absent", "queued"}
    /\ ~cancel[k]
    /\ report[k] = None
    /\ artifact[k] = None

Init ==
    /\ status \in [Keys -> {"absent", "queued", "succeeded"}]
    /\ cancel = [k \in Keys |-> FALSE]
    /\ report \in [Keys -> Results \cup {None}]
    /\ artifact = [k \in Keys |-> None]
    /\ \A k \in Keys : LegacyRow(k) \/ FreshRow(k)

Submit(k) ==
    /\ status[k] = "absent"
    /\ status' = [status EXCEPT ![k] = "queued"]
    /\ UNCHANGED <<cancel, report, artifact>>

Start(k) ==
    /\ status[k] = "queued"
    /\ status' = [status EXCEPT ![k] = "running"]
    /\ UNCHANGED <<cancel, report, artifact>>

Succeed(k, r) ==
    /\ status[k] = "running"
    /\ ~cancel[k]
    /\ artifact[k] = None
    /\ status' = [status EXCEPT ![k] = "succeeded"]
    /\ report' = [report EXCEPT ![k] = r]
    /\ artifact' = [artifact EXCEPT ![k] = r]
    /\ UNCHANGED cancel

Fail(k) ==
    /\ status[k] = "running"
    /\ ~cancel[k]
    /\ status' = [status EXCEPT ![k] = "failed"]
    /\ UNCHANGED <<cancel, report, artifact>>

RequestCancel(k) ==
    /\ status[k] \in {"queued", "running"}
    /\ cancel' = [cancel EXCEPT ![k] = TRUE]
    /\ status' = [status EXCEPT ![k] = IF @ = "queued" THEN "cancelled" ELSE @]
    /\ UNCHANGED <<report, artifact>>

Cancel(k) ==
    /\ status[k] = "running"
    /\ cancel[k]
    /\ status' = [status EXCEPT ![k] = "cancelled"]
    /\ UNCHANGED <<cancel, report, artifact>>

(* A legacy investigation gets its artifact later, from its own report.    *)
Rewrite(k) ==
    /\ status[k] = "succeeded"
    /\ artifact[k] = None
    /\ report[k] # None
    /\ artifact' = [artifact EXCEPT ![k] = report[k]]
    /\ UNCHANGED <<status, cancel, report>>

Next ==
    \E k \in Keys :
        \/ Submit(k)
        \/ Start(k)
        \/ \E r \in Results : Succeed(k, r)
        \/ Fail(k)
        \/ RequestCancel(k)
        \/ Cancel(k)
        \/ Rewrite(k)

Spec == Init /\ [][Next]_vars
===============================================================================
