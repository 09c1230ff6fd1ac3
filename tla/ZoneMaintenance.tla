---------------------------- MODULE ZoneMaintenance ----------------------------
(***************************************************************************)
(* One Iceberg table of a zone and those who work on it side by side: the  *)
(* writers of promotion, an operator who compacts it or expires its        *)
(* snapshots, and the watcher that copies it to Parquet for the DuckDB UI. *)
(*                                                                         *)
(* The catalog is external: a commit names the head the table was loaded   *)
(* with and is refused when the head has moved; an overwrite leaves a      *)
(* second snapshot, that of its deletion.  The operator runs one tool at a *)
(* time.  A logical row is an identifier with the number of the snapshot   *)
(* that last wrote it, 0 for none.                                         *)
(***************************************************************************)
EXTENDS FiniteSets, Naturals, Sequences

CONSTANTS
    Ids,            \* identifiers of the table's rows
    Writers,        \* processes that upsert rows
    MinRetained,    \* newest snapshots an expiry keeps
    None,           \* no batch, no token, no directory
    FaultKinds,     \* of this instance: corrupt, export, crash
    MaxFaults,      \* bound: faults in a behaviour
    MaxSnapshots    \* bound: no batch or rewrite starts beyond it

VARIABLES
    \* the table: every snapshot ever committed, those the metadata still
    \* lists, the head of main
    snapshots, onfile, head,
    \* the head each writer's batch was loaded with, or None
    base,
    \* the operator's tool: step, the snapshot a rewrite reads, the head its
    \* verification sees, the snapshots to expire, what the operator is told
    tool, previous, checked, doomed, report,
    \* the watcher: step, token read, token exported, the snapshots that the
    \* live directory holds and the export under way has read, whether the
    \* copy before is kept as a backup
    watcher, token, seen, live, new, backup,
    \* history: the token whose export failed last, whether a copy was made
    skipped, published,
    faults

table == <<snapshots, onfile, head>>
operator == <<tool, previous, checked, doomed, report>>
directories == <<live, new, backup>>
history == <<skipped, published>>
watching == <<watcher, token, seen, directories, history>>
vars == <<table, base, operator, watching, faults>>

-------------------------------------------------------------------------------

ASSUME MaintenanceAssumption ==
    /\ MinRetained \in Nat \ {0}
    /\ None \notin Nat
    /\ MaxFaults \in Nat
    /\ MaxSnapshots \in Nat

Rows == [Ids -> Nat]
NoRows == [i \in Ids |-> 0]
Snapshot == [rows : Rows, scattered : BOOLEAN]
SnapshotId == 0 .. Len(snapshots)      \* 0: the table was never written
MaybeSnapshot == SnapshotId \cup {None}

TypeOK ==
    /\ snapshots \in Seq(Snapshot)
    /\ onfile \subseteq SnapshotId \ {0}
    /\ head \in SnapshotId
    /\ base \in [Writers -> MaybeSnapshot]
    /\ tool \in {"idle", "overwrite", "verify", "rollback", "expire"}
    /\ previous \in SnapshotId
    /\ checked \in SnapshotId
    /\ doomed \subseteq SnapshotId
    /\ report \in {"none", "rewritten", "rolled back"}
    /\ watcher \in {"asleep", "export", "backup", "retire", "publish"}
    /\ {token, seen, live, new, skipped} \subseteq MaybeSnapshot
    /\ {backup, published} \subseteq BOOLEAN
    /\ faults \in Nat

Init ==
    /\ snapshots = <<>>
    /\ onfile = {}
    /\ head = 0
    /\ base = [w \in Writers |-> None]
    /\ tool = "idle"
    /\ previous = 0
    /\ checked = 0
    /\ doomed = {}
    /\ report = "none"
    /\ watcher = "asleep"
    /\ token = None
    /\ seen = None
    /\ live = None
    /\ new = None
    /\ backup = FALSE
    /\ skipped = None
    /\ published = FALSE
    /\ faults = 0

-------------------------------------------------------------------------------
(* The table.  Variants named Mutant... are plausible slips in the code    *)
(* they stand next to; no specification uses them.                         *)

RowsAt(s) == IF s = 0 THEN NoRows ELSE snapshots[s].rows
ScatteredAt(s) == s # 0 /\ snapshots[s].scattered
Now == RowsAt(head)

(* A commit of one or more snapshots moves the head to the last.           *)
Commit(added) ==
    /\ snapshots' = snapshots \o added
    /\ onfile' = onfile \cup (Len(snapshots) + 1 .. Len(snapshots) + Len(added))
    /\ head' = Len(snapshots) + Len(added)

Fault(kind) ==
    /\ kind \in FaultKinds
    /\ faults < MaxFaults
    /\ faults' = faults + 1

-------------------------------------------------------------------------------
(* The writers: _commit_rows of one row, its upsert.                       *)

LoadTable(w) ==
    /\ base[w] = None
    /\ Len(snapshots) < MaxSnapshots
    /\ base' = [base EXCEPT ![w] = head]
    /\ UNCHANGED <<table, operator, watching, faults>>

(* The row gets a file of its own, the others are in other files.          *)
WithRow(i) ==
    [rows |-> [Now EXCEPT ![i] = Len(snapshots) + (IF Now[i] = 0 THEN 1 ELSE 2)],
     scattered |-> \E j \in Ids \ {i} : Now[j] # 0]

Insert(w, i) ==
    /\ base[w] = head
    /\ Now[i] = 0
    /\ Commit(<<WithRow(i)>>)
    /\ base' = [base EXCEPT ![w] = None]
    /\ UNCHANGED <<operator, watching, faults>>

(* A row that is there is overwritten when it is to be replaced: deleted   *)
(* from the file it is in, then written.                                   *)
Replace(w, i) ==
    /\ base[w] = head
    /\ Now[i] # 0
    /\ Commit(<<[rows |-> [Now EXCEPT ![i] = 0], scattered |-> FALSE], WithRow(i)>>)
    /\ base' = [base EXCEPT ![w] = None]
    /\ UNCHANGED <<operator, watching, faults>>

(* The row is there and may stay, or the commit is refused.                *)
WritesNothing(w) ==
    /\ base[w] # None
    /\ base[w] # head \/ \E i \in Ids : Now[i] # 0
    /\ base' = [base EXCEPT ![w] = None]
    /\ UNCHANGED <<table, operator, watching, faults>>

-------------------------------------------------------------------------------
(* The operator: rewrite_table.                                            *)

(* The table is loaded and read; one of a single file is left alone.       *)
StartRewrite ==
    /\ tool = "idle"
    /\ Len(snapshots) < MaxSnapshots
    /\ ScatteredAt(head)
    /\ previous' = head
    /\ report' = "none"
    /\ tool' = "overwrite"
    /\ UNCHANGED <<table, base, checked, doomed, watching, faults>>

(* All rows at once, or, when the write goes wrong, all but one.           *)
Written(rows) ==
    \/ Commit(<<[rows |-> NoRows, scattered |-> FALSE],
                [rows |-> rows, scattered |-> FALSE]>>)
       /\ UNCHANGED faults
    \/ \E i \in Ids :
         /\ rows[i] # 0
         /\ Fault("corrupt")
         /\ Commit(<<[rows |-> NoRows, scattered |-> FALSE],
                     [rows |-> [rows EXCEPT ![i] = 0], scattered |-> FALSE]>>)

(* The tool returns or raises; what it held is gone.                       *)
Return(told) ==
    /\ tool' = "idle"
    /\ report' = told
    /\ previous' = IF told = "none" THEN 0 ELSE previous
    /\ checked' = 0
    /\ doomed' = {}

MutantOverwrite ==
    /\ tool = "overwrite"
    /\ Written(RowsAt(previous))
    /\ tool' = "verify"
    /\ UNCHANGED <<base, previous, checked, doomed, report, watching>>

Overwrite ==
    /\ tool = "overwrite"
    /\ head = previous
    /\ Written(RowsAt(previous))
    /\ tool' = "verify"
    /\ UNCHANGED <<base, previous, checked, doomed, report, watching>>

OverwriteRefused ==
    /\ tool = "overwrite"
    /\ head # previous
    /\ Return("none")
    /\ UNCHANGED <<table, base, watching, faults>>

MutantVerify ==
    /\ tool = "verify"
    /\ \A i \in Ids : Now[i] # 0 => RowsAt(previous)[i] # 0
    /\ Return("rewritten")
    /\ UNCHANGED <<table, base, watching, faults>>

(* The table is refreshed and read again, with whatever others committed.  *)
Verify ==
    /\ tool = "verify"
    /\ Now = RowsAt(previous)
    /\ Return("rewritten")
    /\ UNCHANGED <<table, base, watching, faults>>

VerifyDiffers ==
    /\ tool = "verify"
    /\ Now # RowsAt(previous)
    /\ checked' = head
    /\ tool' = "rollback"
    /\ UNCHANGED <<table, base, previous, doomed, report, watching, faults>>

(* The head goes back to the snapshot the rewrite read, and the operator   *)
(* is told that the data is preserved.                                     *)
Rollback ==
    /\ tool = "rollback"
    /\ head = checked
    /\ head' = previous
    /\ Return("rolled back")
    /\ UNCHANGED <<snapshots, onfile, base, watching, faults>>

RollbackRefused ==
    /\ tool = "rollback"
    /\ head # checked
    /\ Return("none")
    /\ UNCHANGED <<table, base, watching, faults>>

-------------------------------------------------------------------------------
(* The operator: expire_zone_snapshots.                                    *)

Newest(n) == {s \in onfile : Cardinality({t \in onfile : t > s}) < n}

(* Those the retention window has passed over, the first old of them, but  *)
(* neither the newest nor the current one, which a rollback may have made  *)
(* an old one.                                                             *)
PlanExpiry(old) ==
    {s \in onfile : s <= old} \ (Newest(MinRetained) \cup {head})

StartExpiry ==
    /\ tool = "idle"
    /\ \E old \in SnapshotId : doomed' = PlanExpiry(old)
    /\ doomed' # {}
    /\ tool' = "expire"
    /\ report' = "none"
    /\ previous' = 0
    /\ UNCHANGED <<table, base, checked, watching, faults>>

ExpireTable ==
    /\ tool = "expire"
    /\ onfile' = onfile \ doomed
    /\ Return("none")
    /\ UNCHANGED <<snapshots, head, base, watching, faults>>

ToolCrashes ==
    /\ tool # "idle"
    /\ Fault("crash")
    /\ Return("none")
    /\ UNCHANGED <<table, base, watching>>

-------------------------------------------------------------------------------
(* The watcher: watch_zones, snapshot_zones and _swap.                     *)

(* The token moved.                                                        *)
Look ==
    /\ watcher = "asleep"
    /\ head # seen
    /\ token' = head
    /\ watcher' = "export"
    /\ UNCHANGED <<table, base, operator, seen, directories, history, faults>>

(* What a broken export left behind is removed and the table is read at    *)
(* its head, which may have moved since the token.                         *)
Export ==
    /\ watcher = "export"
    /\ new' = head
    /\ watcher' = "backup"
    /\ UNCHANGED <<table, base, operator, token, seen, live, backup, history, faults>>

RemoveBackup ==
    /\ watcher = "backup"
    /\ backup' = FALSE
    /\ watcher' = "retire"
    /\ UNCHANGED <<table, base, operator, token, seen, live, new, history, faults>>

MutantRetireLive ==
    /\ watcher = "retire"
    /\ live' = None
    /\ watcher' = "publish"
    /\ UNCHANGED <<table, base, operator, token, seen, new, backup, history, faults>>

RetireLive ==
    /\ watcher = "retire"
    /\ live' = None
    /\ backup' = (live # None)
    /\ watcher' = "publish"
    /\ UNCHANGED <<table, base, operator, token, seen, new, history, faults>>

(* The watcher sleeps; what the round read is gone.                        *)
Sleep ==
    /\ watcher' = "asleep"
    /\ token' = None
    /\ new' = None

PublishNew ==
    /\ watcher = "publish"
    /\ live' = new
    /\ seen' = token
    /\ skipped' = None
    /\ published' = TRUE
    /\ Sleep
    /\ UNCHANGED <<table, base, operator, backup, faults>>

(* safe_snapshot reports a failure and does not raise it: the watcher      *)
(* takes the token for exported.                                           *)
ExportFails ==
    /\ watcher # "asleep"
    /\ Fault("export")
    /\ seen' = token
    /\ skipped' = token
    /\ Sleep
    /\ UNCHANGED <<table, base, operator, live, backup, published>>

MutantWatcherCrashes ==
    /\ watcher # "asleep"
    /\ Fault("crash")
    /\ seen' = token
    /\ Sleep
    /\ UNCHANGED <<table, base, operator, live, backup, history>>

WatcherCrashes ==
    /\ watcher # "asleep"
    /\ Fault("crash")
    /\ seen' = None
    /\ Sleep
    /\ UNCHANGED <<table, base, operator, live, backup, history>>

-------------------------------------------------------------------------------

Write(w) ==
    \/ LoadTable(w) \/ WritesNothing(w)
    \/ \E i \in Ids : Insert(w, i) \/ Replace(w, i)

Maintain ==
    \/ StartRewrite \/ Overwrite \/ OverwriteRefused \/ Verify \/ VerifyDiffers
    \/ Rollback \/ RollbackRefused \/ StartExpiry \/ ExpireTable \/ ToolCrashes

Watch == Look \/ Export \/ RemoveBackup \/ RetireLive \/ PublishNew

Next ==
    \/ Maintain \/ Watch \/ ExportFails \/ WatcherCrashes
    \/ \E w \in Writers : Write(w)

Spec == Init /\ [][Next]_vars

(* The watcher is a resident process.                                      *)
LiveSpec == Spec /\ WF_vars(Watch)

-------------------------------------------------------------------------------
(* Properties.                                                             *)

(* No row is ever lost or set back but by a rollback, which leaves what    *)
(* the rewrite had read, or by a write that went wrong.  What others       *)
(* commit between the overwrite and the refresh is such a loss, although   *)
(* the tool says that the data is preserved.                               *)
OnlyRollbackLoses ==
    [][\A i \in Ids :
          \/ RowsAt(head)[i] <= (RowsAt(head)[i])'
          \/ tool = "rollback" /\ RowsAt(previous)[i] <= (RowsAt(head)[i])'
          \/ tool = "overwrite" /\ faults' # faults]_vars

(* A rewrite that is reported done, or rolled back with the data           *)
(* preserved, has kept every row it read, whatever went wrong in between.  *)
ReportIsHonest ==
    report # "none" => \A i \in Ids : RowsAt(previous)[i] <= Now[i]

(* Whatever was committed since the plan, an expiry leaves the current and *)
(* the newest snapshots on file, also when a rollback has made an old      *)
(* snapshot the current one: there is always something to roll back to.    *)
ExpiryKeepsHistory ==
    [][(onfile \ onfile') \cap (Newest(MinRetained) \cup {head}) = {}]_vars

(* Neither a rewrite nor an expiry takes away more than it says (the two   *)
(* above).                                                                 *)
NothingElseIsLost == OnlyRollbackLoses /\ ExpiryKeepsHistory

Copied == live # None /\ RowsAt(live) = Now

(* Types, and: whichever step of a swap fails or is cut off by a crash, a  *)
(* whole copy is left: the live one, its backup or, in the round after,    *)
(* the export under way.  A second fault in a row may take all.            *)
OneFaultKeepsACopy ==
    /\ TypeOK
    /\ published => live # None \/ backup \/ new # None

(* Once the table is at rest the copy shows it, whatever was committed     *)
(* during an export and whichever export a crash cut off, unless the last  *)
(* one failed.  A rollback may bring back a token whose export had read    *)
(* newer rows.                                                             *)
CopyCatchesUp ==
    <>[][FALSE]_head => <>[](Copied \/ head < Len(snapshots) \/ skipped = head)
===============================================================================
