------------------------ MODULE ZoneMaintenanceProofs ------------------------
(***************************************************************************)
(* Proofs about ZoneMaintenance, for any rows, writers, retention and      *)
(* bounds.  The inductive invariant IInv adds to the types what the        *)
(* promises rest on: a row never carries a number beyond its snapshots, a  *)
(* tool at work has not reported, an expiry under way still spares what it *)
(* planned to spare, and where the watcher's copies are at each step.      *)
(***************************************************************************)
EXTENDS ZoneMaintenance, FiniteSetTheorems, TLAPS

RowsAreNumbered ==
    \A s \in 1 .. Len(snapshots), i \in Ids : snapshots[s].rows[i] <= Len(snapshots)

(* A tool at work has told nothing yet, and a rewrite wrote what it read   *)
(* before anybody looks.                                                   *)
ReportsComeLast == tool # "idle" => report = "none"

(* What an expiry is about to drop is neither current nor among the newest.*)
PlanIsSparing ==
    tool = "expire" =>
        /\ doomed \subseteq onfile
        /\ doomed \cap (Newest(MinRetained) \cup {head}) = {}

(* The steps of a swap: an export is read from the second on; without a    *)
(* fault the live copy is missing only while its backup is there; with one *)
(* it is missing while the backup or the export is there.                  *)
NoFault == faults = 0
OneFault == faults <= 1

SwapKeepsACopy ==
    /\ watcher \in {"backup", "retire", "publish"} => new # None
    /\ published /\ NoFault =>
         IF watcher = "publish" THEN backup ELSE live # None
    /\ published /\ OneFault /\ watcher \in {"asleep", "export", "backup"} =>
         live # None \/ backup

IInv ==
    /\ TypeOK
    /\ RowsAreNumbered
    /\ ReportsComeLast
    /\ ReportIsHonest
    /\ PlanIsSparing
    /\ SwapKeepsACopy
-------------------------------------------------------------------------------
(* The table.                                                              *)

TableTypeOK ==
    /\ snapshots \in Seq(Snapshot)
    /\ onfile \subseteq SnapshotId \ {0}
    /\ head \in SnapshotId
    /\ RowsAreNumbered

(* The rows of a snapshot that is there are rows, and are numbered.        *)
LEMMA RowsOfSnapshot ==
    ASSUME TableTypeOK, NEW s \in SnapshotId
    PROVE  /\ RowsAt(s) \in Rows
           /\ \A i \in Ids : RowsAt(s)[i] \in Nat /\ RowsAt(s)[i] <= Len(snapshots)
<1>1. CASE s = 0
  BY <1>1 DEF RowsAt, NoRows, Rows, TableTypeOK
<1>2. CASE s # 0
  <2>1. s \in 1 .. Len(snapshots) /\ Len(snapshots) \in Nat
    BY <1>2 DEF SnapshotId, TableTypeOK
  <2>2. snapshots[s] \in Snapshot
    BY <2>1 DEF TableTypeOK
  <2> QED
    BY <1>2, <2>1, <2>2 DEF RowsAt, Snapshot, Rows, TableTypeOK, RowsAreNumbered
<1> QED
  BY <1>1, <1>2

(* What every commit leaves.                                               *)
Committed ==
    /\ TableTypeOK'
    /\ Len(snapshots) <= Len(snapshots')
    /\ head' > Len(snapshots)
    /\ Now' \in Rows
    /\ \A s \in SnapshotId : RowsAt(s)' = RowsAt(s)
    /\ SnapshotId \subseteq SnapshotId'
    /\ onfile \subseteq onfile'
    /\ \A s \in onfile' \ onfile : s > Len(snapshots)

(* A commit keeps every snapshot, and its last one becomes the head.       *)
LEMMA CommitKeeps ==
    ASSUME TableTypeOK, NEW added \in Seq(Snapshot), added # << >>, Commit(added),
           \A k \in 1 .. Len(added), i \in Ids :
              added[k].rows[i] <= Len(snapshots) + Len(added)
    PROVE  Committed /\ Now' = added[Len(added)].rows
<1>1. /\ Len(snapshots) \in Nat /\ Len(added) \in Nat \ {0}
      /\ snapshots \in Seq(Snapshot)
  BY DEF TableTypeOK
<1>2. /\ snapshots' = snapshots \o added
      /\ snapshots' \in Seq(Snapshot)
      /\ Len(snapshots') = Len(snapshots) + Len(added)
      /\ head' = Len(snapshots')
      /\ onfile' = onfile \cup (Len(snapshots) + 1 .. Len(snapshots) + Len(added))
  BY <1>1 DEF Commit
<1>3. /\ \A s \in 1 .. Len(snapshots) : snapshots'[s] = snapshots[s]
      /\ \A s \in 1 .. Len(snapshots') :
            s > Len(snapshots) => snapshots'[s] = added[s - Len(snapshots)]
  BY <1>1, <1>2
<1> DEFINE m == Len(snapshots)
           n == Len(snapshots')
<1>4. /\ SnapshotId \subseteq SnapshotId' /\ head' \in SnapshotId'
      /\ onfile' \subseteq SnapshotId' \ {0}
      /\ \A s \in onfile' \ onfile : s > m
  <2>1. SnapshotId = 0 .. m /\ SnapshotId' = 0 .. n
    BY DEF SnapshotId
  <2>2. m \in Nat /\ n \in Nat /\ m < n
    BY <1>1, <1>2
  <2>3. onfile' = onfile \cup (m + 1 .. n) /\ head' = n
    BY <1>2
  <2>4. onfile \subseteq (0 .. m) \ {0}
    BY <2>1 DEF TableTypeOK
  <2> HIDE DEF m, n
  <2> QED
    BY <2>1, <2>2, <2>3, <2>4
<1>5. RowsAreNumbered'
  <2> SUFFICES ASSUME NEW s \in 1 .. Len(snapshots'), NEW i \in Ids
               PROVE  snapshots'[s].rows[i] <= Len(snapshots')
    BY DEF RowsAreNumbered
  <2>1. CASE s <= Len(snapshots)
    <3>1. s \in 1 .. Len(snapshots)
      BY <1>1, <2>1
    <3>2. snapshots[s].rows[i] <= Len(snapshots)
      BY <3>1 DEF TableTypeOK, RowsAreNumbered
    <3>3. snapshots[s].rows[i] \in Nat
      <4>1. snapshots[s] \in Snapshot
        BY <1>1, <3>1
      <4> QED
        BY <4>1 DEF Snapshot, Rows
    <3> QED
      BY <1>1, <1>2, <1>3, <3>1, <3>2, <3>3
  <2>2. CASE s > Len(snapshots)
    BY <1>1, <1>2, <1>3, <2>2
  <2> QED
    BY <1>1, <1>2, <2>1, <2>2
<1>6. Now' = added[Len(added)].rows
  BY <1>1, <1>2, <1>3 DEF Now, RowsAt
<1>7. \A s \in SnapshotId : RowsAt(s)' = RowsAt(s)
  BY <1>1, <1>3 DEF RowsAt, SnapshotId
<1>9. Now' \in Rows
  <2>1. added[Len(added)] \in Snapshot
    BY <1>1
  <2> QED
    BY <1>6, <2>1 DEF Snapshot
<1>8. Len(snapshots) <= Len(snapshots') /\ head' > Len(snapshots)
  BY <1>1, <1>2
<1> QED
  BY <1>2, <1>4, <1>5, <1>6, <1>7, <1>8, <1>9 DEF TableTypeOK, Committed
-------------------------------------------------------------------------------
(* The steps that commit: one row inserted, one row replaced, all rows     *)
(* rewritten, and a rewrite that loses one.                                *)

(* A commit that leaves no row behind where it was.                        *)
Kept == \A i \in Ids : Now[i] <= (Now[i])'

(* A row written makes a snapshot with that row and no other one changed.  *)
LEMMA WithRowIsSnapshot ==
    ASSUME TableTypeOK, NEW i \in Ids
    PROVE  /\ WithRow(i) \in Snapshot
           /\ \A j \in Ids : WithRow(i).rows[j] <=
                                Len(snapshots) + (IF Now[i] = 0 THEN 1 ELSE 2)
           /\ \A j \in Ids : Now[j] <= WithRow(i).rows[j]
<1>1. Len(snapshots) \in Nat /\ head \in SnapshotId
  BY DEF TableTypeOK
<1>2. Now \in [Ids -> Nat] /\ \A j \in Ids : Now[j] <= Len(snapshots)
  BY <1>1, RowsOfSnapshot DEF Now, Rows
<1> DEFINE n == Len(snapshots) + (IF Now[i] = 0 THEN 1 ELSE 2)
<1>3. n \in Nat /\ n >= Len(snapshots)
  BY <1>1
<1>4. WithRow(i).rows = [Now EXCEPT ![i] = n] /\ WithRow(i).scattered \in BOOLEAN
  BY DEF WithRow
<1>5. WithRow(i) \in Snapshot
  BY <1>2, <1>3 DEF WithRow, Snapshot, Rows
<1> HIDE DEF n
<1>6. ASSUME NEW j \in Ids PROVE WithRow(i).rows[j] <= n /\ Now[j] <= WithRow(i).rows[j]
  <2>1. WithRow(i).rows[j] = IF j = i THEN n ELSE Now[j]
    BY <1>2, <1>4
  <2> QED
    BY <1>1, <1>2, <1>3, <2>1
<1> QED
  BY <1>5, <1>6 DEF n

(* An insert adds one snapshot, a replacement two.                         *)
LEMMA WriteCommits ==
    ASSUME TableTypeOK, NEW w \in Writers, NEW i \in Ids, Insert(w, i) \/ Replace(w, i)
    PROVE  Committed /\ Kept
<1>1. Len(snapshots) \in Nat /\ head \in SnapshotId
  BY DEF TableTypeOK
<1>2. Now \in [Ids -> Nat] /\ \A j \in Ids : Now[j] <= Len(snapshots)
  BY <1>1, RowsOfSnapshot DEF Now, Rows
<1>3. CASE Insert(w, i)
  <2> DEFINE added == <<WithRow(i)>>
  <2>1. added \in Seq(Snapshot) /\ added # << >> /\ Len(added) = 1
        /\ added[1] = WithRow(i)
    BY WithRowIsSnapshot
  <2>2. Commit(added) /\ Now[i] = 0
    BY <1>3 DEF Insert
  <2>3. \A k \in 1 .. Len(added), j \in Ids :
           added[k].rows[j] <= Len(snapshots) + Len(added)
    BY <2>1, <2>2, WithRowIsSnapshot
  <2> HIDE DEF added
  <2>4. Now' = WithRow(i).rows /\ Committed
    BY <1>1, <2>1, <2>2, <2>3, CommitKeeps
  <2> QED
    BY <2>4, WithRowIsSnapshot DEF Kept
<1>4. CASE Replace(w, i)
  <2> DEFINE gone == [rows |-> [Now EXCEPT ![i] = 0], scattered |-> FALSE]
             added == <<gone, WithRow(i)>>
  <2>1. gone \in Snapshot /\ \A j \in Ids : gone.rows[j] <= Len(snapshots) + 2
    BY <1>1, <1>2 DEF Snapshot, Rows
  <2>2. added \in Seq(Snapshot) /\ added # << >> /\ Len(added) = 2
        /\ added[1] = gone /\ added[2] = WithRow(i)
    BY <2>1, WithRowIsSnapshot
  <2>3. Commit(added) /\ Now[i] # 0
    BY <1>4 DEF Replace
  <2>4. \A k \in 1 .. Len(added), j \in Ids :
           added[k].rows[j] <= Len(snapshots) + Len(added)
    <3> SUFFICES ASSUME NEW k \in 1 .. Len(added), NEW j \in Ids
                 PROVE  added[k].rows[j] <= Len(snapshots) + 2
      BY <2>2
    <3>1. WithRow(i).rows[j] <= Len(snapshots) + 2
      BY <2>3, WithRowIsSnapshot
    <3>2. k = 1 \/ k = 2
      BY <2>2
    <3> HIDE DEF added
    <3> QED
      BY <2>1, <2>2, <3>1, <3>2
  <2> HIDE DEF added, gone
  <2>5. Now' = WithRow(i).rows /\ Committed
    BY <1>1, <2>2, <2>3, <2>4, CommitKeeps
  <2> QED
    BY <2>5, WithRowIsSnapshot DEF Kept
<1> QED
  BY <1>3, <1>4

(* A rewrite adds an empty snapshot and one with the rows it read, or with *)
(* all but one of them, which is a fault.                                  *)
LEMMA OverwriteCommits ==
    ASSUME TableTypeOK, faults \in Nat, Overwrite
    PROVE  Committed /\ (Kept \/ faults' = faults + 1)
<1>1. Len(snapshots) \in Nat /\ head \in SnapshotId
  BY DEF TableTypeOK
<1> DEFINE rows == RowsAt(previous)
           empty == [rows |-> NoRows, scattered |-> FALSE]
<1>2. rows \in [Ids -> Nat] /\ (\A j \in Ids : rows[j] <= Len(snapshots)) /\ rows = Now
  BY <1>1, RowsOfSnapshot DEF Overwrite, Now, Rows
<1>3. empty \in Snapshot /\ \A j \in Ids : empty.rows[j] = 0
  BY DEF NoRows, Snapshot, Rows
<1> HIDE DEF rows, empty
<1>4. ASSUME NEW r \in Rows, \A j \in Ids : r[j] <= Len(snapshots),
             Commit(<<empty, [rows |-> r, scattered |-> FALSE]>>)
      PROVE  Committed /\ Now' = r
  <2> DEFINE last == [rows |-> r, scattered |-> FALSE]
             added == <<empty, last>>
  <2>1. last \in Snapshot /\ last.rows = r
    BY DEF Snapshot
  <2> HIDE DEF last
  <2>2. added \in Seq(Snapshot) /\ added # << >> /\ Len(added) = 2
        /\ added[1] = empty /\ added[2] = last
    BY <1>3, <2>1
  <2>3. \A k \in 1 .. Len(added), j \in Ids :
           added[k].rows[j] <= Len(snapshots) + Len(added)
    BY <1>1, <1>3, <1>4, <2>1, <2>2 DEF Rows
  <2>4. Commit(added)
    BY <1>4 DEF last
  <2> HIDE DEF added
  <2> QED
    BY <1>1, <2>1, <2>2, <2>3, <2>4, CommitKeeps
<1>5. CASE Commit(<<empty, [rows |-> rows, scattered |-> FALSE]>>)
  <2>1. Committed /\ Now' = rows
    BY <1>2, <1>4, <1>5 DEF Rows
  <2>2. Kept
    BY <1>2, <2>1 DEF Kept
  <2> QED
    BY <2>1, <2>2
<1>6. ASSUME NEW i \in Ids, Fault("corrupt"),
             Commit(<<empty, [rows |-> [rows EXCEPT ![i] = 0], scattered |-> FALSE]>>)
      PROVE  Committed /\ faults' = faults + 1
  <2>1. [rows EXCEPT ![i] = 0] \in Rows
        /\ \A j \in Ids : [rows EXCEPT ![i] = 0][j] <= Len(snapshots)
    BY <1>1, <1>2 DEF Rows
  <2>2. Committed
    BY <1>4, <1>6, <2>1
  <2> QED
    BY <1>6, <2>2 DEF Fault
<1> QED
  BY <1>5, <1>6 DEF Overwrite, Written, rows, empty
-------------------------------------------------------------------------------
(* What a step does to the table: nothing, a commit, or the operator's     *)
(* rollback or expiry.                                                     *)
Writing == \E w \in Writers, i \in Ids : Insert(w, i) \/ Replace(w, i)

(* What changes the table: writes, compaction's overwrite, a rollback, an  *)
(* expiry.                                                                 *)
LEMMA TableSteps ==
    ASSUME [Next]_vars
    PROVE  \/ UNCHANGED table
           \/ Writing \/ Overwrite \/ Rollback \/ ExpireTable
  BY DEF Next, vars, Maintain, Watch, Write, Writing, LoadTable, WritesNothing, StartRewrite,
     OverwriteRefused, Verify, VerifyDiffers, RollbackRefused, StartExpiry, ToolCrashes, Look,
     Export, RemoveBackup, RetireLive, PublishNew, ExportFails, WatcherCrashes

(* Types of the table.                                                     *)
LEMMA TypeHasTable == TypeOK /\ RowsAreNumbered => TableTypeOK
  BY DEF TypeOK, TableTypeOK

(* No step takes a snapshot away or rewrites it.                           *)
TableGrows ==
    /\ TableTypeOK'
    /\ \A s \in SnapshotId : RowsAt(s)' = RowsAt(s)
    /\ SnapshotId \subseteq SnapshotId'

(* Snapshots are added or expired, never changed.                          *)
LEMMA NextTable ==
    ASSUME TypeOK, RowsAreNumbered, [Next]_vars
    PROVE  TableGrows
<1>1. TableTypeOK
  BY TypeHasTable
<1>2. ASSUME snapshots' = snapshots, onfile' \subseteq onfile, head' \in SnapshotId
      PROVE  TableGrows
  <2>1. /\ SnapshotId' = SnapshotId /\ RowsAreNumbered'
        /\ \A s \in SnapshotId : RowsAt(s)' = RowsAt(s)
    BY <1>1, <1>2 DEF SnapshotId, RowsAreNumbered, RowsAt, TableTypeOK
  <2> QED
    BY <1>1, <1>2, <2>1 DEF TableTypeOK, TableGrows
<1>3. CASE UNCHANGED table
  BY <1>1, <1>2, <1>3 DEF table, TableTypeOK
<1>4. CASE Writing \/ Overwrite
  BY <1>1, <1>4, WriteCommits, OverwriteCommits DEF Writing, Committed, TableGrows, TypeOK
<1>5. CASE Rollback
  BY <1>2, <1>5 DEF Rollback, TypeOK
<1>6. CASE ExpireTable
  BY <1>1, <1>2, <1>6 DEF ExpireTable, TableTypeOK
<1> QED
  BY <1>3, <1>4, <1>5, <1>6, TableSteps

(* Tools and watcher only note snapshots that are there.                   *)
OperatorTypeOK ==
    /\ base \in [Writers -> MaybeSnapshot]
    /\ tool \in {"idle", "overwrite", "verify", "rollback", "expire"}
    /\ previous \in SnapshotId
    /\ checked \in SnapshotId
    /\ doomed \subseteq SnapshotId
    /\ report \in {"none", "rewritten", "rolled back"}

WatcherTypeOK ==
    /\ watcher \in {"asleep", "export", "backup", "retire", "publish"}
    /\ {token, seen, live, new, skipped} \subseteq MaybeSnapshot
    /\ {backup, published} \subseteq BOOLEAN

(* Types, step by step.                                                    *)
LEMMA NextTypeOK ==
    ASSUME TypeOK, RowsAreNumbered, [Next]_vars
    PROVE  TypeOK'
<1> USE DEF table, operator, directories, history, watching
<1>1. TableGrows
  BY NextTable
<1>2. /\ head \in SnapshotId /\ 0 \in SnapshotId /\ onfile \subseteq SnapshotId
      /\ SnapshotId \subseteq SnapshotId' /\ SnapshotId \subseteq MaybeSnapshot
      /\ MaybeSnapshot \subseteq MaybeSnapshot' /\ None \in MaybeSnapshot
  <2>1. head \in SnapshotId /\ onfile \subseteq SnapshotId
    BY DEF TypeOK
  <2>2. 0 \in SnapshotId
    <3>1. snapshots \in Seq(Snapshot)
      BY DEF TypeOK
    <3> QED
      BY <3>1 DEF SnapshotId
  <2>3. SnapshotId \subseteq SnapshotId'
    BY <1>1 DEF TableGrows
  <2> QED
    BY <2>1, <2>2, <2>3 DEF MaybeSnapshot
<1>3. OperatorTypeOK /\ WatcherTypeOK /\ faults \in Nat
  BY DEF TypeOK, OperatorTypeOK, WatcherTypeOK
<1>4. OperatorTypeOK'
  <2> USE <1>2, <1>3 DEF OperatorTypeOK
  <2>1. ASSUME NEW w \in Writers, LoadTable(w) \/ WritesNothing(w) PROVE OperatorTypeOK'
    BY <2>1 DEF LoadTable, WritesNothing
  <2>2. ASSUME NEW w \in Writers, NEW i \in Ids, Insert(w, i) \/ Replace(w, i)
        PROVE  OperatorTypeOK'
    BY <2>2 DEF Insert, Replace
  <2>3. CASE StartRewrite \/ Overwrite \/ OverwriteRefused \/ Verify \/ VerifyDiffers
    BY <2>3 DEF StartRewrite, Overwrite, OverwriteRefused, Verify, VerifyDiffers, Return
  <2>4. CASE Rollback \/ RollbackRefused \/ ExpireTable \/ ToolCrashes
    BY <2>4 DEF Rollback, RollbackRefused, ExpireTable, ToolCrashes, Return
  <2>5. CASE StartExpiry
    BY <2>5 DEF StartExpiry, PlanExpiry
  <2>6. CASE UNCHANGED <<base, operator>>
    BY <2>6
  <2> QED
    BY <2>1, <2>2, <2>3, <2>4, <2>5, <2>6 DEF Next, vars, Maintain, Watch, Write, Look,
       Export, RemoveBackup, RetireLive, PublishNew, ExportFails, WatcherCrashes
<1>5. WatcherTypeOK'
  <2> USE <1>2, <1>3 DEF WatcherTypeOK
  <2>1. CASE Look \/ Export
    BY <2>1 DEF Look, Export
  <2>2. CASE RemoveBackup \/ RetireLive
    BY <2>2 DEF RemoveBackup, RetireLive
  <2>3. CASE PublishNew
    BY <2>3 DEF PublishNew, Sleep
  <2>4. CASE ExportFails \/ WatcherCrashes
    BY <2>4 DEF ExportFails, WatcherCrashes, Sleep
  <2>5. CASE UNCHANGED watching
    BY <2>5
  <2> QED
    BY <2>1, <2>2, <2>3, <2>4, <2>5 DEF Next, vars, Maintain, Watch, Write, LoadTable,
       WritesNothing, Insert, Replace, StartRewrite, Overwrite, OverwriteRefused, Verify,
       VerifyDiffers, Rollback, RollbackRefused, StartExpiry, ExpireTable, ToolCrashes
<1>6. faults' \in {faults, faults + 1}
  BY DEF Next, vars, Maintain, Watch, Write, LoadTable, WritesNothing, Insert, Replace,
     StartRewrite, Overwrite, Written, OverwriteRefused, Verify, VerifyDiffers, Rollback,
     RollbackRefused, StartExpiry, ExpireTable, ToolCrashes, Look, Export, RemoveBackup,
     RetireLive, PublishNew, ExportFails, WatcherCrashes, Fault
<1>7. faults' \in Nat
  BY <1>3, <1>6
<1> QED
  BY <1>1, <1>4, <1>5, <1>7
     DEF TypeOK, TableGrows, TableTypeOK, OperatorTypeOK, WatcherTypeOK
-------------------------------------------------------------------------------
(* What an operator is told.                                               *)

(* A report comes after the work, and no row is behind where it was.       *)
LEMMA NextReports ==
    ASSUME IInv, [Next]_vars
    PROVE  ReportsComeLast' /\ ReportIsHonest'
<1> USE DEF table, operator, watching
<1>1. /\ TypeOK /\ RowsAreNumbered /\ TableTypeOK /\ TableGrows
      /\ ReportsComeLast /\ ReportIsHonest
      /\ previous \in SnapshotId /\ head \in SnapshotId
  BY NextTable, TypeHasTable DEF IInv, TypeOK
<1>2. \A s \in SnapshotId : RowsAt(s)' = RowsAt(s)
  BY <1>1 DEF TableGrows
<1>3. ASSUME NEW s \in SnapshotId, NEW i \in Ids PROVE RowsAt(s)[i] \in Nat
  BY <1>1, RowsOfSnapshot
<1>4. ASSUME report' = "none" PROVE ReportsComeLast' /\ ReportIsHonest'
  BY <1>4 DEF ReportsComeLast, ReportIsHonest
<1>5. ASSUME UNCHANGED <<head, previous, report, tool>>
      PROVE  ReportsComeLast' /\ ReportIsHonest'
  BY <1>1, <1>2, <1>5 DEF ReportsComeLast, ReportIsHonest, Now
<1>6. ASSUME NEW w \in Writers, NEW i \in Ids, Insert(w, i) \/ Replace(w, i)
      PROVE  ReportsComeLast' /\ ReportIsHonest'
  <2>1. UNCHANGED <<previous, report, tool>>
    BY <1>6 DEF Insert, Replace
  <2>2. Kept /\ Now' \in Rows
    BY <1>1, <1>6, WriteCommits DEF Committed
  <2>3. \A j \in Ids : Now[j] \in Nat /\ (Now[j])' \in Nat
    <3>1. \A j \in Ids : Now[j] \in Nat
      BY <1>1, <1>3 DEF Now
    <3> QED
      BY <2>2, <3>1 DEF Rows
  <2>4. ASSUME report' # "none", NEW j \in Ids PROVE (RowsAt(previous)[j])' <= (Now[j])'
    <3>1. RowsAt(previous)[j] <= Now[j] /\ Now[j] <= (Now[j])'
      BY <1>1, <2>1, <2>2, <2>4 DEF ReportIsHonest, Kept
    <3>2. (RowsAt(previous)[j])' = RowsAt(previous)[j] /\ RowsAt(previous)[j] \in Nat
      BY <1>1, <1>2, <1>3, <2>1
    <3> QED
      BY <2>3, <3>1, <3>2
  <2> QED
    BY <1>1, <2>1, <2>4 DEF ReportsComeLast, ReportIsHonest
<1>7. CASE Verify
  <2>1. /\ Now = RowsAt(previous) /\ tool' = "idle"
        /\ UNCHANGED <<snapshots, head, previous>>
    BY <1>7 DEF Verify, Return
  <2>2. Now' = RowsAt(previous)'
    BY <2>1 DEF Now, RowsAt
  <2>3. \A i \in Ids : (RowsAt(previous)[i])' <= (Now[i])'
    BY <1>1, <1>3, <2>1, <2>2 DEF Now, RowsAt
  <2> QED
    BY <2>1, <2>3 DEF ReportsComeLast, ReportIsHonest
<1>8. CASE Rollback
  <2>1. /\ head' = previous /\ previous' = previous /\ tool' = "idle"
        /\ snapshots' = snapshots
    BY <1>8 DEF Rollback, Return
  <2>2. \A i \in Ids : (RowsAt(previous)[i])' <= (Now[i])'
    BY <1>1, <1>3, <2>1 DEF Now, RowsAt
  <2> QED
    BY <2>1, <2>2 DEF ReportsComeLast, ReportIsHonest
<1>9. CASE StartRewrite \/ StartExpiry \/ OverwriteRefused \/ RollbackRefused \/ ExpireTable
           \/ ToolCrashes
  BY <1>4, <1>9 DEF StartRewrite, StartExpiry, OverwriteRefused, RollbackRefused, ExpireTable,
     ToolCrashes, Return
<1>10. CASE Overwrite \/ VerifyDiffers
  <2>1. report' = "none"
    BY <1>1, <1>10 DEF Overwrite, VerifyDiffers, ReportsComeLast
  <2> QED
    BY <1>4, <2>1
<1> QED
  BY <1>5, <1>6, <1>7, <1>8, <1>9, <1>10 DEF Next, vars, Maintain, Watch, Write, LoadTable,
     WritesNothing, Look, Export, RemoveBackup, RetireLive, PublishNew, ExportFails,
     WatcherCrashes
-------------------------------------------------------------------------------
(* What an expiry is about to drop.                                        *)

After(S, s) == {t \in S : t > s}

(* Of more snapshots on file no older one is among the newest that was not *)
(* before.                                                                 *)
LEMMA NewestOnlyLoses ==
    ASSUME NEW n \in Nat, NEW m \in Nat, NEW old \in SUBSET (0 .. m),
           NEW later \in SUBSET (0 .. n), old \subseteq later,
           NEW s \in old, NEW k \in Nat,
           Cardinality(After(later, s)) < k
    PROVE  Cardinality(After(old, s)) < k
<1> DEFINE A == After(old, s)
           B == After(later, s)
<1>1. A \subseteq B
  BY DEF After
<1>2. IsFiniteSet(0 .. n)
  BY FS_Interval
<1>3. B \subseteq 0 .. n
  BY DEF After
<1>4. IsFiniteSet(B)
  BY <1>2, <1>3, FS_Subset
<1>5. IsFiniteSet(A) /\ Cardinality(A) <= Cardinality(B)
  BY <1>1, <1>4, FS_Subset
<1>6. Cardinality(A) \in Nat /\ Cardinality(B) \in Nat
  BY <1>4, <1>5, FS_CardinalityType
<1> HIDE DEF A, B
<1>7. Cardinality(B) < k => Cardinality(A) < k
  BY <1>5, <1>6
<1> QED
  BY <1>7 DEF A, B

(* What an expiry is about to drop is neither current nor among the        *)
(* newest.                                                                 *)
LEMMA NextPlan ==
    ASSUME IInv, [Next]_vars
    PROVE  PlanIsSparing'
<1> USE DEF table, operator, watching
<1>1. TypeOK /\ RowsAreNumbered /\ TableTypeOK /\ PlanIsSparing
  BY TypeHasTable DEF IInv
<1>2. ASSUME UNCHANGED <<onfile, head, doomed, tool>> PROVE PlanIsSparing'
  BY <1>1, <1>2 DEF PlanIsSparing, Newest
<1>3. ASSUME tool' # "expire" PROVE PlanIsSparing'
  BY <1>3 DEF PlanIsSparing
<1>4. ASSUME NEW w \in Writers, NEW i \in Ids, Insert(w, i) \/ Replace(w, i)
      PROVE  PlanIsSparing'
  <2>1. UNCHANGED <<tool, doomed>>
    BY <1>4 DEF Insert, Replace
  <2>2. Committed
    BY <1>1, <1>4, WriteCommits
  <2> SUFFICES ASSUME tool = "expire" PROVE PlanIsSparing'
    BY <2>1, <1>3
  <2>3. doomed \subseteq onfile /\ doomed \cap Newest(MinRetained) = {}
    BY <1>1 DEF PlanIsSparing
  <2>4. onfile \subseteq 0 .. Len(snapshots) /\ Len(snapshots) \in Nat
    <3>1. snapshots \in Seq(Snapshot)
      BY <1>1 DEF TableTypeOK
    <3> QED
      BY <1>1, <3>1 DEF TableTypeOK, SnapshotId
  <2>5. onfile' \subseteq 0 .. Len(snapshots)' /\ Len(snapshots)' \in Nat
    <3>1. snapshots' \in Seq(Snapshot) /\ onfile' \subseteq SnapshotId'
      BY <2>2 DEF Committed, TableTypeOK
    <3> QED
      BY <3>1 DEF SnapshotId
  <2>6. onfile \subseteq onfile' /\ head' > Len(snapshots)
    BY <2>2 DEF Committed
  <2>7. ASSUME NEW s \in doomed PROVE s \notin Newest(MinRetained)'
    <3>1. s \in onfile /\ s \notin Newest(MinRetained)
      BY <2>3
    <3>2. ~ (Cardinality(After(onfile, s)) < MinRetained)
      BY <3>1 DEF Newest, After
    <3>3. ~ (Cardinality(After(onfile', s)) < MinRetained)
      <4>1. /\ onfile \in SUBSET (0 .. Len(snapshots))
            /\ onfile' \in SUBSET (0 .. Len(snapshots)')
            /\ MinRetained \in Nat
        BY <2>4, <2>5, MaintenanceAssumption
      <4>2. onfile \subseteq onfile' /\ s \in onfile
            /\ Len(snapshots) \in Nat /\ Len(snapshots)' \in Nat
        BY <2>4, <2>5, <2>6, <3>1
      <4> QED
        BY <3>2, <4>1, <4>2, NewestOnlyLoses
    <3> QED
      BY <3>3 DEF Newest, After
  <2>8. ASSUME NEW s \in doomed PROVE s # head'
    BY <2>3, <2>4, <2>6
  <2> QED
    BY <2>1, <2>3, <2>6, <2>7, <2>8 DEF PlanIsSparing
<1>5. CASE StartExpiry
  BY <1>5 DEF StartExpiry, PlanExpiry, PlanIsSparing, Newest
<1>6. CASE StartRewrite \/ Overwrite \/ OverwriteRefused \/ Verify \/ VerifyDiffers
           \/ Rollback \/ RollbackRefused \/ ExpireTable \/ ToolCrashes
  <2>1. tool' # "expire"
    BY <1>6 DEF StartRewrite, Overwrite, OverwriteRefused, Verify, VerifyDiffers, Rollback,
       RollbackRefused, ExpireTable, ToolCrashes, Return
  <2> QED
    BY <1>3, <2>1
<1> QED
  BY <1>2, <1>4, <1>5, <1>6 DEF Next, vars, Maintain, Watch, Write, LoadTable,
     WritesNothing, Look, Export, RemoveBackup, RetireLive, PublishNew, ExportFails,
     WatcherCrashes
-------------------------------------------------------------------------------
(* Where the copies are.                                                   *)

(* Each step of a swap, a failing one too, leaves what the steps after it  *)
(* need.                                                                   *)
LEMMA NextCopies ==
    ASSUME IInv, [Next]_vars
    PROVE  SwapKeepsACopy'
<1> USE DEF table, operator, watching, directories, history
<1>1. /\ TypeOK /\ SwapKeepsACopy /\ faults \in Nat
      /\ backup \in BOOLEAN /\ published \in BOOLEAN
  BY DEF IInv, TypeOK
<1>2. head # None /\ None \notin Nat
  <2>1. snapshots \in Seq(Snapshot) /\ head \in 0 .. Len(snapshots)
    BY <1>1 DEF TypeOK, SnapshotId
  <2> QED
    BY <2>1, MaintenanceAssumption
<1>3. /\ faults' = faults => NoFault' = NoFault /\ OneFault' = OneFault
      /\ faults' = faults + 1 => ~NoFault' /\ (OneFault' => NoFault)
      /\ NoFault => OneFault
  BY <1>1 DEF NoFault, OneFault
<1>4. CASE Look \/ Export \/ RemoveBackup
  <2>1. NoFault' = NoFault /\ OneFault' = OneFault
    BY <1>3, <1>4 DEF Look, Export, RemoveBackup
  <2>2. CASE Look
    BY <1>1, <2>1, <2>2 DEF SwapKeepsACopy, Look
  <2>3. CASE Export
    BY <1>1, <1>2, <2>1, <2>3 DEF SwapKeepsACopy, Export
  <2>4. CASE RemoveBackup
    BY <1>1, <2>1, <2>4 DEF SwapKeepsACopy, RemoveBackup
  <2> QED
    BY <1>4, <2>2, <2>3, <2>4
<1>5. CASE RetireLive
  <2>1. NoFault' = NoFault /\ OneFault' = OneFault
    BY <1>3, <1>5 DEF RetireLive
  <2>2. /\ watcher = "retire" /\ watcher' = "publish" /\ new' = new
        /\ backup' = (live # None) /\ published' = published
    BY <1>5 DEF RetireLive
  <2> QED
    BY <1>1, <2>1, <2>2 DEF SwapKeepsACopy
<1>6. CASE PublishNew
  <2>1. NoFault' = NoFault /\ OneFault' = OneFault
    BY <1>3, <1>6 DEF PublishNew
  <2> QED
    BY <1>1, <1>6, <2>1 DEF SwapKeepsACopy, PublishNew, Sleep
<1>7. CASE ExportFails \/ WatcherCrashes
  <2>1. ~NoFault' /\ (OneFault' => NoFault)
    BY <1>3, <1>7 DEF ExportFails, WatcherCrashes, Fault
  <2>2. /\ watcher \in {"export", "backup", "retire", "publish"} /\ watcher' = "asleep"
        /\ UNCHANGED <<live, backup, published>>
    BY <1>1, <1>7 DEF ExportFails, WatcherCrashes, Sleep, TypeOK
  <2>3. published /\ NoFault => live # None \/ backup
    BY <1>1 DEF SwapKeepsACopy
  <2> QED
    BY <1>1, <2>1, <2>2, <2>3 DEF SwapKeepsACopy
<1>8. faults' \in {faults, faults + 1}
  BY DEF Next, vars, Maintain, Watch, Write, LoadTable, WritesNothing, Insert, Replace,
     StartRewrite, Overwrite, Written, OverwriteRefused, Verify, VerifyDiffers, Rollback,
     RollbackRefused, StartExpiry, ExpireTable, ToolCrashes, Look, Export, RemoveBackup,
     RetireLive, PublishNew, ExportFails, WatcherCrashes, Fault
<1>9. CASE UNCHANGED watching
  <2>1. (NoFault' => NoFault) /\ (OneFault' => OneFault)
    BY <1>1, <1>3, <1>8 DEF NoFault, OneFault
  <2> QED
    BY <1>1, <1>9, <2>1 DEF SwapKeepsACopy
<1> QED
  BY <1>4, <1>5, <1>6, <1>7, <1>9 DEF Next, vars, Maintain, Watch, Write, LoadTable,
     WritesNothing, Insert, Replace, StartRewrite, Overwrite, OverwriteRefused, Verify,
     VerifyDiffers, Rollback, RollbackRefused, StartExpiry, ExpireTable, ToolCrashes
-------------------------------------------------------------------------------

(* The invariant at the beginning.                                         *)
LEMMA InitIInv == Init => IInv
<1> SUFFICES ASSUME Init PROVE IInv
  OBVIOUS
<1>1. snapshots = <<>> /\ snapshots \in Seq(Snapshot) /\ Len(snapshots) = 0
  BY DEF Init
<1>2. SnapshotId = {0} /\ 0 \in SnapshotId
  BY <1>1 DEF SnapshotId
<1>3. TypeOK
  BY <1>1, <1>2 DEF Init, TypeOK, MaybeSnapshot
<1>4. RowsAreNumbered
  BY <1>1 DEF RowsAreNumbered
<1>5. ReportsComeLast /\ ReportIsHonest /\ PlanIsSparing /\ SwapKeepsACopy
  BY DEF Init, ReportsComeLast, ReportIsHonest, PlanIsSparing, SwapKeepsACopy
<1> QED
  BY <1>3, <1>4, <1>5 DEF IInv

(* Every step keeps the invariant.                                         *)
LEMMA NextIInv == IInv /\ [Next]_vars => IInv'
<1> SUFFICES ASSUME IInv, [Next]_vars PROVE IInv'
  OBVIOUS
<1>1. TypeOK' /\ RowsAreNumbered'
  BY NextTypeOK, NextTable DEF IInv, TableGrows, TableTypeOK
<1> QED
  BY <1>1, NextReports, NextPlan, NextCopies DEF IInv

(* The table, the operator's tool and the watcher stay within the          *)
(* invariant, for any number of writers, rows, faults and snapshots.       *)
THEOREM MaintenanceInvariance == Spec => []IInv
  BY InitIInv, NextIInv, PTL DEF Spec

(* What rewrite_table reports as done or as preserved kept every row it    *)
(* read.                                                                   *)
THEOREM ReportHonesty == Spec => []ReportIsHonest
<1>1. IInv => ReportIsHonest
  BY DEF IInv
<1> QED
  BY <1>1, MaintenanceInvariance, PTL

(* As long as no more than one step has failed or been cut off, _swap      *)
(* leaves a whole copy somewhere, however many faults a behaviour may yet  *)
(* have.                                                                   *)
THEOREM OneFaultLeavesACopy == Spec => [](faults <= 1 => OneFaultKeepsACopy)
<1>1. IInv => (faults <= 1 => OneFaultKeepsACopy)
  <2> SUFFICES ASSUME IInv, faults <= 1 PROVE OneFaultKeepsACopy
    OBVIOUS
  <2>1. OneFault /\ TypeOK /\ SwapKeepsACopy
    BY DEF IInv, OneFault
  <2>2. watcher \in {"asleep", "export", "backup", "retire", "publish"}
    BY <2>1 DEF TypeOK
  <2> QED
    BY <2>1, <2>2 DEF OneFaultKeepsACopy, SwapKeepsACopy
<1> QED
  BY <1>1, MaintenanceInvariance, PTL
-------------------------------------------------------------------------------
(* What is lost.                                                           *)

(* The step property of OnlyRollbackLoses.                                 *)
Loses ==
    \A i \in Ids :
        \/ RowsAt(head)[i] <= (RowsAt(head)[i])'
        \/ tool = "rollback" /\ RowsAt(previous)[i] <= (RowsAt(head)[i])'
        \/ tool = "overwrite" /\ faults' # faults

(* A row is behind afterwards only by a rollback to what it names, or by   *)
(* the fault that loses a row.                                             *)
LEMMA StepLoses ==
    ASSUME IInv, [Next]_vars
    PROVE  Loses
<1> USE DEF table
<1>1. /\ TypeOK /\ RowsAreNumbered /\ TableTypeOK
      /\ previous \in SnapshotId /\ head \in SnapshotId /\ faults \in Nat
  BY TypeHasTable DEF IInv, TypeOK
<1>2. ASSUME NEW s \in SnapshotId, NEW i \in Ids PROVE RowsAt(s)[i] \in Nat
  BY <1>1, RowsOfSnapshot
<1>3. CASE UNCHANGED <<snapshots, head>>
  BY <1>1, <1>2, <1>3 DEF Loses, RowsAt
<1>4. CASE Writing
  BY <1>1, <1>4, WriteCommits DEF Writing, Kept, Now, Loses
<1>5. CASE Overwrite
  <2>1. Kept \/ faults' = faults + 1
    BY <1>1, <1>5, OverwriteCommits
  <2>2. faults' = faults + 1 => faults' # faults
    BY <1>1
  <2>3. tool = "overwrite"
    BY <1>5 DEF Overwrite
  <2> QED
    BY <2>1, <2>2, <2>3 DEF Kept, Now, Loses
<1>6. CASE Rollback
  <2>1. tool = "rollback" /\ head' = previous /\ snapshots' = snapshots
    BY <1>6 DEF Rollback
  <2>2. \A i \in Ids : RowsAt(previous)[i] <= (RowsAt(head)[i])'
    BY <1>1, <1>2, <2>1 DEF RowsAt
  <2> QED
    BY <2>1, <2>2 DEF Loses
<1>7. CASE ExpireTable
  BY <1>3, <1>7 DEF ExpireTable
<1> QED
  BY <1>3, <1>4, <1>5, <1>6, <1>7, TableSteps

(* The step property of ExpiryKeepsHistory.                                *)
Spares == (onfile \ onfile') \cap (Newest(MinRetained) \cup {head}) = {}

(* No step takes the current or one of the newest snapshots off file.      *)
LEMMA StepSpares ==
    ASSUME IInv, [Next]_vars
    PROVE  Spares
<1>1. CASE ExpireTable
  BY <1>1 DEF ExpireTable, Spares, IInv, PlanIsSparing
<1>2. CASE onfile \subseteq onfile'
  BY <1>2 DEF Spares
<1>3. TableTypeOK /\ faults \in Nat
  BY TypeHasTable DEF IInv, TypeOK
<1> QED
  BY <1>1, <1>2, <1>3, TableSteps, WriteCommits, OverwriteCommits
     DEF table, Writing, Committed, Rollback

(* Neither a rewrite nor an expiry takes away more than it says: a row     *)
(* goes back only by a rollback, to what the rewrite had read, or by a     *)
(* write that went wrong, and an expiry spares the current and the newest  *)
(* snapshots at the moment it is executed, not only when it is planned.    *)
THEOREM LossesAreNamed == Spec => NothingElseIsLost
<1>1. IInv /\ [Next]_vars => [Loses]_vars /\ [Spares]_vars
  BY StepLoses, StepSpares
<1>2. Spec => [][Loses]_vars /\ [][Spares]_vars
  BY <1>1, MaintenanceInvariance, PTL DEF Spec
<1> QED
  BY <1>2 DEF NothingElseIsLost, OnlyRollbackLoses, ExpiryKeepsHistory, Loses, Spares
=============================================================================
