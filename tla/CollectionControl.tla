--------------------------- MODULE CollectionControl ---------------------------
(***************************************************************************)
(* Collections ordered from the viewer: request threads that trigger a     *)
(* runner process, the runners, and the state file through which they      *)
(* report to each other.                                                   *)
(*                                                                         *)
(* Threads and runners write the state the same way: they fill a temporary *)
(* file, whose name they all share, and rename it over the state file.     *)
(* What a runner collects is RawCollection's subject; here it ends well,   *)
(* raises, or is killed.                                                   *)
(***************************************************************************)
EXTENDS FiniteSets, Naturals

CONSTANTS
    Threads,        \* of the viewer's threading HTTP server
    MaxRuns,        \* bound: runs triggered in a behaviour
    ControlFaults,  \* of this instance: spawn, kill, restart
    MaxFaults       \* bound: faults in a behaviour

VARIABLES
    file,           \* contents of collection-run.json
    temporary,      \* contents of collection-run.tmp
    at,             \* step of each thread and of each run's runner
    state,          \* what each has read or is about to write
    handle,         \* the file each has open for writing
    triggered,      \* runs so far
    outcome,        \* how each run's collection ended
    overlapped,     \* history: a request was accepted while another was under way
    controlFaults

files == <<file, temporary>>
writers == <<at, state, handle>>
controlVars == <<files, writers, triggered, outcome, overlapped, controlFaults>>

-------------------------------------------------------------------------------

ASSUME ControlAssumption ==
    /\ MaxRuns \in Nat
    /\ MaxFaults \in Nat
    /\ Threads # {}
    /\ Threads \cap (1 .. MaxRuns) = {}

Runs == 1 .. MaxRuns
Writers == Threads \cup Runs

Status == {"queued", "running", "succeeded", "failed"}
State == [run : Runs, status : Status]

(* Contents without a run: no such file, no bytes yet, or bytes of two     *)
(* writers.                                                                *)
NoRun(condition) == [run |-> 0, status |-> condition]
Absent == NoRun("absent")
Empty == NoRun("empty")
Garbled == NoRun("garbled")
Contents == State \cup {Absent, Empty, Garbled}

Handles == {"closed", "temporary", "file", "unlinked"}
Places == {"idle", "spawn", "start", "collect", "open", "write", "replace", "end"}

ControlTypeOK ==
    /\ file \in Contents
    /\ temporary \in Contents
    /\ at \in [Writers -> Places]
    /\ state \in [Writers -> State \cup {Absent}]
    /\ handle \in [Writers -> Handles]
    /\ triggered \in 0 .. MaxRuns
    /\ outcome \in [Runs -> {"none", "succeeded", "failed", "lost"}]
    /\ overlapped \in BOOLEAN
    /\ controlFaults \in 0 .. MaxFaults

ControlInit ==
    /\ file = Absent
    /\ temporary = Absent
    /\ at = [w \in Writers |-> "idle"]
    /\ state = [w \in Writers |-> Absent]
    /\ handle = [w \in Writers |-> "closed"]
    /\ triggered = 0
    /\ outcome = [r \in Runs |-> "none"]
    /\ overlapped = FALSE
    /\ controlFaults = 0

ControlFault(kind) ==
    /\ kind \in ControlFaults
    /\ controlFaults < MaxFaults
    /\ controlFaults' = controlFaults + 1

-------------------------------------------------------------------------------
(* _write_status.  Variants named Mutant... are plausible slips in the     *)
(* code they stand next to; no specification uses them.                    *)

Open(w) ==
    /\ at[w] = "open"
    /\ temporary' = Empty
    /\ handle' = [handle EXCEPT ![w] = "temporary"]
    /\ at' = [at EXCEPT ![w] = "write"]
    /\ UNCHANGED <<file, state, triggered, outcome, overlapped, controlFaults>>

(* Bytes written over another writer's make garbage unless they cover them.*)
Written(contents, w) ==
    IF contents = Empty THEN {state[w]} ELSE {state[w], Garbled}

Write(w) ==
    /\ at[w] = "write"
    /\ IF handle[w] = "temporary"
       THEN temporary' \in Written(temporary, w) ELSE UNCHANGED temporary
    /\ IF handle[w] = "file"
       THEN file' \in Written(file, w) ELSE UNCHANGED file
    /\ handle' = [handle EXCEPT ![w] = "closed"]
    /\ at' = [at EXCEPT ![w] = "replace"]
    /\ UNCHANGED <<state, triggered, outcome, overlapped, controlFaults>>

(* Where a thread or a runner goes on after a write of its state.          *)
AfterWrite(w) ==
    IF w \in Runs THEN "end" ELSE IF state[w].status = "queued" THEN "spawn" ELSE "idle"

(* Renaming takes the files that others have open along with it.           *)
Renamed(h) ==
    CASE h = "temporary" -> "file"
      [] h = "file" -> "unlinked"
      [] OTHER -> h

Replace(w) ==
    /\ at[w] = "replace"
    /\ temporary # Absent
    /\ file' = temporary
    /\ temporary' = Absent
    /\ handle' = [o \in Writers |-> Renamed(handle[o])]
    /\ at' = [at EXCEPT ![w] = AfterWrite(w)]
    /\ UNCHANGED <<state, triggered, outcome, overlapped, controlFaults>>

MutantReplaceFails(w) ==
    /\ at[w] = "replace"
    /\ temporary = Absent
    /\ at' = [at EXCEPT ![w] = "open"]
    /\ UNCHANGED <<files, state, handle, triggered, outcome, overlapped, controlFaults>>

(* Another writer has renamed the temporary file: the request or the       *)
(* runner ends with the error.                                             *)
ReplaceFails(w) ==
    /\ at[w] = "replace"
    /\ temporary = Absent
    /\ at' = [at EXCEPT ![w] = IF w \in Runs THEN "end" ELSE "idle"]
    /\ UNCHANGED <<files, state, handle, triggered, outcome, overlapped, controlFaults>>

-------------------------------------------------------------------------------
(* The viewer: trigger.                                                    *)

MutantBusy(contents) == contents.status = "queued"

Busy(contents) == contents.status \in {"queued", "running"}

(* The request is accepted: neither a queued nor a running run on file.    *)
Accept(t) ==
    /\ at[t] = "idle"
    /\ triggered < MaxRuns
    /\ ~Busy(file)
    /\ triggered' = triggered + 1
    /\ state' = [state EXCEPT ![t] = [run |-> triggered + 1, status |-> "queued"]]
    /\ at' = [at EXCEPT ![t] = "open"]
    /\ overlapped' = (overlapped \/ \E u \in Threads : at[u] # "idle")
    /\ UNCHANGED <<files, handle, outcome, controlFaults>>

Spawn(t) ==
    /\ at[t] = "spawn"
    /\ state' = [state EXCEPT ![t].status = "running"]
    /\ at' = [at EXCEPT ![t] = "open", ![state[t].run] = "start"]
    /\ UNCHANGED <<files, handle, triggered, outcome, overlapped, controlFaults>>

(* Popen raises.                                                           *)
SpawnFails(t) ==
    /\ at[t] = "spawn"
    /\ ControlFault("spawn")
    /\ at' = [at EXCEPT ![t] = "idle"]
    /\ UNCHANGED <<files, state, handle, triggered, outcome, overlapped>>

(* The viewer's container restarts: requests and runners, which are child  *)
(* processes of the viewer, end where they are.                            *)
Restart ==
    /\ ControlFault("restart")
    /\ at' = [w \in Writers |-> IF w \in Threads THEN "idle"
                               ELSE IF at[w] = "idle" THEN "idle" ELSE "end"]
    /\ outcome' = [r \in Runs |-> IF outcome[r] = "none" /\ at[r] # "idle"
                                  THEN "lost" ELSE outcome[r]]
    /\ handle' = [w \in Writers |-> "closed"]
    /\ UNCHANGED <<files, state, triggered, overlapped>>

-------------------------------------------------------------------------------
(* A runner: main of collection_runner.                                    *)

(* It reads the state it was started with.                                 *)
ReadState(r) ==
    /\ at[r] = "start"
    /\ file \in State
    /\ state' = [state EXCEPT ![r] = file]
    /\ at' = [at EXCEPT ![r] = "collect"]
    /\ UNCHANGED <<files, handle, triggered, outcome, overlapped, controlFaults>>

ReadFails(r) ==
    /\ at[r] = "start"
    /\ file \notin State
    /\ outcome' = [outcome EXCEPT ![r] = "lost"]
    /\ at' = [at EXCEPT ![r] = "end"]
    /\ UNCHANGED <<files, state, handle, triggered, overlapped, controlFaults>>

MutantCollected(r, status) ==
    /\ at[r] = "collect"
    /\ outcome' = [outcome EXCEPT ![r] = status]
    /\ state' = [state EXCEPT ![r].status = "succeeded"]
    /\ at' = [at EXCEPT ![r] = "open"]
    /\ UNCHANGED <<files, handle, triggered, overlapped, controlFaults>>

(* collect_selected returns a summary or raises; both are reported.        *)
Collected(r, status) ==
    /\ at[r] = "collect"
    /\ outcome' = [outcome EXCEPT ![r] = status]
    /\ state' = [state EXCEPT ![r].status = status]
    /\ at' = [at EXCEPT ![r] = "open"]
    /\ UNCHANGED <<files, handle, triggered, overlapped, controlFaults>>

Kill(r) ==
    /\ at[r] \notin {"idle", "end"}
    /\ ControlFault("kill")
    /\ outcome' = [outcome EXCEPT ![r] = IF @ = "none" THEN "lost" ELSE @]
    /\ at' = [at EXCEPT ![r] = "end"]
    /\ handle' = [handle EXCEPT ![r] = "closed"]
    /\ UNCHANGED <<files, state, triggered, overlapped>>

-------------------------------------------------------------------------------

WriteStatus(w) == Open(w) \/ Write(w) \/ Replace(w) \/ ReplaceFails(w)
Trigger(t) == Accept(t) \/ Spawn(t) \/ SpawnFails(t) \/ WriteStatus(t)
Runner(r) ==
    \/ ReadState(r) \/ ReadFails(r) \/ WriteStatus(r) \/ Kill(r)
    \/ \E status \in {"succeeded", "failed"} : Collected(r, status)

ControlNext == Restart \/ (\E t \in Threads : Trigger(t)) \/ (\E r \in Runs : Runner(r))

ControlSpec == ControlInit /\ [][ControlNext]_controlVars

-------------------------------------------------------------------------------
(* Properties.                                                             *)

Collecting == {r \in Runs : at[r] \in {"start", "collect"}}

(* Types, and: trigger refuses a request while a run is under way, so that *)
(* two runners collect at a time only where requests overlapped, however   *)
(* runs are reported, killed or restarted under.                           *)
SingleRun ==
    /\ ControlTypeOK
    /\ ~overlapped => Cardinality(Collecting) <= 1

(* A run on file as succeeded or failed ended that way, whoever wrote the  *)
(* file last: unless requests overlapped, no run is reported with the end  *)
(* of another.                                                             *)
ReportIsHonest ==
    ~overlapped /\ file.status \in {"succeeded", "failed"} =>
        outcome[file.run] = file.status

(* Unless requests overlapped, the state file never goes back to an        *)
(* earlier run.                                                            *)
NewestRunOnFile ==
    [][~overlapped' /\ {file, file'} \subseteq State => file.run <= file'.run]_controlVars

(* What trigger promises by refusing a request while a run is on file, and *)
(* a test expects of it: a second collection never starts beside one.  It  *)
(* checks and then writes, without a lock.                                 *)
OneAtATime == Cardinality(Collecting) <= 1
===============================================================================
