----------------------------- MODULE RunCleanup -----------------------------
(***************************************************************************)
(* Deleting runs (workflow/cleanup.rs): the run directory is renamed aside *)
(* to `<id>.deleting`, the row delete is the commit point, and the staged  *)
(* directory is then removed, or renamed back when the row delete failed.  *)
(* One delete is a batch: a single run (delete_run_data), or every run of  *)
(* the project (delete_project). Startup reconciles what a crash left.     *)
(*                                                                         *)
(* The service's lifecycle mutex admits one delete at a time and no launch *)
(* meanwhile; all runs here are terminal and undriven (WorkflowRun).       *)
(***************************************************************************)
EXTENDS FiniteSets, Naturals

CONSTANTS
    Runs,       \* the project's runs
    MaxFaults   \* bound: crashes and failed system calls

ASSUME CleanupAssumption == MaxFaults \in Nat

VARIABLES
    provisioned, \* runs whose directory existed at first (a cleaned disk)
    rows,        \* runs that have a wf_run row
    dir,         \* each run's directory: under its own name, staged (under
                 \* `<id>.deleting`), staged and partly removed, or nowhere
    phase,       \* what the process is doing
    todo,        \* runs the phase has not handled yet
    held,        \* runs staged by the delete in progress
    botched,     \* runs whose last rename back failed, or was not come to
    faults

vars == <<provisioned, rows, dir, phase, todo, held, botched, faults>>

Staged == {"staged", "torn"}

TypeOK ==
    /\ provisioned \subseteq Runs
    /\ rows \subseteq Runs
    /\ dir \in [Runs -> {"live", "none"} \cup Staged]
    /\ phase \in {"idle", "stage", "restore", "sweep", "down", "recover"}
    /\ todo \subseteq Runs
    /\ held \subseteq Runs
    /\ botched \subseteq Runs
    /\ faults \in 0..MaxFaults

Init ==
    /\ provisioned \in SUBSET Runs
    /\ rows = Runs
    /\ dir = [r \in Runs |-> IF r \in provisioned THEN "live" ELSE "none"]
    /\ phase = "idle"
    /\ todo = {}
    /\ held = {}
    /\ botched = {}
    /\ faults = 0

Fault == faults < MaxFaults /\ faults' = faults + 1

----------------------------------------------------------------------------
(* A delete                                                                *)

Begin ==
    /\ phase = "idle"
    /\ \E S \in {{r} : r \in rows} \cup {rows} :
         S # {} /\ todo' = S
    /\ phase' = "stage"
    /\ held' = {}
    /\ UNCHANGED <<provisioned, rows, dir, botched, faults>>

\* StagedRunDir::stage: rename aside. A missing live directory is fine, and
\* one an earlier attempt left staged is taken over.
Rename(r, from, to) == dir' = [dir EXCEPT ![r] = IF @ = from THEN to ELSE @]

StageOne ==
    /\ phase = "stage"
    /\ \E r \in todo :
         /\ Rename(r, "live", "staged")
         /\ todo' = todo \ {r}
         /\ held' = held \cup {r}
    /\ UNCHANGED <<provisioned, rows, phase, botched, faults>>

\* A failed rename, or a failed row delete: put back what was staged.
RollsForward == phase' = "sweep"
RollsBack == phase' = "restore"

DeleteFails ==
    /\ phase = "stage" /\ Fault
    /\ RollsBack
    /\ todo' = {}
    /\ UNCHANGED <<provisioned, rows, dir, held, botched>>

\* The row delete, of one run or of the whole project in one transaction.
KeepRows == rows
WithoutRows == rows \ held

Commit ==
    /\ phase = "stage" /\ todo = {}
    /\ rows' = WithoutRows
    /\ phase' = "sweep"
    /\ UNCHANGED <<provisioned, dir, todo, held, botched, faults>>

\* restore: rename back; a failure is logged and left to the next startup.
RestoreOne ==
    /\ phase = "restore"
    /\ \E r \in held :
         /\ held' = held \ {r}
         /\ \/ /\ Rename(r, "staged", "live")
               /\ botched' = botched \ {r}
               /\ UNCHANGED faults
            \/ /\ Fault
               /\ botched' = botched \cup {r}
               /\ UNCHANGED dir
    /\ UNCHANGED <<provisioned, rows, phase, todo>>

\* remove_staged: remove_dir_all, which may stop half way.
Remove(r) ==
    \/ /\ dir' = [dir EXCEPT ![r] = IF @ \in Staged THEN "none" ELSE @]
       /\ UNCHANGED faults
    \/ /\ dir' = [dir EXCEPT ![r] = IF @ \in Staged THEN "torn" ELSE @]
       /\ Fault

SweepOne ==
    /\ phase = "sweep"
    /\ \E r \in held : Remove(r) /\ held' = held \ {r}
    /\ UNCHANGED <<provisioned, rows, phase, todo, botched>>

Done ==
    /\ phase \in {"restore", "sweep"} /\ held = {}
    /\ phase' = "idle"
    /\ UNCHANGED <<provisioned, rows, dir, todo, held, botched, faults>>

----------------------------------------------------------------------------
(* Exit and startup                                                        *)

\* The app exits anywhere; in a sweep, a removal under way is half done.
Crash ==
    /\ phase # "down" /\ Fault
    /\ phase' = "down"
    /\ todo' = {}
    /\ held' = {}
    /\ \/ UNCHANGED dir
       \/ /\ phase = "sweep"
          /\ \E r \in held :
               dir[r] \in Staged /\ dir' = [dir EXCEPT ![r] = "torn"]
    /\ UNCHANGED <<provisioned, rows, botched>>

\* recover_staged_run_dirs, before any command: list `*.deleting`.  When the
\* runs directory cannot be found or read, startup goes on without.
AsideNow == {r \in Runs : dir[r] \in Staged}

Boot ==
    /\ phase = "down"
    /\ phase' = "recover"
    /\ \/ todo' = AsideNow /\ UNCHANGED <<botched, faults>>
       \/ todo' = {} /\ botched' = botched \cup AsideNow /\ Fault
    /\ UNCHANGED <<provisioned, rows, dir, held>>

\* Then rename back what has a row, remove what has none; a failed lookup
\* or rename leaves the entry alone.
SweepsAll(r) == FALSE
RestoresAll(r) == TRUE
HasRow(r) == r \in rows

RecoverOne ==
    /\ phase = "recover"
    /\ \E r \in todo :
         /\ todo' = todo \ {r}
         /\ \/ /\ HasRow(r)
               /\ Rename(r, "staged", "live")
               /\ botched' = botched \ {r}
               /\ UNCHANGED faults
            \/ ~HasRow(r) /\ Remove(r) /\ UNCHANGED botched
            \/ Fault /\ botched' = botched \cup {r} /\ UNCHANGED dir
    /\ UNCHANGED <<provisioned, rows, phase, held>>

BootDone ==
    /\ phase = "recover" /\ todo = {}
    /\ phase' = "idle"
    /\ UNCHANGED <<provisioned, rows, dir, todo, held, botched, faults>>

Next ==
    \/ Begin \/ StageOne \/ DeleteFails \/ Commit \/ RestoreOne \/ SweepOne
    \/ Done \/ Crash \/ Boot \/ RecoverOne \/ BootDone

Spec == Init /\ [][Next]_vars

----------------------------------------------------------------------------
(* Properties                                                              *)

\* "A run that survives the command is always openable": whenever no delete
\* and no startup is in progress, a run with a row has its directory, unless
\* its rename back failed, or the startup that owed it could not list the
\* runs, and no later one has made up for it.
SurvivorIsOpenable ==
    phase = "idle" =>
      \A r \in (rows \cap provisioned) \ botched : dir[r] = "live"

\* Nothing of a run is destroyed before its row is gone, whatever fails or
\* crashes: its directory is whole, under one name or the other.
DataOutlivesRow ==
    \A r \in rows \cap provisioned : dir[r] \in {"live", "staged"}

\* A run without a row leaves at most a staged directory, which the next
\* startup finds; a directory under the run's own name would be junk for ever.
OrphansAreStaged == \A r \in Runs \ rows : dir[r] # "live"
=============================================================================
