-------------------------- MODULE RunCleanupProofs --------------------------
(***************************************************************************)
(* Theorems about RunCleanup for every set of runs and every number of     *)
(* crashes and failed system calls.                                        *)
(***************************************************************************)
EXTENDS RunCleanup, TLAPS

(***************************************************************************)
(* The inductive invariant. A staged directory of a run that has a row is  *)
(* always somebody's: the delete in progress holds it, its rename back     *)
(* failed or was not come to, the host is down, or startup has it on its   *)
(* list. A batch that is being staged or swept has no directory under its  *)
(* own name; its rows are all there until the commit, and all gone in the  *)
(* sweep.                                                                  *)
(***************************************************************************)
StagedIsOwned ==
    \A r \in rows \cap provisioned :
      dir[r] = "staged" =>
        \/ r \in held \cup botched
        \/ phase = "down"
        \/ phase = "recover" /\ r \in todo

BatchOK ==
    /\ phase \notin {"stage", "restore", "sweep"} => held = {}
    /\ phase \in {"stage", "sweep"} => \A r \in held : dir[r] # "live"
    /\ phase = "sweep" => held \cap rows = {}
    /\ phase = "stage" => todo \subseteq rows
    /\ phase \in {"stage", "restore"} => held \subseteq rows

IInv == TypeOK /\ DataOutlivesRow /\ OrphansAreStaged /\ StagedIsOwned /\ BatchOK

\* The initial states satisfy it.
LEMMA InvInit == Init => IInv
<1> SUFFICES ASSUME Init PROVE IInv
  OBVIOUS
<1> USE CleanupAssumption DEF Init, Staged
<1>1. TypeOK  BY DEF TypeOK
<1>2. DataOutlivesRow /\ OrphansAreStaged
  BY DEF DataOutlivesRow, OrphansAreStaged
<1>3. StagedIsOwned /\ BatchOK  BY DEF StagedIsOwned, BatchOK
<1>. QED  BY <1>1, <1>2, <1>3 DEF IInv

\* Every step keeps it.
LEMMA InvStep == ASSUME IInv, [Next]_vars PROVE IInv'
<1> USE CleanupAssumption
        DEF IInv, TypeOK, DataOutlivesRow, OrphansAreStaged, StagedIsOwned,
            BatchOK, Staged
<1>1. ASSUME Begin PROVE IInv'
  BY <1>1 DEF Begin
<1>2. ASSUME StageOne PROVE IInv'
  BY <1>2 DEF StageOne, Rename
<1>3. ASSUME DeleteFails PROVE IInv'
  BY <1>3 DEF DeleteFails, RollsBack, Fault
<1>4. ASSUME Commit PROVE IInv'
  BY <1>4 DEF Commit, WithoutRows
<1>5. ASSUME RestoreOne PROVE IInv'
  <2>1. PICK r \in held :
          /\ held' = held \ {r}
          /\ \/ /\ Rename(r, "staged", "live")
                /\ botched' = botched \ {r}
                /\ UNCHANGED faults
             \/ /\ Fault
                /\ botched' = botched \cup {r}
                /\ UNCHANGED dir
    BY <1>5 DEF RestoreOne
  <2>2. r \in rows /\ phase = "restore" /\ phase' = "restore"
    BY <1>5 DEF RestoreOne
  <2>3. UNCHANGED <<provisioned, rows, phase, todo>>
    BY <1>5 DEF RestoreOne
  <2>4. CASE Rename(r, "staged", "live") /\ botched' = botched \ {r}
             /\ UNCHANGED faults
    BY <2>1, <2>2, <2>3, <2>4 DEF Rename
  <2>5. CASE Fault /\ botched' = botched \cup {r} /\ UNCHANGED dir
    BY <2>1, <2>2, <2>3, <2>5 DEF Fault
  <2>. QED  BY <2>1, <2>4, <2>5
<1>6. ASSUME SweepOne PROVE IInv'
  BY <1>6 DEF SweepOne, Remove, Fault
<1>7. ASSUME Done PROVE IInv'
  BY <1>7 DEF Done
<1>8. ASSUME Crash PROVE IInv'
  BY <1>8 DEF Crash, Fault
<1>9. ASSUME Boot PROVE IInv'
  <2>1. CASE todo' = AsideNow /\ UNCHANGED <<botched, faults>>
    BY <1>9, <2>1 DEF Boot, AsideNow
  <2>2. CASE todo' = {} /\ botched' = botched \cup AsideNow /\ Fault
    BY <1>9, <2>2 DEF Boot, AsideNow, Fault
  <2>. QED  BY <1>9, <2>1, <2>2 DEF Boot
<1>10. ASSUME RecoverOne PROVE IInv'
  BY <1>10 DEF RecoverOne, HasRow, Rename, Remove, Fault
<1>11. ASSUME BootDone PROVE IInv'
  BY <1>11 DEF BootDone
<1>12. ASSUME UNCHANGED vars PROVE IInv'
  BY <1>12 DEF vars
<1>. QED
  BY <1>1, <1>2, <1>3, <1>4, <1>5, <1>6, <1>7, <1>8, <1>9, <1>10, <1>11,
     <1>12 DEF Next

\* The inductive invariant holds in every reachable state.
THEOREM CleanupInductive == Spec => []IInv
  BY InvInit, InvStep, PTL DEF Spec

\* Whenever the service is at rest, a run that has a row has its directory,
\* unless a rename back failed or a startup could not list the runs, and none
\* has made up for it since.
THEOREM SurvivorsOpen == Spec => []SurvivorIsOpenable
<1>1. IInv => SurvivorIsOpenable
  BY DEF IInv, SurvivorIsOpenable, DataOutlivesRow, StagedIsOwned, BatchOK
<1>. QED  BY <1>1, CleanupInductive, PTL

\* Nothing of a run is destroyed while its row exists.
THEOREM NoDataLoss == Spec => []DataOutlivesRow
<1>1. IInv => DataOutlivesRow  BY DEF IInv
<1>. QED  BY <1>1, CleanupInductive, PTL

\* A deleted run leaves nothing that startup would not find.
THEOREM OrphansFound == Spec => []OrphansAreStaged
<1>1. IInv => OrphansAreStaged  BY DEF IInv
<1>. QED  BY <1>1, CleanupInductive, PTL
=============================================================================
