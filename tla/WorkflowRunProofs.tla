------------------------- MODULE WorkflowRunProofs -------------------------
(***************************************************************************)
(* Theorems about WorkflowRun for every number of steps and every bound on *)
(* the faults.                                                             *)
(***************************************************************************)
EXTENDS WorkflowRun, TLAPS

(***************************************************************************)
(* The inductive invariant, in three layers.                               *)
(***************************************************************************)

\* Where the kernel has a step in hand.
StepPc == StepWait \cup
          {"gate", "commit", "record", "archive", "failStop", "failWrite",
           "cancelStop", "cancelAbandon", "cancelArchive", "cancelWrite"}

\* 1. Types; the step in hand is a step of the spec.
CurOK == pc \in StepPc => cur \in Step
TypeInv == TypeOK /\ CurOK

\* 2. The drive task, the registry, the lifecycle mutex and the row agree.
RegOK  == reg = (pc # "none")
DownOK == ~up => pc = "none" /\ lifecycle = "free"
LockOK ==
    /\ (deleter # "idle") = (lifecycle = "delete")
    /\ lifecycle = "launch" => row \in {"pending", "canceled"} /\ pc = "none"
    /\ deleter \in {"discard", "data"} => pc = "none"
    /\ deleter # "idle" => RowExists
RowOK  == pc # "none" => RowExists
ExitOK == pc = "exit" => row \notin Active
DriverInv == RegOK /\ DownOK /\ LockOK /\ RowOK /\ ExitOK /\ ActiveHasDriver

\* 3. How far the run has come.
NotStarted ==
    (\A i \in Step : spawns[i] = 0) /\ pinned = {} /\ published = "none"
FreshOK == row \in {"absent", "pending"} \/ pc = "provision" => NotStarted
StartOK ==
    /\ pc \in {"none", "load", "provision", "refuse"} => cur = 1
    /\ pc \notin {"none", "load", "provision", "panicked"} => row # "pending"
AheadOK ==
    /\ pc \in StepPc \cup {"loop"} => \A i \in Step : i > cur => spawns[i] = 0
    /\ pc \in {"loop", "spawn"} /\ cur \in Step => spawns[cur] = 0
PrefixOK ==
    /\ pc \in StepWait \cup {"loop", "gate", "commit"} =>
         pinned = 1..(cur - 1) /\ published = "none"
    /\ pc \in {"record", "archive"} => pinned = 1..cur /\ published = "none"
    /\ pc = "finalize" => pinned = 1..N /\ published = "none"
ProgressInv == FreshOK /\ StartOK /\ AheadOK /\ PrefixOK /\ NothingIsRerun

IInv == TypeInv /\ DriverInv /\ ProgressInv

----------------------------------------------------------------------------
(* Facts about values                                                      *)

\* The statuses the actions write are statuses.
LEMMA Statuses ==
    /\ "none" \in AgentState /\ "spawning" \in AgentState
    /\ "idle" \in AgentState /\ "running" \in AgentState
    /\ "error" \in AgentState /\ "down" \in AgentState
    /\ "archived" \in AgentState /\ "discarded" \in AgentState
  BY DEF AgentState

\* What the kernel and the supervisor do to the buffered events yields events.
LEMMA Events ==
  ASSUME NEW q \in Seq(AgentState)
  PROVE  /\ <<>> \in Seq(AgentState)
         /\ q # <<>> => Tail(q) \in Seq(AgentState) /\ Head(q) \in AgentState
         /\ \A s \in AgentState : Append(q, s) \in Seq(AgentState)
         /\ q \o <<"running", "idle">> \in Seq(AgentState)
  BY Statuses

\* A kernel that lets go of its locals leaves them typed.
LEMMA Dropped ==
  ASSUME DropLocals
  PROVE  /\ cur' \in 1..(N + 1)
         /\ failAs' \in {"error", "blocked"}
         /\ rx' \in Seq(AgentState)
<1>1. cur' \in 1..(N + 1)  BY ConstantsAssumption DEF DropLocals
<1>2. rx' \in Seq(AgentState)  BY DEF DropLocals
<1>. QED  BY <1>1, <1>2 DEF DropLocals

\* What a crash or a panic that cut an end short leaves: the attempt as it was
\* or closed, and at most one more outcome, for which it is counted as torn.
LEMMA Struck ==
  ASSUME faults \in [FaultKind -> Nat], journal \in Seq(Outcome),
         NEW k \in {"crash", "panic"}, CutShort(k)
  PROVE  /\ faults' \in [FaultKind -> Nat] /\ faults'[k] = faults[k] + 1
         /\ \A j \in FaultKind \ {k, "torn"} : faults'[j] = faults[j]
         /\ \/ journal' = journal /\ faults'["torn"] = faults["torn"]
            \/ \E e \in Outcome : journal' \in {journal, Append(journal, e)}
                 /\ pc \notin {"none", "exit"} /\ faults'["torn"] = faults["torn"] + 1
         /\ journal' \in Seq(Outcome)
         /\ exec' = exec \/ (pc = "failWrite" /\ CloseFailed)
<1>1. CASE Fault(k) /\ UNCHANGED journal
  <2>1. exec' = exec \/ (pc = "failWrite" /\ CloseFailed)
    BY DEF CutShort, HalfEnded, CloseInHand
  <2>. QED  BY <1>1, <2>1 DEF Fault, FaultKind
<1>2. ASSUME NEW e \in Outcome, EndsWith(e), Journal(e), CloseInHand, TornBy(k)
      PROVE  /\ faults' \in [FaultKind -> Nat] /\ faults'[k] = faults[k] + 1
             /\ \A j \in FaultKind \ {k, "torn"} : faults'[j] = faults[j]
             /\ faults'["torn"] = faults["torn"] + 1
             /\ pc \notin {"none", "exit"}
             /\ journal' \in {journal, Append(journal, e)}
             /\ journal' \in Seq(Outcome)
             /\ exec' = exec \/ (pc = "failWrite" /\ CloseFailed)
  <2>1. /\ faults' = [faults EXCEPT ![k] = faults[k] + 1, !["torn"] = faults["torn"] + 1]
    BY <1>2 DEF TornBy, FaultKind
  <2>2. journal' \in {journal, Append(journal, e)} /\ journal' \in Seq(Outcome)
    BY <1>2 DEF Journal
  <2>3. pc \notin {"none", "exit"}
    BY <1>2 DEF EndsWith
  <2>4. exec' = exec \/ (pc = "failWrite" /\ CloseFailed)
    BY <1>2 DEF CloseInHand
  <2>. QED  BY <2>1, <2>2, <2>3, <2>4 DEF FaultKind
<1>. QED  BY <1>1, <1>2 DEF CutShort, HalfEnded

\* Committing step k after 1..k-1 gives 1..k.
LEMMA IntervalGrows ==
  ASSUME NEW k \in Nat \ {0}
  PROVE  (1..(k - 1)) \cup {k} = 1..k
  OBVIOUS

----------------------------------------------------------------------------
(* Layer 1: types                                                          *)

\* The initial states are typed.
LEMMA TypeInit == Init => TypeInv
<1> SUFFICES ASSUME Init PROVE TypeInv
  OBVIOUS
<1> USE ConstantsAssumption, Statuses DEF Init
<1>1. SpecTypes  BY DEF SpecTypes
<1>2. DbTypes
  <2>1. journal \in Seq(Outcome)  OBVIOUS
  <2>. QED  BY <2>1 DEF DbTypes, RunStatus, ExecStatus
<1>3. rx \in Seq(AgentState)  OBVIOUS
<1>4. cur \in 1..(N + 1)  OBVIOUS
<1>5. DriveTypes  BY <1>3, <1>4 DEF DriveTypes, KernelPc
<1>6. AgentTypes  BY DEF AgentTypes, PromptState, Verdict
<1>7. OtherTypes  BY DEF OtherTypes
<1>8. CurOK  BY DEF CurOK, StepPc, StepWait
<1>. QED  BY <1>1, <1>2, <1>5, <1>6, <1>7, <1>8 DEF TypeInv, TypeOK

\* Every step keeps the types; under each action, the groups of variables it
\* writes, then the ones it leaves alone.
LEMMA TypeStep == ASSUME TypeInv, [Next]_vars PROVE TypeOK'
<1> USE ConstantsAssumption, Statuses
<1> USE DEF TypeInv, TypeOK, KernelAt, KernelFrame, GoTo, specVars, dbVars,
            driveVars, agentVars, gitVars, cmdVars, hostVars
<1>1. ASSUME LaunchInsert PROVE TypeOK'
  <2>1. DbTypes'
    BY <1>1 DEF DbTypes, LaunchInsert, RunStatus
  <2>2. OtherTypes'
    BY <1>1 DEF OtherTypes, LaunchInsert
  <2>. QED
    BY <1>1, <2>1, <2>2 DEF LaunchInsert, SpecTypes, DriveTypes,
       AgentTypes
<1>2. ASSUME LaunchSpawn PROVE TypeOK'
  <2>1. DriveTypes'
    BY <1>2 DEF DriveTypes, LaunchSpawn, SpawnDrive, KernelPc
  <2>2. OtherTypes'
    BY <1>2 DEF OtherTypes, LaunchSpawn
  <2>. QED
    BY <1>2, <2>1, <2>2 DEF LaunchSpawn, SpawnDrive, SpecTypes, DbTypes,
       AgentTypes
<1>3. ASSUME CancelRead PROVE TypeOK'
  <2>1. OtherTypes'
    BY <1>3 DEF OtherTypes, CancelRead
  <2>. QED
    BY <1>3, <2>1 DEF CancelRead, SpecTypes, DbTypes, DriveTypes,
       AgentTypes
<1>4. ASSUME CancelFlag PROVE TypeOK'
  <2>1. DriveTypes'
    BY <1>4 DEF DriveTypes, CancelFlag
  <2>2. OtherTypes'
    BY <1>4 DEF OtherTypes, CancelFlag
  <2>. QED
    BY <1>4, <2>1, <2>2 DEF CancelFlag, SpecTypes, DbTypes, AgentTypes
<1>5. ASSUME CancelStop PROVE TypeOK'
  <2>1. AgentTypes'
    BY <1>5 DEF AgentTypes, CancelStop, Stop, LiveStepAgents, DbTypes
  <2>2. OtherTypes'
    BY <1>5 DEF OtherTypes, CancelStop
  <2>. QED
    BY <1>5, <2>1, <2>2 DEF CancelStop, SpecTypes, DbTypes, DriveTypes
<1>6. ASSUME CancelWrite PROVE TypeOK'
  <2>1. DbTypes'
    BY <1>6 DEF DbTypes, CancelWrite, SetStatus, RunStatus
  <2>2. OtherTypes'
    BY <1>6 DEF OtherTypes, CancelWrite
  <2>. QED
    BY <1>6, <2>1, <2>2 DEF CancelWrite, SpecTypes, DriveTypes, AgentTypes
<1>7. ASSUME DeleteCheck PROVE TypeOK'
  <2>1. OtherTypes'
    BY <1>7 DEF OtherTypes, DeleteCheck
  <2>. QED
    BY <1>7, <2>1 DEF DeleteCheck, SpecTypes, DbTypes, DriveTypes,
       AgentTypes
<1>8. ASSUME DeleteRegistry PROVE TypeOK'
  <2>1. OtherTypes'
    BY <1>8 DEF OtherTypes, DeleteRegistry
  <2>. QED
    BY <1>8, <2>1 DEF DeleteRegistry, SpecTypes, DbTypes, DriveTypes,
       AgentTypes
<1>9. ASSUME DeleteDiscard PROVE TypeOK'
  <2>1. AgentTypes'
    BY <1>9 DEF AgentTypes, DeleteDiscard
  <2>2. OtherTypes'
    BY <1>9 DEF OtherTypes, DeleteDiscard
  <2>. QED
    BY <1>9, <2>1, <2>2 DEF DeleteDiscard, SpecTypes, DbTypes, DriveTypes
<1>10. ASSUME DeleteData PROVE TypeOK'
  <2>1. DbTypes'
    <3>1. journal' \in Seq(Outcome)  BY <1>10 DEF DeleteData
    <3>. QED  BY <1>10, <3>1 DEF DbTypes, DeleteData, RunStatus, ExecStatus
  <2>2. OtherTypes'
    BY <1>10 DEF OtherTypes, DeleteData
  <2>. QED
    BY <1>10, <2>1, <2>2 DEF DeleteData, SpecTypes, DriveTypes, AgentTypes
<1>11. ASSUME DeleteDataFails PROVE TypeOK'
  <2>1. OtherTypes'
    BY <1>11 DEF OtherTypes, DeleteDataFails
  <2>. QED
    BY <1>11, <2>1 DEF DeleteDataFails, SpecTypes, DbTypes, DriveTypes,
       AgentTypes
<1>12. ASSUME Load PROVE TypeOK'
  <2>1. DriveTypes'
    BY <1>12 DEF DriveTypes, Load, KernelPc
  <2>. QED
    BY <1>12, <2>1 DEF Load, SpecTypes, DbTypes, AgentTypes, OtherTypes
<1>13. ASSUME Provision PROVE TypeOK'
  <2>1. DbTypes'
    BY <1>13 DEF DbTypes, Provision, SetStatus, RunStatus
  <2>2. DriveTypes'
    BY <1>13 DEF DriveTypes, Provision, KernelPc
  <2>. QED
    BY <1>13, <2>1, <2>2 DEF Provision, SpecTypes, AgentTypes, OtherTypes
<1>14. ASSUME ProvisionFails PROVE TypeOK'
  <2>1. DbTypes'
    BY <1>14 DEF DbTypes, ProvisionFails, KernelErr, FailRun, Journal,
       SetStatus, RunStatus, Outcome
  <2>2. DriveTypes'
    BY <1>14 DEF DriveTypes, ProvisionFails, KernelErr, KernelPc
  <2>. QED
    BY <1>14, <2>1, <2>2 DEF ProvisionFails, KernelErr, SpecTypes,
       AgentTypes, OtherTypes
<1>15. ASSUME Loop PROVE TypeOK'
  <2>1. DbTypes'
    BY <1>15 DEF DbTypes, Loop, SetExec, ExecStatus
  <2>2. DriveTypes'
    BY <1>15 DEF DriveTypes, Loop, KernelPc, StepWait
  <2>. QED
    BY <1>15, <2>1, <2>2 DEF Loop, SpecTypes, AgentTypes, OtherTypes
<1>16. ASSUME CancelRun PROVE TypeOK'
  <2>1. DbTypes'
    BY <1>16 DEF DbTypes, CancelRun, Journal, SetStatus, RunStatus,
       Outcome
  <2>2. DriveTypes'
    BY <1>16 DEF DriveTypes, CancelRun, KernelPc
  <2>3. AgentTypes'
    BY <1>16 DEF AgentTypes, CancelRun, Stop, LiveStepAgents, DbTypes
  <2>. QED
    BY <1>16, <2>1, <2>2, <2>3 DEF CancelRun, SpecTypes, OtherTypes
<1>17. ASSUME Spawn PROVE TypeOK'
  <2>1. DbTypes'
    BY <1>17 DEF DbTypes, Spawn, StampSpawned, SetExec, ExecStatus, CurOK,
       StepPc, StepWait
  <2>2. DriveTypes'
    BY <1>17 DEF DriveTypes, Spawn, KernelPc, StepWait
  <2>3. AgentTypes'
    BY <1>17 DEF AgentTypes, Spawn, CurOK, StepPc, StepWait
  <2>. QED
    BY <1>17, <2>1, <2>2, <2>3 DEF Spawn, StampSpawned, SpecTypes,
       OtherTypes
<1>18. ASSUME Ready PROVE TypeOK'
  <2>1. DriveTypes'
    BY <1>18, Events DEF DriveTypes, Ready, ReadyOn, KernelPc, StepWait
  <2>. QED
    BY <1>18, <2>1 DEF Ready, SpecTypes, DbTypes, AgentTypes, OtherTypes
<1>19. ASSUME ReadyEvent PROVE TypeOK'
  <2>1. DriveTypes'
    BY <1>19, Events DEF DriveTypes, ReadyEvent, ReadyOn, KernelPc,
       StepWait
  <2>. QED
    BY <1>19, <2>1 DEF ReadyEvent, SpecTypes, DbTypes, AgentTypes,
       OtherTypes
<1>20. ASSUME Subscribe PROVE TypeOK'
  <2>1. DriveTypes'
    BY <1>20, Events DEF DriveTypes, Subscribe, KernelPc, StepWait
  <2>. QED
    BY <1>20, <2>1 DEF Subscribe, SpecTypes, DbTypes, AgentTypes,
       OtherTypes
<1>21. ASSUME Send PROVE TypeOK'
  <2>1. DriveTypes'
    BY <1>21, Events DEF DriveTypes, Send, KernelPc, StepWait
  <2>2. AgentTypes'
    BY <1>21 DEF AgentTypes, Send, PromptState
  <2>. QED
    BY <1>21, <2>1, <2>2 DEF Send, SpecTypes, DbTypes, OtherTypes
<1>22. ASSUME SendHeld PROVE TypeOK'
  <2>1. DriveTypes'
    BY <1>22 DEF DriveTypes, SendHeld, KernelPc, StepWait
  <2>2. AgentTypes'
    BY <1>22 DEF AgentTypes, SendHeld, PromptState
  <2>. QED
    BY <1>22, <2>1, <2>2 DEF SendHeld, SpecTypes, DbTypes, OtherTypes
<1>23. ASSUME Await PROVE TypeOK'
  <2>1. DriveTypes'
    BY <1>23, Events DEF DriveTypes, Await, KernelPc, StepWait
  <2>. QED
    BY <1>23, <2>1 DEF Await, SpecTypes, DbTypes, AgentTypes, OtherTypes
<1>24. ASSUME StepErr PROVE TypeOK'
  <2>1. DriveTypes'
    BY <1>24, Events DEF DriveTypes, StepErr, KernelPc
  <2>. QED
    BY <1>24, <2>1 DEF StepErr, SpecTypes, DbTypes, AgentTypes, OtherTypes
<1>25. ASSUME StepCanceled PROVE TypeOK'
  <2>1. DriveTypes'
    BY <1>25, Events DEF DriveTypes, StepCanceled, KernelPc
  <2>. QED
    BY <1>25, <2>1 DEF StepCanceled, SpecTypes, DbTypes, AgentTypes,
       OtherTypes
<1>26. ASSUME Gate PROVE TypeOK'
  <2>1. DriveTypes'
    BY <1>26 DEF DriveTypes, Gate, KernelPc
  <2>2. AgentTypes'
    BY <1>26 DEF AgentTypes, Gate, Verdict
  <2>. QED
    BY <1>26, <2>1, <2>2 DEF Gate, SpecTypes, DbTypes, OtherTypes
<1>27. ASSUME Commit PROVE TypeOK'
  <2>1. DriveTypes'
    BY <1>27 DEF DriveTypes, Commit, KernelPc
  <2>2. OtherTypes'
    BY <1>27 DEF OtherTypes, Commit, CurOK, StepPc
  <2>. QED
    BY <1>27, <2>1, <2>2 DEF Commit, SpecTypes, DbTypes, AgentTypes
<1>28. ASSUME Record PROVE TypeOK'
  <2>1. DbTypes'
    BY <1>28 DEF DbTypes, Record, SetExec, ExecStatus
  <2>2. DriveTypes'
    BY <1>28 DEF DriveTypes, Record, KernelPc
  <2>. QED
    BY <1>28, <2>1, <2>2 DEF Record, SpecTypes, AgentTypes, OtherTypes
<1>29. ASSUME ArchiveStep PROVE TypeOK'
  <2>1. DriveTypes'
    BY <1>29 DEF DriveTypes, ArchiveStep, KernelPc, CurOK, StepPc, Step
  <2>2. AgentTypes'
    BY <1>29 DEF AgentTypes, ArchiveStep, Archive
  <2>. QED
    BY <1>29, <2>1, <2>2 DEF ArchiveStep, SpecTypes, DbTypes, OtherTypes
<1>30. ASSUME Finalize PROVE TypeOK'
  <2>1. DriveTypes'
    BY <1>30 DEF DriveTypes, Finalize, KernelPc
  <2>2. OtherTypes'
    BY <1>30 DEF OtherTypes, Finalize
  <2>. QED
    BY <1>30, <2>1, <2>2 DEF Finalize, SpecTypes, DbTypes, AgentTypes
<1>31. ASSUME FinalizeErr PROVE TypeOK'
  <2>1. DbTypes'
    BY <1>31 DEF DbTypes, FinalizeErr, KernelErr, FailRun, Journal,
       SetStatus, RunStatus, Outcome
  <2>2. DriveTypes'
    BY <1>31 DEF DriveTypes, FinalizeErr, KernelErr, KernelPc
  <2>. QED
    BY <1>31, <2>1, <2>2 DEF FinalizeErr, KernelErr, SpecTypes,
       AgentTypes, OtherTypes
<1>32. ASSUME FinRecord PROVE TypeOK'
  <2>1. DbTypes'
    BY <1>32 DEF DbTypes, FinRecord, SetPr
  <2>2. DriveTypes'
    BY <1>32 DEF DriveTypes, FinRecord, KernelPc
  <2>. QED
    BY <1>32, <2>1, <2>2 DEF FinRecord, SpecTypes, AgentTypes, OtherTypes
<1>33. ASSUME Finish PROVE TypeOK'
  <2>1. DbTypes'
    BY <1>33 DEF DbTypes, Finish, Journal, SetStatus, RunStatus, Outcome
  <2>2. DriveTypes'
    BY <1>33 DEF DriveTypes, Finish, KernelPc
  <2>. QED
    BY <1>33, <2>1, <2>2 DEF Finish, SpecTypes, AgentTypes, OtherTypes
<1>34. ASSUME FailStop PROVE TypeOK'
  <2>1. DriveTypes'
    BY <1>34 DEF DriveTypes, FailStop, KernelPc
  <2>2. AgentTypes'
    BY <1>34 DEF AgentTypes, FailStop, Stop, CurOK, StepPc
  <2>. QED
    BY <1>34, <2>1, <2>2 DEF FailStop, SpecTypes, DbTypes, OtherTypes
<1>35. ASSUME FailWrite PROVE TypeOK'
  <2>1. DbTypes'
    <3>1. journal' \in Seq(Outcome) /\ row' \in RunStatus
      BY <1>35 DEF DbTypes, FailWrite, FailRun, Journal, SetStatus, RunStatus, Outcome
    <3>2. exec' \in [Step -> ExecStatus]
      BY <1>35 DEF DbTypes, FailWrite, CloseFailed, SetExec, ExecStatus, DriveTypes
    <3>. QED  BY <1>35, <3>1, <3>2 DEF DbTypes, FailWrite
  <2>2. DriveTypes'
    BY <1>35 DEF DriveTypes, FailWrite, KernelPc
  <2>. QED
    BY <1>35, <2>1, <2>2 DEF FailWrite, SpecTypes, AgentTypes, OtherTypes
<1>36. ASSUME CancelStepStop PROVE TypeOK'
  <2>1. DriveTypes'
    BY <1>36 DEF DriveTypes, CancelStepStop, KernelPc
  <2>2. AgentTypes'
    BY <1>36 DEF AgentTypes, CancelStepStop, Stop, DbTypes
  <2>. QED
    BY <1>36, <2>1, <2>2 DEF CancelStepStop, SpecTypes, DbTypes,
       OtherTypes
<1>37. ASSUME CancelStepAbandon PROVE TypeOK'
  <2>1. DbTypes'
    BY <1>37 DEF DbTypes, CancelStepAbandon, AbandonExec, SetExec,
       ExecStatus
  <2>2. DriveTypes'
    BY <1>37 DEF DriveTypes, CancelStepAbandon, KernelPc
  <2>. QED
    BY <1>37, <2>1, <2>2 DEF CancelStepAbandon, SpecTypes, AgentTypes,
       OtherTypes
<1>38. ASSUME CancelStepArchive PROVE TypeOK'
  <2>1. DriveTypes'
    BY <1>38 DEF DriveTypes, CancelStepArchive, KernelPc
  <2>2. AgentTypes'
    BY <1>38 DEF AgentTypes, CancelStepArchive, Archive
  <2>. QED
    BY <1>38, <2>1, <2>2 DEF CancelStepArchive, SpecTypes, DbTypes,
       OtherTypes
<1>39. ASSUME CancelStepWrite PROVE TypeOK'
  <2>1. DbTypes'
    BY <1>39 DEF DbTypes, CancelStepWrite, Journal, SetStatus, RunStatus,
       Outcome
  <2>2. DriveTypes'
    BY <1>39 DEF DriveTypes, CancelStepWrite, KernelPc
  <2>. QED
    BY <1>39, <2>1, <2>2 DEF CancelStepWrite, SpecTypes, AgentTypes,
       OtherTypes
<1>40. ASSUME RefuseStale PROVE TypeOK'
  <2>1. DbTypes'
    BY <1>40 DEF DbTypes, RefuseStale, AbandonExec, SetExec, ExecStatus
  <2>2. AgentTypes'
    BY <1>40 DEF AgentTypes, RefuseStale, Stop
  <2>. QED
    BY <1>40, <2>1, <2>2 DEF RefuseStale, SpecTypes, DriveTypes,
       OtherTypes
<1>41. ASSUME RefuseFail PROVE TypeOK'
  <2>1. DbTypes'
    BY <1>41 DEF DbTypes, RefuseFail, KernelErr, FailRun, Journal,
       SetStatus, RunStatus, Outcome
  <2>2. DriveTypes'
    BY <1>41 DEF DriveTypes, RefuseFail, KernelErr, KernelPc
  <2>. QED
    BY <1>41, <2>1, <2>2 DEF RefuseFail, KernelErr, SpecTypes, AgentTypes,
       OtherTypes
<1>42. ASSUME Deregister PROVE TypeOK'
  <2>1. DriveTypes'
    BY <1>42, Dropped DEF DriveTypes, Deregister, KernelPc
  <2>. QED
    BY <1>42, <2>1 DEF Deregister, SpecTypes, DbTypes, AgentTypes,
       OtherTypes
<1>43. ASSUME SendRequeued PROVE TypeOK'
  <2>1. DriveTypes'
    BY <1>43, Events DEF DriveTypes, SendRequeued, KernelPc, StepWait
  <2>2. AgentTypes'
    BY <1>43 DEF AgentTypes, SendRequeued, PromptState
  <2>3. OtherTypes'
    BY <1>43 DEF OtherTypes, SendRequeued, Fault, FaultKind
  <2>. QED
    BY <1>43, <2>1, <2>2, <2>3 DEF SendRequeued, SpecTypes, DbTypes
<1>44. ASSUME Panic PROVE TypeOK'
  <2>0. /\ exec' = exec \/ CloseFailed
        /\ journal' \in Seq(Outcome) /\ faults' \in [FaultKind -> Nat]
    BY <1>44, Struck DEF Panic, DbTypes, OtherTypes
  <2>1. DbTypes'
    BY <1>44, <2>0 DEF DbTypes, Panic, CloseFailed, SetExec, ExecStatus, DriveTypes
  <2>2. DriveTypes'
    BY <1>44 DEF DriveTypes, Panic, KernelPc
  <2>3. OtherTypes'
    BY <1>44, <2>0 DEF OtherTypes, Panic
  <2>. QED
    BY <1>44, <2>1, <2>2, <2>3 DEF Panic, SpecTypes, AgentTypes
<1>55. ASSUME WatchdogFails PROVE TypeOK'
  <2>1. DbTypes'
    BY <1>55 DEF DbTypes, WatchdogFails, KernelErr, FailRun, Journal,
       SetStatus, RunStatus, Outcome
  <2>2. DriveTypes'
    BY <1>55 DEF DriveTypes, WatchdogFails, KernelErr, KernelPc
  <2>. QED
    BY <1>55, <2>1, <2>2 DEF WatchdogFails, KernelErr, SpecTypes, AgentTypes,
       OtherTypes
<1>45. ASSUME NEW i \in Step, AgentReady(i)
      PROVE  TypeOK'
  <2>1. DriveTypes'
    BY <1>45, Events DEF DriveTypes, AgentReady, AgentFrame, Broadcast
  <2>2. AgentTypes'
    BY <1>45 DEF AgentTypes, AgentReady, AgentFrame
  <2>. QED
    BY <1>45, <2>1, <2>2 DEF AgentReady, AgentFrame, SpecTypes, DbTypes,
       OtherTypes
<1>46. ASSUME NEW i \in Step, AgentTurnEnds(i)
      PROVE  TypeOK'
  <2>1. DriveTypes'
    BY <1>46, Events DEF DriveTypes, AgentTurnEnds, AgentFrame, Broadcast
  <2>2. AgentTypes'
    BY <1>46 DEF AgentTypes, AgentTurnEnds, AgentFrame, PromptState
  <2>. QED
    BY <1>46, <2>1, <2>2 DEF AgentTurnEnds, AgentFrame, SpecTypes,
       DbTypes, OtherTypes
<1>47. ASSUME NEW i \in Step, AgentRedeliver(i)
      PROVE  TypeOK'
  <2>1. DriveTypes'
    BY <1>47, Events DEF DriveTypes, AgentRedeliver, AgentFrame, Broadcast
  <2>2. agent' \in [Step -> AgentState]
    BY <1>47 DEF AgentTypes, AgentRedeliver
  <2>3. prompt' \in [Step -> PromptState]
    BY <1>47 DEF AgentTypes, AgentRedeliver, PromptState
  <2>4. AgentTypes'
    BY <1>47, <2>2, <2>3 DEF AgentTypes, AgentRedeliver, AgentFrame
  <2>. QED
    BY <1>47, <2>1, <2>4 DEF AgentRedeliver, AgentFrame, SpecTypes,
       DbTypes, OtherTypes
<1>48. ASSUME NEW i \in Step, AgentReadyLate(i)
      PROVE  TypeOK'
  <2>1. AgentTypes'
    BY <1>48 DEF AgentTypes, AgentReadyLate, AgentFrame
  <2>2. OtherTypes'
    BY <1>48 DEF OtherTypes, AgentReadyLate, AgentFrame, Fault, FaultKind
  <2>. QED
    BY <1>48, <2>1, <2>2 DEF AgentReadyLate, AgentFrame, SpecTypes,
       DbTypes, DriveTypes
<1>49. ASSUME NEW i \in Step, LateBroadcast(i)
      PROVE  TypeOK'
  <2>1. DriveTypes'
    BY <1>49, Events DEF DriveTypes, LateBroadcast, AgentFrame, Broadcast
  <2>2. AgentTypes'
    BY <1>49 DEF AgentTypes, LateBroadcast, AgentFrame
  <2>. QED
    BY <1>49, <2>1, <2>2 DEF LateBroadcast, AgentFrame, SpecTypes,
       DbTypes, OtherTypes
<1>50. ASSUME NEW i \in Step, AgentExits(i)
      PROVE  TypeOK'
  <2>1. DriveTypes'
    BY <1>50, Events DEF DriveTypes, AgentExits, AgentFrame, Broadcast
  <2>2. AgentTypes'
    BY <1>50 DEF AgentTypes, AgentExits, AgentFrame
  <2>3. OtherTypes'
    BY <1>50 DEF OtherTypes, AgentExits, AgentFrame, Fault, FaultKind
  <2>. QED
    BY <1>50, <2>1, <2>2, <2>3 DEF AgentExits, AgentFrame, SpecTypes,
       DbTypes
<1>51. ASSUME NEW i \in Step, AgentSelfStarts(i)
      PROVE  TypeOK'
  <2>1. DriveTypes'
    BY <1>51, Events DEF DriveTypes, AgentSelfStarts, AgentFrame,
       Broadcast
  <2>2. AgentTypes'
    BY <1>51 DEF AgentTypes, AgentSelfStarts, AgentFrame
  <2>3. OtherTypes'
    BY <1>51 DEF OtherTypes, AgentSelfStarts, AgentFrame, Fault, FaultKind
  <2>. QED
    BY <1>51, <2>1, <2>2, <2>3 DEF AgentSelfStarts, AgentFrame, SpecTypes,
       DbTypes
<1>52. ASSUME Crash PROVE TypeOK'
  <2>1. DriveTypes'
    BY <1>52, Dropped DEF DriveTypes, Crash, KernelPc
  <2>2. AgentTypes'
    BY <1>52 DEF AgentTypes, Crash, PromptState
  <2>3. /\ faults' \in [FaultKind -> Nat] /\ journal' \in Seq(Outcome)
        /\ exec' = exec \/ CloseFailed
    BY <1>52, Struck DEF Crash, OtherTypes, DbTypes
  <2>4. OtherTypes'
    BY <1>52, <2>3 DEF OtherTypes, Crash
  <2>5. DbTypes'
    BY <1>52, <2>3 DEF DbTypes, Crash, CloseFailed, SetExec, ExecStatus, DriveTypes
  <2>. QED
    BY <1>52, <2>1, <2>2, <2>4, <2>5 DEF Crash, SpecTypes
<1>53. ASSUME Boot PROVE TypeOK'
  <2>1. DriveTypes'
    BY <1>53 DEF DriveTypes, Boot, SpawnDrive, KernelPc
  <2>2. OtherTypes'
    BY <1>53 DEF OtherTypes, Boot
  <2>. QED
    BY <1>53, <2>1, <2>2 DEF Boot, SpawnDrive, SpecTypes, DbTypes,
       AgentTypes
<1>54. ASSUME UNCHANGED vars PROVE TypeOK'
  BY <1>54 DEF vars, SpecTypes, DbTypes, DriveTypes, AgentTypes, OtherTypes
<1>. QED
  BY <1>1, <1>2, <1>3, <1>4, <1>5, <1>6, <1>7, <1>8, <1>9, <1>10, <1>11,
     <1>12, <1>13, <1>14, <1>15, <1>16, <1>17, <1>18, <1>19, <1>20, <1>21,
     <1>22, <1>23, <1>24, <1>25, <1>26, <1>27, <1>28, <1>29, <1>30, <1>31,
     <1>32, <1>33, <1>34, <1>35, <1>36, <1>37, <1>38, <1>39, <1>40, <1>41,
     <1>42, <1>43, <1>44, <1>45, <1>46, <1>47, <1>48, <1>49, <1>50, <1>51,
     <1>52, <1>53, <1>54, <1>55 DEF Next, Command, Kernel, Agent

----------------------------------------------------------------------------
(* Layer 2: driver, registry, mutex and row                                *)

\* No driver, no row.
LEMMA DriverInit == Init => DriverInv
  BY DEF Init, DriverInv, RegOK, DownOK, LockOK, RowOK, ExitOK,
         ActiveHasDriver, RowExists, Active

\* Every step keeps driver, registry, mutex and row in agreement.
LEMMA DriverStep == ASSUME DriverInv, [Next]_vars PROVE DriverInv'
<1> USE DEF DriverInv, RegOK, DownOK, LockOK, RowOK, ExitOK, ActiveHasDriver,
            RowExists, Active, KernelAt, KernelFrame, GoTo, specVars, dbVars,
            driveVars, agentVars, gitVars, cmdVars, hostVars
<1>1. ASSUME LaunchInsert PROVE DriverInv'
  BY <1>1 DEF LaunchInsert
<1>2. ASSUME LaunchSpawn PROVE DriverInv'
  BY <1>2 DEF LaunchSpawn, SpawnDrive
<1>3. ASSUME CancelRead PROVE DriverInv'
  BY <1>3 DEF CancelRead
<1>4. ASSUME CancelFlag PROVE DriverInv'
  BY <1>4 DEF CancelFlag
<1>5. ASSUME CancelStop PROVE DriverInv'
  BY <1>5 DEF CancelStop
<1>6. ASSUME CancelWrite PROVE DriverInv'
  BY <1>6 DEF CancelWrite, SetStatus
<1>7. ASSUME DeleteCheck PROVE DriverInv'
  BY <1>7 DEF DeleteCheck, Terminal
<1>8. ASSUME DeleteRegistry PROVE DriverInv'
  BY <1>8 DEF DeleteRegistry, WindingDown
<1>9. ASSUME DeleteDiscard PROVE DriverInv'
  BY <1>9 DEF DeleteDiscard
<1>10. ASSUME DeleteData PROVE DriverInv'
  BY <1>10 DEF DeleteData
<1>11. ASSUME DeleteDataFails PROVE DriverInv'
  BY <1>11 DEF DeleteDataFails
<1>12. ASSUME Load PROVE DriverInv'
  BY <1>12 DEF Load, Startable
<1>13. ASSUME Provision PROVE DriverInv'
  BY <1>13 DEF Provision, SetStatus
<1>14. ASSUME ProvisionFails PROVE DriverInv'
  BY <1>14 DEF ProvisionFails, KernelErr, FailRun, SetStatus
<1>15. ASSUME Loop PROVE DriverInv'
  BY <1>15 DEF Loop
<1>16. ASSUME CancelRun PROVE DriverInv'
  BY <1>16 DEF CancelRun, SetStatus
<1>17. ASSUME Spawn PROVE DriverInv'
  BY <1>17 DEF Spawn
<1>18. ASSUME Ready PROVE DriverInv'
  BY <1>18 DEF Ready, ReadyOn
<1>19. ASSUME ReadyEvent PROVE DriverInv'
  BY <1>19 DEF ReadyEvent, ReadyOn
<1>20. ASSUME Subscribe PROVE DriverInv'
  BY <1>20 DEF Subscribe
<1>21. ASSUME Send PROVE DriverInv'
  BY <1>21 DEF Send
<1>22. ASSUME SendHeld PROVE DriverInv'
  BY <1>22 DEF SendHeld
<1>23. ASSUME Await PROVE DriverInv'
  BY <1>23 DEF Await
<1>24. ASSUME StepErr PROVE DriverInv'
  BY <1>24 DEF StepErr, StepWait
<1>25. ASSUME StepCanceled PROVE DriverInv'
  BY <1>25 DEF StepCanceled, StepWait
<1>26. ASSUME Gate PROVE DriverInv'
  BY <1>26 DEF Gate
<1>27. ASSUME Commit PROVE DriverInv'
  BY <1>27 DEF Commit
<1>28. ASSUME Record PROVE DriverInv'
  BY <1>28 DEF Record
<1>29. ASSUME ArchiveStep PROVE DriverInv'
  BY <1>29 DEF ArchiveStep
<1>30. ASSUME Finalize PROVE DriverInv'
  BY <1>30 DEF Finalize
<1>31. ASSUME FinalizeErr PROVE DriverInv'
  BY <1>31 DEF FinalizeErr, KernelErr, FailRun, SetStatus
<1>32. ASSUME FinRecord PROVE DriverInv'
  BY <1>32 DEF FinRecord
<1>33. ASSUME Finish PROVE DriverInv'
  BY <1>33 DEF Finish, SetStatus
<1>34. ASSUME FailStop PROVE DriverInv'
  BY <1>34 DEF FailStop
<1>35. ASSUME FailWrite PROVE DriverInv'
  BY <1>35 DEF FailWrite, FailRun, SetStatus
<1>36. ASSUME CancelStepStop PROVE DriverInv'
  BY <1>36 DEF CancelStepStop
<1>37. ASSUME CancelStepAbandon PROVE DriverInv'
  BY <1>37 DEF CancelStepAbandon
<1>38. ASSUME CancelStepArchive PROVE DriverInv'
  BY <1>38 DEF CancelStepArchive
<1>39. ASSUME CancelStepWrite PROVE DriverInv'
  BY <1>39 DEF CancelStepWrite, SetStatus
<1>40. ASSUME RefuseStale PROVE DriverInv'
  BY <1>40 DEF RefuseStale
<1>41. ASSUME RefuseFail PROVE DriverInv'
  BY <1>41 DEF RefuseFail, KernelErr, FailRun, SetStatus
<1>42. ASSUME Deregister PROVE DriverInv'
  BY <1>42 DEF Deregister
<1>43. ASSUME SendRequeued PROVE DriverInv'
  BY <1>43 DEF SendRequeued
<1>44. ASSUME Panic PROVE DriverInv'
  BY <1>44 DEF Panic
<1>55. ASSUME WatchdogFails PROVE DriverInv'
  BY <1>55 DEF WatchdogFails, KernelErr, FailRun, SetStatus
<1>45. ASSUME NEW i \in Step, AgentReady(i)
      PROVE  DriverInv'
  BY <1>45 DEF AgentReady, AgentFrame
<1>46. ASSUME NEW i \in Step, AgentTurnEnds(i)
      PROVE  DriverInv'
  BY <1>46 DEF AgentTurnEnds, AgentFrame
<1>47. ASSUME NEW i \in Step, AgentRedeliver(i)
      PROVE  DriverInv'
  BY <1>47 DEF AgentRedeliver, AgentFrame
<1>48. ASSUME NEW i \in Step, AgentReadyLate(i)
      PROVE  DriverInv'
  BY <1>48 DEF AgentReadyLate, AgentFrame
<1>49. ASSUME NEW i \in Step, LateBroadcast(i)
      PROVE  DriverInv'
  BY <1>49 DEF LateBroadcast, AgentFrame
<1>50. ASSUME NEW i \in Step, AgentExits(i)
      PROVE  DriverInv'
  BY <1>50 DEF AgentExits, AgentFrame
<1>51. ASSUME NEW i \in Step, AgentSelfStarts(i)
      PROVE  DriverInv'
  BY <1>51 DEF AgentSelfStarts, AgentFrame
<1>52. ASSUME Crash PROVE DriverInv'
  BY <1>52 DEF Crash
<1>53. ASSUME Boot PROVE DriverInv'
  BY <1>53 DEF Boot, SpawnDrive, Resumable
<1>54. ASSUME UNCHANGED vars PROVE DriverInv'
  BY <1>54 DEF vars
<1>. QED
  BY <1>1, <1>2, <1>3, <1>4, <1>5, <1>6, <1>7, <1>8, <1>9, <1>10, <1>11,
     <1>12, <1>13, <1>14, <1>15, <1>16, <1>17, <1>18, <1>19, <1>20, <1>21,
     <1>22, <1>23, <1>24, <1>25, <1>26, <1>27, <1>28, <1>29, <1>30, <1>31,
     <1>32, <1>33, <1>34, <1>35, <1>36, <1>37, <1>38, <1>39, <1>40, <1>41,
     <1>42, <1>43, <1>44, <1>45, <1>46, <1>47, <1>48, <1>49, <1>50, <1>51,
     <1>52, <1>53, <1>54, <1>55 DEF Next, Command, Kernel, Agent

----------------------------------------------------------------------------
(* Layer 3: progress                                                       *)

\* Nothing has happened yet.
LEMMA ProgressInit == Init => ProgressInv
  BY DEF Init, ProgressInv, FreshOK, NotStarted, StartOK, AheadOK, PrefixOK,
         NothingIsRerun, StepPc, StepWait

\* Spawning the step in hand is its first spawn.
LEMMA SpawnProgress ==
  ASSUME TypeInv, DriverInv, ProgressInv, Spawn
  PROVE  ProgressInv' /\ CurOK'
<1>1. pc = "spawn" /\ pc' = "ready" /\ cur' = cur /\ row' = row /\ UNCHANGED gitVars /\ spawns' = [spawns EXCEPT ![cur] = @ + 1]
  BY DEF Spawn, KernelAt, GoTo
<1>2. cur \in Step /\ CurOK'
  BY <1>1 DEF TypeInv, CurOK, StepPc, StepWait
<1>3. spawns \in [Step -> Nat] /\ spawns[cur] = 0
  BY <1>1, <1>2 DEF TypeInv, TypeOK, AgentTypes, ProgressInv, AheadOK
<1>4. \A j \in Step : spawns'[j] = IF j = cur THEN 1 ELSE spawns[j]
  BY <1>1, <1>2, <1>3
<1>5. NothingIsRerun'
  BY <1>4 DEF NothingIsRerun, ProgressInv
<1>6. AheadOK'
  BY <1>1, <1>2, <1>4 DEF AheadOK, ProgressInv, Step, StepPc, StepWait
<1>7. FreshOK' /\ StartOK'
  BY <1>1 DEF FreshOK, StartOK, ProgressInv, DriverInv, RowOK, RowExists
<1>8. PrefixOK'
  BY <1>1 DEF PrefixOK, ProgressInv, StepWait, gitVars
<1>. QED BY <1>2, <1>5, <1>6, <1>7, <1>8 DEF ProgressInv

\* Committing the step in hand extends the prefix of pinned steps by one.
LEMMA CommitProgress ==
  ASSUME TypeInv, DriverInv, ProgressInv, Commit
  PROVE  ProgressInv' /\ CurOK'
<1>1. pc = "commit" /\ cur' = cur /\ row' = row /\ spawns' = spawns /\ published' = published
  BY DEF Commit, KernelAt, KernelFrame, dbVars, agentVars
<1>2. cur \in Step /\ CurOK' /\ cur \in Nat \ {0}
  BY <1>1, ConstantsAssumption DEF TypeInv, CurOK, StepPc, StepWait, Step
<1>3. \/ pc' = "record" /\ pinned' = 1..cur
      \/ pc' = "failStop" /\ pinned' = pinned
  BY <1>1, <1>2, IntervalGrows DEF Commit, GoTo, ProgressInv, PrefixOK
<1>4. NothingIsRerun' /\ AheadOK'
  BY <1>1, <1>3 DEF NothingIsRerun, AheadOK, ProgressInv, StepPc
<1>5. FreshOK' /\ StartOK'
  BY <1>1, <1>3 DEF FreshOK, StartOK, ProgressInv, DriverInv, RowOK, RowExists
<1>6. PrefixOK'
  BY <1>1, <1>3 DEF PrefixOK, ProgressInv, StepWait
<1>. QED BY <1>2, <1>4, <1>5, <1>6 DEF ProgressInv

\* Every step keeps track of how far the run has come.
LEMMA ProgressStep ==
  ASSUME TypeInv, DriverInv, ProgressInv, [Next]_vars
  PROVE  ProgressInv' /\ CurOK'
<1> USE ConstantsAssumption
        DEF TypeInv, TypeOK, DriveTypes, ProgressInv, CurOK, RowExists, Active,
            FreshOK, NotStarted, StartOK, AheadOK, PrefixOK, NothingIsRerun,
            StepPc, StepWait, Step, KernelAt, KernelFrame, GoTo, specVars,
            dbVars, driveVars, agentVars, gitVars, cmdVars, hostVars
<1>1. ASSUME LaunchInsert PROVE ProgressInv' /\ CurOK'
  BY <1>1 DEF LaunchInsert, DriverInv, RowOK
<1>2. ASSUME LaunchSpawn PROVE ProgressInv' /\ CurOK'
  BY <1>2 DEF LaunchSpawn, SpawnDrive, DriverInv, RegOK, LockOK
<1>3. ASSUME CancelRead PROVE ProgressInv' /\ CurOK'
  BY <1>3 DEF CancelRead
<1>4. ASSUME CancelFlag PROVE ProgressInv' /\ CurOK'
  BY <1>4 DEF CancelFlag
<1>5. ASSUME CancelStop PROVE ProgressInv' /\ CurOK'
  BY <1>5 DEF CancelStop
<1>6. ASSUME CancelWrite PROVE ProgressInv' /\ CurOK'
  BY <1>6 DEF CancelWrite, SetStatus, DriverInv, RowOK
<1>7. ASSUME DeleteCheck PROVE ProgressInv' /\ CurOK'
  BY <1>7 DEF DeleteCheck
<1>8. ASSUME DeleteRegistry PROVE ProgressInv' /\ CurOK'
  BY <1>8 DEF DeleteRegistry
<1>9. ASSUME DeleteDiscard PROVE ProgressInv' /\ CurOK'
  BY <1>9 DEF DeleteDiscard
<1>10. ASSUME DeleteData PROVE ProgressInv' /\ CurOK'
  BY <1>10 DEF DeleteData, DriverInv, LockOK
<1>11. ASSUME DeleteDataFails PROVE ProgressInv' /\ CurOK'
  BY <1>11 DEF DeleteDataFails
<1>12. ASSUME Load PROVE ProgressInv' /\ CurOK'
  BY <1>12 DEF Load, Startable
<1>13. ASSUME Provision PROVE ProgressInv' /\ CurOK'
  BY <1>13 DEF Provision, SetStatus, DriverInv, RowOK
<1>14. ASSUME ProvisionFails PROVE ProgressInv' /\ CurOK'
  BY <1>14 DEF ProvisionFails, KernelErr, FailRun, SetStatus, DriverInv,
     RowOK
<1>15. ASSUME Loop PROVE ProgressInv' /\ CurOK'
  BY <1>15 DEF Loop, StepsLeft
<1>16. ASSUME CancelRun PROVE ProgressInv' /\ CurOK'
  BY <1>16 DEF CancelRun, SetStatus, DriverInv, RowOK
<1>17. ASSUME Spawn PROVE ProgressInv' /\ CurOK'
  BY <1>17, SpawnProgress
<1>18. ASSUME Ready PROVE ProgressInv' /\ CurOK'
  BY <1>18 DEF Ready, ReadyOn
<1>19. ASSUME ReadyEvent PROVE ProgressInv' /\ CurOK'
  BY <1>19 DEF ReadyEvent, ReadyOn
<1>20. ASSUME Subscribe PROVE ProgressInv' /\ CurOK'
  BY <1>20 DEF Subscribe
<1>21. ASSUME Send PROVE ProgressInv' /\ CurOK'
  BY <1>21 DEF Send
<1>22. ASSUME SendHeld PROVE ProgressInv' /\ CurOK'
  BY <1>22 DEF SendHeld
<1>23. ASSUME Await PROVE ProgressInv' /\ CurOK'
  BY <1>23 DEF Await
<1>24. ASSUME StepErr PROVE ProgressInv' /\ CurOK'
  BY <1>24 DEF StepErr
<1>25. ASSUME StepCanceled PROVE ProgressInv' /\ CurOK'
  BY <1>25 DEF StepCanceled
<1>26. ASSUME Gate PROVE ProgressInv' /\ CurOK'
  BY <1>26 DEF Gate
<1>27. ASSUME Commit PROVE ProgressInv' /\ CurOK'
  BY <1>27, CommitProgress
<1>28. ASSUME Record PROVE ProgressInv' /\ CurOK'
  BY <1>28 DEF Record
<1>29. ASSUME ArchiveStep PROVE ProgressInv' /\ CurOK'
  BY <1>29 DEF ArchiveStep
<1>30. ASSUME Finalize PROVE ProgressInv' /\ CurOK'
  BY <1>30 DEF Finalize, DriverInv, RowOK
<1>31. ASSUME FinalizeErr PROVE ProgressInv' /\ CurOK'
  BY <1>31 DEF FinalizeErr, KernelErr, FailRun, SetStatus, DriverInv, RowOK
<1>32. ASSUME FinRecord PROVE ProgressInv' /\ CurOK'
  BY <1>32 DEF FinRecord
<1>33. ASSUME Finish PROVE ProgressInv' /\ CurOK'
  BY <1>33 DEF Finish, SetStatus, DriverInv, RowOK
<1>34. ASSUME FailStop PROVE ProgressInv' /\ CurOK'
  BY <1>34 DEF FailStop
<1>35. ASSUME FailWrite PROVE ProgressInv' /\ CurOK'
  BY <1>35 DEF FailWrite, FailRun, SetStatus, DriverInv, RowOK
<1>36. ASSUME CancelStepStop PROVE ProgressInv' /\ CurOK'
  BY <1>36 DEF CancelStepStop
<1>37. ASSUME CancelStepAbandon PROVE ProgressInv' /\ CurOK'
  BY <1>37 DEF CancelStepAbandon
<1>38. ASSUME CancelStepArchive PROVE ProgressInv' /\ CurOK'
  BY <1>38 DEF CancelStepArchive
<1>39. ASSUME CancelStepWrite PROVE ProgressInv' /\ CurOK'
  BY <1>39 DEF CancelStepWrite, SetStatus, DriverInv, RowOK
<1>40. ASSUME RefuseStale PROVE ProgressInv' /\ CurOK'
  BY <1>40 DEF RefuseStale
<1>41. ASSUME RefuseFail PROVE ProgressInv' /\ CurOK'
  BY <1>41 DEF RefuseFail, KernelErr, FailRun, SetStatus, DriverInv, RowOK
<1>42. ASSUME Deregister PROVE ProgressInv' /\ CurOK'
  BY <1>42 DEF Deregister, DropLocals
<1>43. ASSUME SendRequeued PROVE ProgressInv' /\ CurOK'
  BY <1>43 DEF SendRequeued
<1>44. ASSUME Panic PROVE ProgressInv' /\ CurOK'
  BY <1>44 DEF Panic, DriverInv, RowOK
<1>55. ASSUME WatchdogFails PROVE ProgressInv' /\ CurOK'
  BY <1>55 DEF WatchdogFails, KernelErr, FailRun, SetStatus, DriverInv, RowOK
<1>45. ASSUME NEW i \in Step, AgentReady(i)
      PROVE  ProgressInv' /\ CurOK'
  BY <1>45 DEF AgentReady, AgentFrame
<1>46. ASSUME NEW i \in Step, AgentTurnEnds(i)
      PROVE  ProgressInv' /\ CurOK'
  BY <1>46 DEF AgentTurnEnds, AgentFrame
<1>47. ASSUME NEW i \in Step, AgentRedeliver(i)
      PROVE  ProgressInv' /\ CurOK'
  BY <1>47 DEF AgentRedeliver, AgentFrame
<1>48. ASSUME NEW i \in Step, AgentReadyLate(i)
      PROVE  ProgressInv' /\ CurOK'
  BY <1>48 DEF AgentReadyLate, AgentFrame
<1>49. ASSUME NEW i \in Step, LateBroadcast(i)
      PROVE  ProgressInv' /\ CurOK'
  BY <1>49 DEF LateBroadcast, AgentFrame
<1>50. ASSUME NEW i \in Step, AgentExits(i)
      PROVE  ProgressInv' /\ CurOK'
  BY <1>50 DEF AgentExits, AgentFrame
<1>51. ASSUME NEW i \in Step, AgentSelfStarts(i)
      PROVE  ProgressInv' /\ CurOK'
  BY <1>51 DEF AgentSelfStarts, AgentFrame
<1>52. ASSUME Crash PROVE ProgressInv' /\ CurOK'
  BY <1>52 DEF Crash, DropLocals
<1>53. ASSUME Boot PROVE ProgressInv' /\ CurOK'
  BY <1>53 DEF Boot, SpawnDrive, Resumable, DriverInv, DownOK
<1>54. ASSUME UNCHANGED vars PROVE ProgressInv' /\ CurOK'
  BY <1>54 DEF vars
<1>. QED
  BY <1>1, <1>2, <1>3, <1>4, <1>5, <1>6, <1>7, <1>8, <1>9, <1>10, <1>11,
     <1>12, <1>13, <1>14, <1>15, <1>16, <1>17, <1>18, <1>19, <1>20, <1>21,
     <1>22, <1>23, <1>24, <1>25, <1>26, <1>27, <1>28, <1>29, <1>30, <1>31,
     <1>32, <1>33, <1>34, <1>35, <1>36, <1>37, <1>38, <1>39, <1>40, <1>41,
     <1>42, <1>43, <1>44, <1>45, <1>46, <1>47, <1>48, <1>49, <1>50, <1>51,
     <1>52, <1>53, <1>54, <1>55 DEF Next, Command, Kernel, Agent

----------------------------------------------------------------------------
(* The theorems                                                            *)

\* The inductive invariant holds in every reachable state.
THEOREM Inductive == Spec => []IInv
<1>1. Init => IInv
  BY TypeInit, DriverInit, ProgressInit DEF IInv
<1>2. IInv /\ [Next]_vars => IInv'
  <2> SUFFICES ASSUME IInv, [Next]_vars PROVE IInv'
    OBVIOUS
  <2>1. TypeInv'
    BY TypeStep, ProgressStep DEF IInv, TypeInv
  <2>. QED
    BY <2>1, DriverStep, ProgressStep DEF IInv
<1>. QED  BY <1>1, <1>2, PTL DEF Spec

\* Every variable keeps its type, for every number of steps and of faults.
THEOREM TypeCorrect == Spec => []TypeOK
<1>1. IInv => TypeOK  BY DEF IInv, TypeInv
<1>. QED  BY <1>1, Inductive, PTL

\* No active run without a drive task: run_kernel, its watchdog and
\* resume_active_runs together never leave a run to nobody.
THEOREM DriverAlways == Spec => []ActiveHasDriver
<1>1. IInv => ActiveHasDriver  BY DEF IInv, DriverInv
<1>. QED  BY <1>1, Inductive, PTL

\* No step of a run is ever spawned twice.
THEOREM NoRerun == Spec => []NothingIsRerun
<1>1. IInv => NothingIsRerun  BY DEF IInv, ProgressInv
<1>. QED  BY <1>1, Inductive, PTL

\* A run is never deleted under its drive task.
THEOREM DeleteIsSafe == Spec => []NoDeleteUnderDriver
<1>1. IInv => NoDeleteUnderDriver
  BY DEF IInv, DriverInv, RegOK, RowOK, RowExists, NoDeleteUnderDriver
<1>. QED  BY <1>1, Inductive, PTL

----------------------------------------------------------------------------
(* The run implements its contract                                         *)

\* The work a run leaves is a contract's work, or unchanged, at every step.
LEMMA ContractStep ==
  ASSUME IInv, [Next]_vars
  PROVE  [Contract!Next]_(Contract!contractVars)
<1> USE DEF Contract!contractVars, Contract!Next, RowExists, KernelAt,
            KernelFrame, GoTo, specVars, dbVars, driveVars, agentVars, gitVars,
            cmdVars, hostVars
<1>1. ASSUME LaunchInsert PROVE UNCHANGED Contract!contractVars
  BY <1>1 DEF LaunchInsert
<1>2. ASSUME LaunchSpawn PROVE UNCHANGED Contract!contractVars
  BY <1>2 DEF LaunchSpawn, SpawnDrive
<1>3. ASSUME CancelRead PROVE UNCHANGED Contract!contractVars
  BY <1>3 DEF CancelRead
<1>4. ASSUME CancelFlag PROVE UNCHANGED Contract!contractVars
  BY <1>4 DEF CancelFlag
<1>5. ASSUME CancelStop PROVE UNCHANGED Contract!contractVars
  BY <1>5 DEF CancelStop
<1>6. ASSUME CancelWrite PROVE UNCHANGED Contract!contractVars
  BY <1>6 DEF CancelWrite, SetStatus
<1>7. ASSUME DeleteCheck PROVE UNCHANGED Contract!contractVars
  BY <1>7 DEF DeleteCheck
<1>8. ASSUME DeleteRegistry PROVE UNCHANGED Contract!contractVars
  BY <1>8 DEF DeleteRegistry
<1>9. ASSUME DeleteDiscard PROVE UNCHANGED Contract!contractVars
  BY <1>9 DEF DeleteDiscard
<1>10. ASSUME DeleteData PROVE Contract!Next
  BY <1>10 DEF DeleteData, Contract!Delete, IInv, DriverInv, LockOK
<1>11. ASSUME DeleteDataFails PROVE UNCHANGED Contract!contractVars
  BY <1>11 DEF DeleteDataFails
<1>12. ASSUME Load PROVE UNCHANGED Contract!contractVars
  BY <1>12 DEF Load
<1>13. ASSUME Provision PROVE UNCHANGED Contract!contractVars
  BY <1>13 DEF Provision, SetStatus
<1>14. ASSUME ProvisionFails PROVE UNCHANGED Contract!contractVars
  BY <1>14 DEF ProvisionFails, KernelErr, FailRun, SetStatus
<1>15. ASSUME Loop PROVE UNCHANGED Contract!contractVars
  BY <1>15 DEF Loop
<1>16. ASSUME CancelRun PROVE UNCHANGED Contract!contractVars
  BY <1>16 DEF CancelRun, SetStatus
<1>17. ASSUME Spawn PROVE UNCHANGED Contract!contractVars
  BY <1>17 DEF Spawn
<1>18. ASSUME Ready PROVE UNCHANGED Contract!contractVars
  BY <1>18 DEF Ready
<1>19. ASSUME ReadyEvent PROVE UNCHANGED Contract!contractVars
  BY <1>19 DEF ReadyEvent
<1>20. ASSUME Subscribe PROVE UNCHANGED Contract!contractVars
  BY <1>20 DEF Subscribe
<1>21. ASSUME Send PROVE UNCHANGED Contract!contractVars
  BY <1>21 DEF Send
<1>22. ASSUME SendHeld PROVE UNCHANGED Contract!contractVars
  BY <1>22 DEF SendHeld
<1>23. ASSUME Await PROVE UNCHANGED Contract!contractVars
  BY <1>23 DEF Await
<1>24. ASSUME StepErr PROVE UNCHANGED Contract!contractVars
  BY <1>24 DEF StepErr
<1>25. ASSUME StepCanceled PROVE UNCHANGED Contract!contractVars
  BY <1>25 DEF StepCanceled
<1>26. ASSUME Gate PROVE UNCHANGED Contract!contractVars
  BY <1>26 DEF Gate
<1>27. ASSUME Commit 
      PROVE  [Contract!Next]_(Contract!contractVars)
  <2>1. pc = "commit" /\ row' = row /\ published' = published
    BY <1>27 DEF Commit
  <2>2. cur \in 1..N /\ cur \in Nat \ {0}
    BY <2>1, ConstantsAssumption
       DEF IInv, TypeInv, CurOK, StepPc, Step
  <2>3. row # "deleted" /\ published = "none" /\ pinned = 1..(cur - 1)
    BY <2>1 DEF IInv, DriverInv, RowOK, ProgressInv, PrefixOK
  <2>4. pinned' = 1..cur \/ pinned' = pinned
    BY <1>27, <2>2, <2>3, IntervalGrows DEF Commit
  <2>. QED  BY <2>1, <2>2, <2>3, <2>4 DEF Contract!CommitStep
<1>28. ASSUME Record PROVE UNCHANGED Contract!contractVars
  BY <1>28 DEF Record
<1>29. ASSUME ArchiveStep PROVE UNCHANGED Contract!contractVars
  BY <1>29 DEF ArchiveStep
<1>30. ASSUME Finalize 
      PROVE  [Contract!Next]_(Contract!contractVars)
  <2>1. pc = "finalize" /\ row' = row /\ pinned' = pinned
    BY <1>30 DEF Finalize
  <2>2. row # "deleted" /\ published = "none" /\ pinned = 1..N
    BY <2>1 DEF IInv, DriverInv, RowOK, ProgressInv, PrefixOK
  <2>. QED  BY <1>30, <2>1, <2>2 DEF Finalize, Contract!Publish
<1>31. ASSUME FinalizeErr PROVE UNCHANGED Contract!contractVars
  BY <1>31 DEF FinalizeErr, KernelErr, FailRun, SetStatus
<1>32. ASSUME FinRecord PROVE UNCHANGED Contract!contractVars
  BY <1>32 DEF FinRecord
<1>33. ASSUME Finish PROVE UNCHANGED Contract!contractVars
  BY <1>33 DEF Finish, SetStatus
<1>34. ASSUME FailStop PROVE UNCHANGED Contract!contractVars
  BY <1>34 DEF FailStop
<1>35. ASSUME FailWrite PROVE UNCHANGED Contract!contractVars
  BY <1>35 DEF FailWrite, FailRun, SetStatus
<1>36. ASSUME CancelStepStop PROVE UNCHANGED Contract!contractVars
  BY <1>36 DEF CancelStepStop
<1>37. ASSUME CancelStepAbandon PROVE UNCHANGED Contract!contractVars
  BY <1>37 DEF CancelStepAbandon
<1>38. ASSUME CancelStepArchive PROVE UNCHANGED Contract!contractVars
  BY <1>38 DEF CancelStepArchive
<1>39. ASSUME CancelStepWrite PROVE UNCHANGED Contract!contractVars
  BY <1>39 DEF CancelStepWrite, SetStatus
<1>40. ASSUME RefuseStale PROVE UNCHANGED Contract!contractVars
  BY <1>40 DEF RefuseStale
<1>41. ASSUME RefuseFail PROVE UNCHANGED Contract!contractVars
  BY <1>41 DEF RefuseFail, KernelErr, FailRun, SetStatus
<1>42. ASSUME Deregister PROVE UNCHANGED Contract!contractVars
  BY <1>42 DEF Deregister
<1>43. ASSUME SendRequeued PROVE UNCHANGED Contract!contractVars
  BY <1>43 DEF SendRequeued
<1>44. ASSUME Panic PROVE UNCHANGED Contract!contractVars
  BY <1>44 DEF Panic
<1>55. ASSUME WatchdogFails PROVE UNCHANGED Contract!contractVars
  BY <1>55 DEF WatchdogFails, KernelErr, FailRun, SetStatus
<1>45. ASSUME NEW i \in Step, AgentReady(i)
      PROVE  UNCHANGED Contract!contractVars
  BY <1>45 DEF AgentReady, AgentFrame
<1>46. ASSUME NEW i \in Step, AgentTurnEnds(i)
      PROVE  UNCHANGED Contract!contractVars
  BY <1>46 DEF AgentTurnEnds, AgentFrame
<1>47. ASSUME NEW i \in Step, AgentRedeliver(i)
      PROVE  UNCHANGED Contract!contractVars
  BY <1>47 DEF AgentRedeliver, AgentFrame
<1>48. ASSUME NEW i \in Step, AgentReadyLate(i)
      PROVE  UNCHANGED Contract!contractVars
  BY <1>48 DEF AgentReadyLate, AgentFrame
<1>49. ASSUME NEW i \in Step, LateBroadcast(i)
      PROVE  UNCHANGED Contract!contractVars
  BY <1>49 DEF LateBroadcast, AgentFrame
<1>50. ASSUME NEW i \in Step, AgentExits(i)
      PROVE  UNCHANGED Contract!contractVars
  BY <1>50 DEF AgentExits, AgentFrame
<1>51. ASSUME NEW i \in Step, AgentSelfStarts(i)
      PROVE  UNCHANGED Contract!contractVars
  BY <1>51 DEF AgentSelfStarts, AgentFrame
<1>52. ASSUME Crash PROVE UNCHANGED Contract!contractVars
  BY <1>52 DEF Crash
<1>53. ASSUME Boot PROVE UNCHANGED Contract!contractVars
  BY <1>53 DEF Boot, SpawnDrive
<1>54. ASSUME UNCHANGED vars PROVE UNCHANGED Contract!contractVars
  BY <1>54 DEF vars
<1>. QED
  BY <1>1, <1>2, <1>3, <1>4, <1>5, <1>6, <1>7, <1>8, <1>9, <1>10, <1>11,
     <1>12, <1>13, <1>14, <1>15, <1>16, <1>17, <1>18, <1>19, <1>20, <1>21,
     <1>22, <1>23, <1>24, <1>25, <1>26, <1>27, <1>28, <1>29, <1>30, <1>31,
     <1>32, <1>33, <1>34, <1>35, <1>36, <1>37, <1>38, <1>39, <1>40, <1>41,
     <1>42, <1>43, <1>44, <1>45, <1>46, <1>47, <1>48, <1>49, <1>50, <1>51,
     <1>52, <1>53, <1>54, <1>55 DEF Next, Command, Kernel, Agent

\* Whatever the steps, agents, cancels, panics and crashes do, a run keeps the
\* contract on the work it produces.
THEOREM Refinement == Spec => ImplementsContract
<1>1. Init => Contract!Init
  BY DEF Init, Contract!Init
<1>2. IInv /\ [Next]_vars => [Contract!Next]_(Contract!contractVars)
  BY ContractStep
<1>. QED
  BY <1>1, <1>2, Inductive, PTL DEF Spec, ImplementsContract, Contract!Spec

-----------------------------------------------------------------------------
(***************************************************************************)
(* How a run ends and which agents it leaves.  These theorems rest on the  *)
(* inductive invariant above.                                              *)
(***************************************************************************)

(***************************************************************************)
(* 1. What the run says of itself.  As long as a driver is at work or a run *)
(* can be driven again, every outcome on the timeline is one whose status  *)
(* a crash or a panic kept from being written; a cancel that raced the end *)
(* may overwrite the status, but journals nothing.                         *)
(***************************************************************************)
Ending == pc \in {"none", "exit"}

Last == journal[Len(journal)]

JournalOK ==
    /\ ~Ending \/ row \in {"absent", "pending", "running"} \/ lifecycle = "launch"
         => Len(journal) <= faults["torn"]
    /\ Len(journal) <= 1 + faults["torn"]
    /\ row = "done" => journal # <<>> /\ Last = "run_done"
    /\ row = "failed" => journal # <<>> /\ Last = "run_failed"
EndedOK == row \in {"done", "failed"} => Ending
OutcomeInv == JournalOK /\ EndedOK

(***************************************************************************)
(* 2. What a run that goes on has behind it: the steps before the one in   *)
(* hand passed, the ones after it were not begun.                          *)
(***************************************************************************)
Judged(i) == gate[i] = "verdict" => verdict[i] = "done"
Passed(i) == exec[i] = "done" /\ Judged(i)

PassedOK ==
    /\ pc \in StepPc \cup {"loop"} => \A i \in Step : i < cur => Passed(i)
    /\ pc \in {"commit", "record"} => Judged(cur)
    /\ pc = "archive" => Passed(cur)
    /\ pc = "loop" => \A i \in Step : i >= cur => exec[i] = "none"
    /\ pc \in StepPc => \A i \in Step : i > cur => exec[i] = "none"
    /\ pc = "provision" \/ row \in {"absent", "pending"} =>
         \A i \in Step : exec[i] = "none"
PushedOK ==
    /\ pc \in {"finalize", "finRecord", "finish"} =>
         /\ \A i \in Step : Passed(i)
         /\ pinned = Step
    /\ pc \in {"finRecord", "finish"} /\ fin # "none" => published # "none"
    /\ pc = "finish" /\ published = "pr" => prRow
ClosedOK ==
    faults["panic"] = 0 /\ row = "failed" => \A i \in Step : exec[i] \notin ExecOpen
WorkInv == PassedOK /\ PushedOK /\ ClosedOK /\ DoneMeansEveryStep

\* Who panicked is counted.
PanicOK == pc = "panicked" => faults["panic"] # 0

(***************************************************************************)
(* 3. The agents, as long as none had a glitch: only the kernel starts a   *)
(* turn, of the step in hand, and it goes on only once that turn is over   *)
(* or was told to stop.                                                    *)
(***************************************************************************)
Working(i) == agent[i] = "running"

CalmOK == late = {} /\ \A i \in Step : prompt[i] \notin {"queued", "held"}
ReadyOK ==
    /\ pc \in {"ready", "readyWait", "subscribe", "sending", "await"} => cur \in stamped
    /\ pc = "ready" => agent[cur] \in {"spawning", "idle", "error"}
    /\ pc = "readyWait" =>
         \/ agent[cur] = "spawning" /\ rx = <<>>
         \/ agent[cur] \in {"idle", "error"} /\ rx = <<agent[cur]>>
    /\ pc \in {"subscribe", "sending"} => agent[cur] = "idle" /\ rx = <<>>
    /\ pc = "await" /\ Working(cur) => rx \in {<<>>, <<"running">>}
AfterTurn == {"await", "failStop", "failWrite", "cancelStop", "cancelAbandon",
              "cancelArchive", "cancelWrite", "panicked"}
WorkerOK ==
    /\ \A i, j \in Step : Working(i) /\ Working(j) => i = j
    /\ ~Ending => \A i \in Step : Working(i) => pc \in AfterTurn /\ i = cur
    /\ row = "absent" \/ lifecycle = "launch" \/ ~up => \A i \in Step : ~Working(i)
StoppedOK ==
    /\ pc = "cancelStop" /\ Working(cur) => cur \in stamped
    /\ faults["panic"] = 0 =>
         \A i \in Step : Working(i) =>
            pc \in {"await", "failStop", "cancelStop"} \/ i \in stopping
AgentInv == faults["glitch"] = 0 => CalmOK /\ ReadyOK /\ WorkerOK /\ StoppedOK

-----------------------------------------------------------------------------
(* Layer 1: the outcome                                                    *)

\* Nothing is journaled when nothing was launched.
LEMMA OutcomeInit == Init => OutcomeInv
<1>1. Init => Len(journal) = 0 /\ faults["torn"] = 0
  BY DEF Init, FaultKind
<1>. QED  BY <1>1 DEF Init, OutcomeInv, JournalOK, EndedOK, Ending

\* A step that writes neither the status nor the journal says nothing new,
\* unless it starts a driver.
LEMMA QuietOutcome ==
  ASSUME OutcomeInv, UNCHANGED <<row, journal, lifecycle>>,
         faults'["torn"] = faults["torn"],
         UNCHANGED pc \/ ~Ending \/ pc' \in {"none", "exit"}
  PROVE  OutcomeInv'
  BY DEF OutcomeInv, JournalOK, EndedOK, Ending, Last

\* Journaling an outcome adds one to the timeline, and it is the last.
LEMMA Journaled ==
  ASSUME journal \in Seq(Outcome), NEW e \in Outcome, journal' = Append(journal, e)
  PROVE  /\ Len(journal) \in Nat /\ Len(journal') = Len(journal) + 1
         /\ journal' # <<>> /\ Last' = e
<1>1. Len(journal) \in Nat /\ Len(journal') = Len(journal) + 1 /\ journal' # <<>>
  OBVIOUS
<1>2. journal'[Len(journal')] = e  OBVIOUS
<1>. QED  BY <1>1, <1>2 DEF Last

\* An outcome and the status that names it, written together, end the run.
LEMMA EndedOutcome ==
  ASSUME IInv, OutcomeInv, NEW e \in Outcome, NEW s \in Terminal,
         pc \notin {"none", "exit"}, pc' = "exit", Journal(e), SetStatus(s),
         UNCHANGED <<lifecycle, faults>>,
         s = "done" => e = "run_done", s = "failed" => e = "run_failed"
  PROVE  OutcomeInv'
<1>1. RowExists /\ lifecycle # "launch" /\ Len(journal) <= faults["torn"]
  BY DEF IInv, DriverInv, RowOK, LockOK, OutcomeInv, JournalOK, Ending
<1>2. row' = s /\ journal' = Append(journal, e)
  BY <1>1 DEF Journal, SetStatus
<1>3. journal \in Seq(Outcome) /\ faults["torn"] \in Nat
  BY DEF IInv, TypeInv, TypeOK, DbTypes, OtherTypes, FaultKind
<1>4. /\ Len(journal) \in Nat /\ Len(journal') = Len(journal) + 1
      /\ journal' # <<>> /\ Last' = e
  BY <1>2, <1>3, Journaled
<1>5. Len(journal') <= 1 + faults'["torn"]
  BY <1>1, <1>3, <1>4
<1>. QED
  BY <1>1, <1>2, <1>4, <1>5 DEF OutcomeInv, JournalOK, EndedOK, Ending, Terminal

\* A crash or a panic that cut an end short leaves one outcome more, and is
\* counted for it.
LEMMA StruckOutcome ==
  ASSUME IInv, OutcomeInv, NEW k \in {"crash", "panic"}, CutShort(k), row' = row,
         Ending => pc' \in {"none", "exit"},
         pc' # "none" => lifecycle' = lifecycle, lifecycle' \in {lifecycle, "free"}
  PROVE  OutcomeInv'
<1>1. journal \in Seq(Outcome) /\ faults \in [FaultKind -> Nat] /\ faults["torn"] \in Nat
  BY DEF IInv, TypeInv, TypeOK, DbTypes, OtherTypes, FaultKind
<1>2. CASE journal' = journal /\ faults'["torn"] = faults["torn"]
  <2>1. Len(journal') <= 1 + faults'["torn"]
    BY <1>2 DEF OutcomeInv, JournalOK
  <2>2. ~Ending' \/ row' \in {"absent", "pending", "running"} \/ lifecycle' = "launch"
          => Len(journal') <= faults'["torn"]
    BY <1>2 DEF OutcomeInv, JournalOK, Ending
  <2>3. EndedOK'  BY DEF OutcomeInv, EndedOK, Ending
  <2>. QED  BY <1>2, <2>1, <2>2, <2>3 DEF OutcomeInv, JournalOK, Last
<1>3. CASE \E e \in Outcome : journal' \in {journal, Append(journal, e)}
             /\ pc \notin {"none", "exit"} /\ faults'["torn"] = faults["torn"] + 1
  <2>1. PICK e \in Outcome : journal' \in {journal, Append(journal, e)}
    BY <1>3
  <2>2. row' \notin {"done", "failed"} /\ Len(journal) <= faults["torn"]
    BY <1>3 DEF OutcomeInv, EndedOK, JournalOK, Ending
  <2>3. Len(journal') <= Len(journal) + 1 /\ Len(journal) \in Nat /\ Len(journal') \in Nat
    BY <1>1, <2>1, Journaled
  <2>4. Len(journal') <= faults'["torn"] /\ Len(journal') <= 1 + faults'["torn"]
    BY <1>1, <1>3, <2>2, <2>3
  <2>. QED  BY <2>2, <2>4 DEF OutcomeInv, JournalOK, EndedOK
<1>. QED  BY <1>1, <1>2, <1>3, Struck

\* Every step keeps the story straight.
LEMMA OutcomeStep ==
  ASSUME IInv, OutcomeInv, [Next]_vars
  PROVE  OutcomeInv'
<1> USE DEF KernelAt, KernelFrame, GoTo, dbVars, driveVars, cmdVars, agentVars,
            gitVars, hostVars
<1> DEFINE Quiet == /\ UNCHANGED <<row, journal, lifecycle>>
                    /\ faults'["torn"] = faults["torn"]
                    /\ UNCHANGED pc \/ ~Ending \/ pc' \in {"none", "exit"}
<1>1. /\ pc \notin {"none", "exit"} => RowExists /\ Len(journal) <= faults["torn"]
                                       /\ row \notin {"done", "failed"}
      /\ row = "absent" \/ lifecycle = "launch" =>
           pc = "none" /\ Len(journal) <= faults["torn"]
      /\ lifecycle = "launch" => row \in {"pending", "canceled"}
      /\ Len(journal) <= 1 + faults["torn"]
      /\ faults \in [FaultKind -> Nat] /\ faults["torn"] \in Nat
  BY DEF IInv, DriverInv, RowOK, LockOK, RowExists, OutcomeInv, JournalOK, EndedOK, Ending,
     TypeInv, TypeOK, OtherTypes, FaultKind
<1>2. ASSUME LaunchInsert \/ LaunchSpawn PROVE OutcomeInv'
  <2>1. Len(journal) <= faults["torn"] /\ UNCHANGED <<journal, faults>>
        /\ row' \notin {"done", "failed"}
    BY <1>1, <1>2 DEF LaunchInsert, LaunchSpawn
  <2>. QED  BY <1>1, <2>1 DEF OutcomeInv, JournalOK, EndedOK, Last
<1>3. ASSUME CancelWrite PROVE OutcomeInv'
  <2>1. /\ UNCHANGED <<journal, faults, pc, lifecycle>>
        /\ RowExists => row' = "canceled"
        /\ ~RowExists => row' = row
    BY <1>3 DEF CancelWrite, SetStatus
  <2>2. CASE RowExists
    BY <2>1, <2>2 DEF OutcomeInv, JournalOK, EndedOK, Ending
  <2>3. CASE ~RowExists
    BY <2>1, <2>3 DEF OutcomeInv, JournalOK, EndedOK, Ending, Last
  <2>. QED  BY <2>2, <2>3
<1>4. ASSUME DeleteCheck \/ DeleteRegistry \/ DeleteDiscard \/ DeleteDataFails
      PROVE  OutcomeInv'
  BY <1>4 DEF DeleteCheck, DeleteRegistry, DeleteDiscard, DeleteDataFails, OutcomeInv,
     JournalOK, EndedOK, Ending, WindingDown, Last
<1>5. ASSUME DeleteData PROVE OutcomeInv'
  <2>1. row' = "deleted" /\ Len(journal') = 0 /\ faults' = faults
    BY <1>5 DEF DeleteData
  <2>. QED  BY <1>1, <2>1 DEF OutcomeInv, JournalOK, EndedOK
<1>6. ASSUME Provision PROVE OutcomeInv'
  <2>1. row' = "running" /\ UNCHANGED <<journal, faults>> /\ Len(journal) <= faults["torn"]
    BY <1>1, <1>6 DEF Provision, SetStatus
  <2>. QED  BY <1>1, <2>1 DEF OutcomeInv, JournalOK, EndedOK
<1>7. ASSUME ProvisionFails \/ FinalizeErr \/ RefuseFail \/ FailWrite \/ WatchdogFails
      PROVE  OutcomeInv'
  <2>1. pc \notin {"none", "exit"} /\ FailRun /\ pc' = "exit" /\ UNCHANGED <<lifecycle, faults>>
    BY <1>7 DEF ProvisionFails, FinalizeErr, RefuseFail, FailWrite, WatchdogFails, KernelErr
  <2>. QED
    BY <2>1, EndedOutcome DEF FailRun, Outcome, Terminal
<1>8. ASSUME CancelRun \/ CancelStepWrite PROVE OutcomeInv'
  <2>1. /\ pc \notin {"none", "exit"} /\ Journal("run_canceled")
        /\ SetStatus("canceled") /\ pc' = "exit" /\ UNCHANGED <<lifecycle, faults>>
    BY <1>8 DEF CancelRun, CancelStepWrite
  <2>. QED
    BY <2>1, EndedOutcome DEF Outcome, Terminal
<1>9. ASSUME Finish PROVE OutcomeInv'
  <2>1. /\ pc \notin {"none", "exit"} /\ Journal("run_done")
        /\ SetStatus("done") /\ pc' = "exit" /\ UNCHANGED <<lifecycle, faults>>
    BY <1>9 DEF Finish
  <2>. QED
    BY <2>1, EndedOutcome DEF Outcome, Terminal
<1>10. ASSUME Crash PROVE OutcomeInv'
  <2>1. CutShort("crash") /\ row' = row /\ pc' = "none" /\ lifecycle' = "free"
    BY <1>10 DEF Crash
  <2>. QED  BY <2>1, StruckOutcome
<1>11. ASSUME Boot PROVE OutcomeInv'
  <2>1. UNCHANGED <<row, journal, faults, lifecycle>>
        /\ (row \in {"pending", "running"} \/ pc' = pc)
    BY <1>11 DEF Boot, SpawnDrive, Resumable, Active
  <2>. QED  BY <2>1 DEF OutcomeInv, JournalOK, EndedOK, Ending, Last
<1>12. ASSUME CancelRead \/ CancelFlag \/ CancelStop \/ SendRequeued \/ UNCHANGED vars
       PROVE  Quiet
  BY <1>1, <1>12 DEF CancelRead, CancelFlag, CancelStop, SendRequeued, vars, Ending, Fault,
     FaultKind
<1>13. ASSUME Load \/ Loop \/ Spawn \/ Ready \/ ReadyEvent \/ Subscribe \/ Send
               \/ SendHeld \/ Await \/ StepErr \/ StepCanceled
       PROVE  Quiet
  BY <1>13 DEF Load, Loop, Spawn, Ready, ReadyEvent, Subscribe, Send, SendHeld, Await,
     StepErr, StepCanceled, StepWait, Ending
<1>14. ASSUME Gate \/ Commit \/ Record \/ ArchiveStep \/ Finalize \/ FinRecord \/ FailStop
               \/ CancelStepStop \/ CancelStepAbandon \/ CancelStepArchive \/ RefuseStale
               \/ Deregister
       PROVE  Quiet
  BY <1>14 DEF Gate, Commit, Record, ArchiveStep, Finalize, FinRecord, FailStop,
     CancelStepStop, CancelStepAbandon, CancelStepArchive, RefuseStale, Deregister, Ending
<1>15. ASSUME NEW i \in Step, Agent(i) PROVE Quiet
  <2>1. UNCHANGED <<row, journal, lifecycle, pc>>
    BY <1>15 DEF Agent, AgentReady, AgentTurnEnds, AgentRedeliver, AgentReadyLate,
       LateBroadcast, AgentExits, AgentSelfStarts, AgentFrame
  <2>2. faults'["torn"] = faults["torn"]
    BY <1>1, <1>15 DEF Agent, AgentReady, AgentTurnEnds, AgentRedeliver, AgentReadyLate,
       LateBroadcast, AgentExits, AgentSelfStarts, AgentFrame, Fault, FaultKind
  <2>. QED  BY <2>1, <2>2
<1>16. Quiet => OutcomeInv'
  BY QuietOutcome
<1>17. ASSUME Panic PROVE OutcomeInv'
  <2>1. /\ CutShort("panic") /\ row' = row /\ lifecycle' = lifecycle
        /\ ~Ending
    BY <1>17 DEF Panic, Ending
  <2>. QED  BY <2>1, StruckOutcome
<1> HIDE DEF Quiet
<1>. QED
  BY <1>2, <1>3, <1>4, <1>5, <1>6, <1>7, <1>8, <1>9, <1>10, <1>11, <1>12, <1>13, <1>14,
     <1>15, <1>16, <1>17 DEF Next, Command, Kernel

-----------------------------------------------------------------------------
(* Layer 2: the steps behind                                               *)

\* No step was begun.
LEMMA WorkInit == Init => WorkInv
  BY DEF Init, WorkInv, PassedOK, PushedOK, ClosedOK, DoneMeansEveryStep, StepPc, StepWait

\* A step that touches nothing a step leaves behind, and goes no further than
\* the end of a turn, keeps what is behind.
LEMMA QuietWork ==
  ASSUME WorkInv, UNCHANGED <<gate, fin, exec, verdict, pinned, published, prRow>>,
         row' \in {row, "canceled"} \/ (row = "absent" /\ row' = "pending"),
         faults'["panic"] = 0 => faults["panic"] = 0,
         \/ UNCHANGED <<pc, cur>>
         \/ pc' \in {"none", "load", "exit", "runCancel", "refuse"}
         \/ pc \in StepPc /\ pc' \in StepPc \ {"commit", "record", "archive"}
              /\ UNCHANGED cur
  PROVE  WorkInv'
<1>1. PassedOK'
  BY DEF WorkInv, PassedOK, Passed, Judged, StepPc, StepWait
<1>2. PushedOK'
  BY DEF WorkInv, PushedOK, Passed, Judged, StepPc, StepWait
<1>3. ClosedOK' /\ DoneMeansEveryStep'
  BY DEF WorkInv, ClosedOK, DoneMeansEveryStep
<1>. QED  BY <1>1, <1>2, <1>3 DEF WorkInv

\* An error of the kernel, or a panic, fails the run: what it had in hand, if
\* it was not done, is closed or was never begun.
LEMMA FailedWork ==
  ASSUME WorkInv, UNCHANGED <<gate, fin, exec, verdict, pinned, published, prRow>>,
         pc' = "exit", row' = "failed",
         faults'["panic"] = 0 => \A i \in Step : exec[i] \notin ExecOpen
  PROVE  WorkInv'
<1>1. PassedOK' /\ PushedOK'
  BY DEF PassedOK, PushedOK, StepPc, StepWait
<1>2. ClosedOK' /\ DoneMeansEveryStep'
  BY DEF ClosedOK, DoneMeansEveryStep
<1>. QED  BY <1>1, <1>2 DEF WorkInv

\* A crash or a panic leaves what is behind; it may have closed the attempt in
\* hand.
LEMMA StruckWork ==
  ASSUME IInv, OutcomeInv, WorkInv, NEW k \in {"crash", "panic"}, CutShort(k),
         UNCHANGED <<gate, fin, row, verdict, pinned, published, prRow>>,
         pc' \in {"none", "panicked"}
  PROVE  WorkInv'
<1>1. /\ faults'["panic"] = 0 => faults["panic"] = 0
      /\ exec' = exec \/ (pc = "failWrite" /\ CloseFailed)
  <2>1. faults \in [FaultKind -> Nat] /\ journal \in Seq(Outcome)
    BY DEF IInv, TypeInv, TypeOK, OtherTypes, DbTypes
  <2>2. k = "panic" \/ "panic" \in FaultKind \ {k, "torn"}
    BY DEF FaultKind
  <2>3. faults["panic"] \in Nat  BY <2>1 DEF FaultKind
  <2>4. /\ faults'[k] = faults[k] + 1
        /\ exec' = exec \/ (pc = "failWrite" /\ CloseFailed)
        /\ \A j \in FaultKind \ {k, "torn"} : faults'[j] = faults[j]
    BY <2>1, Struck
  <2>5. CASE k = "panic"  BY <2>3, <2>4, <2>5
  <2>6. CASE k # "panic"  BY <2>2, <2>4, <2>6
  <2>. QED  BY <2>5, <2>6
<1>2. CASE exec' = exec
  <2>1. PassedOK'  BY <1>2 DEF WorkInv, PassedOK, StepPc, StepWait
  <2>2. PushedOK'  BY DEF PushedOK
  <2>3. ClosedOK' /\ DoneMeansEveryStep'
    BY <1>1, <1>2 DEF WorkInv, ClosedOK, DoneMeansEveryStep
  <2>. QED  BY <2>1, <2>2, <2>3 DEF WorkInv
<1>3. CASE pc = "failWrite"
  <2>1. row \notin {"done", "failed", "absent", "pending"}
    BY <1>3 DEF OutcomeInv, EndedOK, Ending, IInv, DriverInv, RowOK, RowExists, ProgressInv,
       StartOK
  <2>. QED
    BY <2>1 DEF WorkInv, PassedOK, PushedOK, ClosedOK, DoneMeansEveryStep, StepPc, StepWait
<1>. QED  BY <1>1, <1>2, <1>3

\* Every step keeps what is behind it.
LEMMA WorkStep ==
  ASSUME IInv, OutcomeInv, WorkInv, PanicOK, [Next]_vars
  PROVE  WorkInv'
<1> USE DEF KernelAt, KernelFrame, GoTo, specVars, dbVars, driveVars, cmdVars, agentVars,
            gitVars, hostVars
<1> DEFINE Keeps == UNCHANGED <<gate, fin, exec, verdict, pinned, published, prRow>>
           Quiet ==
             /\ Keeps
             /\ row' \in {row, "canceled"} \/ (row = "absent" /\ row' = "pending")
             /\ faults'["panic"] = 0 => faults["panic"] = 0
             /\ \/ UNCHANGED <<pc, cur>>
                \/ pc' \in {"none", "load", "exit", "runCancel", "refuse"}
                \/ pc \in StepPc /\ pc' \in StepPc \ {"commit", "record", "archive"}
                     /\ UNCHANGED cur
           Fails == /\ Keeps /\ pc' = "exit" /\ row' = "failed"
                    /\ faults'["panic"] = 0 => \A i \in Step : exec[i] \notin ExecOpen
<1>0. /\ pc # "none" => RowExists
      /\ pc \notin {"none", "exit"} => row \notin {"done", "failed"}
      /\ pc \in StepPc => cur \in Step
      /\ cur \in 1..(N + 1) /\ N \in Nat \ {0} /\ exec \in [Step -> ExecStatus]
      /\ verdict \in [Step -> Verdict] /\ faults \in [FaultKind -> Nat]
      /\ failAs \in {"error", "blocked"}
  BY ConstantsAssumption
     DEF IInv, DriverInv, RowOK, OutcomeInv, EndedOK, Ending, TypeInv, CurOK, TypeOK,
         DriveTypes, DbTypes, AgentTypes, OtherTypes
<1>1. ASSUME LaunchInsert \/ LaunchSpawn \/ CancelRead \/ CancelFlag \/ CancelStop
               \/ CancelWrite \/ DeleteCheck \/ DeleteRegistry \/ DeleteDiscard
               \/ DeleteDataFails
      PROVE  Quiet
  BY <1>1 DEF LaunchInsert, LaunchSpawn, SpawnDrive, CancelRead, CancelFlag, CancelStop,
     CancelWrite, SetStatus, DeleteCheck, DeleteRegistry, DeleteDiscard, DeleteDataFails
<1>2. ASSUME CancelRun \/ CancelStepWrite \/ Deregister \/ UNCHANGED vars
      PROVE  Quiet
  BY <1>2 DEF CancelRun, CancelStepWrite, SetStatus, Deregister, vars
<1>3. ASSUME Ready \/ ReadyEvent \/ Subscribe \/ Send \/ SendHeld \/ Await \/ StepErr
               \/ StepCanceled
      PROVE  Quiet
  BY <1>3 DEF Ready, ReadyEvent, ReadyOn, Subscribe, Send, SendHeld, Await, StepErr,
     StepCanceled, StepPc, StepWait
<1>4. ASSUME SendRequeued PROVE Quiet
  BY <1>0, <1>4 DEF SendRequeued, Fault, FaultKind, StepPc, StepWait
<1>5. ASSUME FailStop \/ CancelStepStop \/ CancelStepArchive PROVE Quiet
  BY <1>5 DEF FailStop, CancelStepStop, CancelStepArchive, StepPc, StepWait
<1>6. ASSUME NEW i \in Step, Agent(i) PROVE Quiet
  <2>1. UNCHANGED <<gate, fin, exec, pinned, published, prRow, row, pc, cur, verdict>>
    BY <1>6 DEF Agent, AgentReady, AgentTurnEnds, AgentRedeliver, AgentReadyLate,
       LateBroadcast, AgentExits, AgentSelfStarts, AgentFrame
  <2>2. faults'["panic"] = 0 => faults["panic"] = 0
    BY <1>0, <1>6 DEF Agent, AgentReady, AgentTurnEnds, AgentRedeliver, AgentReadyLate,
       LateBroadcast, AgentExits, AgentSelfStarts, AgentFrame, Fault, FaultKind
  <2>. QED  BY <2>1, <2>2
<1>7. ASSUME Crash \/ Panic PROVE WorkInv'
  BY <1>7, StruckWork DEF Crash, Panic
<1>8. ASSUME Boot PROVE Quiet
  BY <1>8 DEF Boot, SpawnDrive
<1>9. ASSUME DeleteData PROVE WorkInv'
  <2>1. pc = "none"  BY <1>9 DEF DeleteData, IInv, DriverInv, LockOK
  <2>2. /\ row' = "deleted" /\ pc' = "none" /\ exec' = [i \in Step |-> "none"]
    BY <1>9, <2>1 DEF DeleteData
  <2>. QED
    BY <2>2 DEF WorkInv, PassedOK, PushedOK, ClosedOK, DoneMeansEveryStep, StepPc, StepWait
<1>10. ASSUME Load PROVE WorkInv'
  <2>1. CASE pc' = "provision"
    BY <1>0, <1>10, <2>1 DEF Load, Startable, WorkInv, PassedOK, PushedOK, ClosedOK,
       DoneMeansEveryStep, StepPc, StepWait
  <2>2. CASE pc' # "provision"
    <3>1. Quiet  BY <1>10, <2>2 DEF Load
    <3> HIDE DEF Quiet
    <3>. QED  BY <3>1, QuietWork DEF Quiet
  <2>. QED  BY <2>1, <2>2
<1>11. ASSUME Provision PROVE WorkInv'
  <2>1. cur = 1  BY <1>11 DEF Provision, IInv, ProgressInv, StartOK
  <2>2. /\ Keeps /\ cur' = 1 /\ pc = "provision" /\ pc' = "loop" /\ row' = "running"
    BY <1>0, <1>11, <2>1 DEF Provision, SetStatus
  <2>. QED
    BY <1>0, <2>2 DEF WorkInv, PassedOK, PushedOK, ClosedOK, DoneMeansEveryStep, StepPc,
       StepWait, Step
<1>12. ASSUME ProvisionFails PROVE Fails
  BY <1>0, <1>12 DEF ProvisionFails, KernelErr, FailRun, SetStatus, WorkInv, PassedOK,
     ExecOpen
<1>13. ASSUME FinalizeErr PROVE Fails
  BY <1>0, <1>13 DEF FinalizeErr, KernelErr, FailRun, SetStatus, WorkInv, PushedOK, Passed,
     ExecOpen
<1>14. ASSUME RefuseFail PROVE Fails
  BY <1>0, <1>14 DEF RefuseFail, KernelErr, FailRun, SetStatus
<1>15. ASSUME WatchdogFails PROVE Fails
  <2>1. pc = "panicked" => faults["panic"] # 0
    BY DEF PanicOK
  <2>. QED  BY <1>0, <1>15, <2>1 DEF WatchdogFails, KernelErr, FailRun, SetStatus
<1>16. ASSUME Loop PROVE WorkInv'
  <2>1. /\ pc = "loop" /\ UNCHANGED <<gate, fin, verdict, pinned, published, prRow, cur, row,
                                      faults>>
    BY <1>16 DEF Loop
  <2>2. CASE pc' = "finalize"
    <3>1. cur = N + 1 /\ exec' = exec
      BY <1>0, <1>16, <2>2 DEF Loop, StepsLeft
    <3>2. pinned = Step
      BY <1>0, <2>1, <3>1 DEF IInv, ProgressInv, PrefixOK, Step
    <3>3. \A i \in Step : Passed(i)
      BY <1>0, <2>1, <3>1 DEF WorkInv, PassedOK, Step
    <3>. QED
      BY <2>1, <2>2, <3>1, <3>2, <3>3 DEF WorkInv, PassedOK, PushedOK, ClosedOK, Passed, Judged,
         DoneMeansEveryStep, StepPc, StepWait
  <2>3. CASE pc' = "spawn"
    <3>1. cur \in Step /\ exec' = [exec EXCEPT ![cur] = "spawning"]
      BY <1>0, <1>16, <2>1, <2>3 DEF Loop, StepsLeft, SetExec, Step
    <3>2. exec'[cur] = "spawning" /\ \A i \in Step : i # cur => exec'[i] = exec[i]
      BY <1>0, <3>1
    <3>3. PassedOK'
      BY <1>0, <2>1, <2>3, <3>1, <3>2 DEF WorkInv, PassedOK, Passed, Judged, StepPc, StepWait,
         Step, IInv, ProgressInv, StartOK, RowExists
    <3>4. PushedOK'  BY <2>3 DEF PushedOK
    <3>5. ClosedOK' /\ DoneMeansEveryStep'
      BY <1>0, <2>1 DEF ClosedOK, DoneMeansEveryStep
    <3>. QED  BY <3>3, <3>4, <3>5 DEF WorkInv
  <2>4. CASE pc' = "runCancel"
    <3>1. Quiet  BY <1>16, <2>1, <2>4 DEF Loop
    <3> HIDE DEF Quiet
    <3>. QED  BY <3>1, QuietWork DEF Quiet
  <2>. QED  BY <1>16, <2>2, <2>3, <2>4 DEF Loop
<1>17. ASSUME Spawn PROVE WorkInv'
  <2>1. /\ pc = "spawn" /\ pc' = "ready"
        /\ UNCHANGED <<gate, fin, verdict, pinned, published, prRow, cur, row, faults>>
        /\ cur \in Step /\ exec' = [exec EXCEPT ![cur] = "running"]
    BY <1>0, <1>17 DEF Spawn, StampSpawned, SetExec, StepPc, StepWait
  <2>2. \A i \in Step : i # cur => exec'[i] = exec[i]  BY <1>0, <2>1
  <2>3. PassedOK'
    BY <1>0, <2>1, <2>2 DEF WorkInv, PassedOK, Passed, Judged, StepPc, StepWait, Step,
       IInv, ProgressInv, StartOK, RowExists
  <2>4. PushedOK'  BY <2>1 DEF PushedOK
  <2>5. ClosedOK' /\ DoneMeansEveryStep'
    BY <1>0, <2>1 DEF ClosedOK, DoneMeansEveryStep
  <2>. QED  BY <2>3, <2>4, <2>5 DEF WorkInv
<1>18. ASSUME Gate PROVE WorkInv'
  <2>1. /\ pc = "gate" /\ cur \in Step
        /\ UNCHANGED <<gate, fin, exec, pinned, published, prRow, cur, row, faults>>
    BY <1>0, <1>18 DEF Gate, StepPc
  <2>2. PICK v \in Verdict :
          /\ verdict' = [verdict EXCEPT ![cur] = v]
          /\ pc' = IF EvaluateGate(gate[cur], v) THEN "commit" ELSE "failStop"
    BY <1>18 DEF Gate, Verdict
  <2>3. verdict'[cur] = v /\ \A i \in Step : i # cur => verdict'[i] = verdict[i]
    BY <1>0, <2>1, <2>2
  <2>4. pc' = "commit" => Judged(cur)'
    BY <2>1, <2>2, <2>3 DEF EvaluateGate, Judged
  <2>5. PassedOK'
    BY <1>0, <2>1, <2>2, <2>3, <2>4 DEF WorkInv, PassedOK, Passed, Judged, StepPc, StepWait,
       Step, IInv, ProgressInv, StartOK, RowExists
  <2>6. PushedOK'  BY <2>2 DEF PushedOK
  <2>7. ClosedOK' /\ DoneMeansEveryStep'
    BY <1>0, <2>1 DEF ClosedOK, DoneMeansEveryStep
  <2>. QED  BY <2>5, <2>6, <2>7 DEF WorkInv
<1>19. ASSUME Commit PROVE WorkInv'
  <2>1. /\ pc = "commit" /\ pc' \in {"record", "failStop"}
        /\ UNCHANGED <<gate, fin, exec, verdict, published, prRow, cur, row, faults>>
    BY <1>19 DEF Commit
  <2>2. PassedOK'
    BY <2>1 DEF WorkInv, PassedOK, Passed, Judged, StepPc, StepWait
  <2>3. PushedOK'  BY <2>1 DEF PushedOK
  <2>4. ClosedOK' /\ DoneMeansEveryStep'
    BY <1>0, <2>1 DEF WorkInv, ClosedOK, DoneMeansEveryStep
  <2>. QED  BY <2>2, <2>3, <2>4 DEF WorkInv
<1>20. ASSUME Record PROVE WorkInv'
  <2>1. /\ pc = "record" /\ pc' = "archive" /\ cur \in Step
        /\ UNCHANGED <<gate, fin, verdict, pinned, published, prRow, cur, row, faults>>
        /\ exec' = [exec EXCEPT ![cur] = "done"]
    BY <1>0, <1>20 DEF Record, SetExec, StepPc
  <2>2. exec'[cur] = "done" /\ \A i \in Step : i # cur => exec'[i] = exec[i]
    BY <1>0, <2>1
  <2>3. PassedOK'
    BY <1>0, <2>1, <2>2 DEF WorkInv, PassedOK, Passed, Judged, StepPc, StepWait, Step,
       IInv, ProgressInv, StartOK, RowExists
  <2>4. PushedOK'  BY <2>1 DEF PushedOK
  <2>5. ClosedOK' /\ DoneMeansEveryStep'
    BY <1>0, <2>1 DEF ClosedOK, DoneMeansEveryStep
  <2>. QED  BY <2>3, <2>4, <2>5 DEF WorkInv
<1>21. ASSUME ArchiveStep PROVE WorkInv'
  <2>1. /\ pc = "archive" /\ pc' = "loop" /\ cur \in Step /\ cur' = cur + 1
        /\ UNCHANGED <<gate, fin, exec, verdict, pinned, published, prRow, row, faults>>
    BY <1>0, <1>21 DEF ArchiveStep, StepPc
  <2>2. \A i \in Step : /\ i < cur' => i < cur \/ i = cur
                        /\ i >= cur' => i > cur
    BY <1>0, <2>1 DEF Step
  <2>3. PassedOK'
    BY <1>0, <2>1, <2>2 DEF WorkInv, PassedOK, Passed, Judged, StepPc, StepWait,
       IInv, ProgressInv, StartOK, RowExists
  <2>4. PushedOK'  BY <2>1 DEF PushedOK
  <2>5. ClosedOK' /\ DoneMeansEveryStep'
    BY <1>0, <2>1 DEF ClosedOK, DoneMeansEveryStep
  <2>. QED  BY <2>3, <2>4, <2>5 DEF WorkInv
<1>22. ASSUME Finalize \/ FinRecord PROVE WorkInv'
  <2>1. /\ pc \in {"finalize", "finRecord"} /\ pc' \in {"finRecord", "finish"}
        /\ UNCHANGED <<gate, fin, exec, verdict, pinned, cur, row, faults>>
        /\ row # "pending" /\ row # "absent"
    BY <1>0, <1>22 DEF Finalize, FinRecord, IInv, ProgressInv, StartOK, RowExists
  <2>2. PassedOK'  BY <2>1 DEF PassedOK, StepPc, StepWait
  <2>3. PushedOK'
    <3>1. /\ fin # "none" => published' # "none"
          /\ pc' = "finish" /\ published' = "pr" => prRow'
      <4>1. CASE Finalize
        <5>1. published = "none"
          BY <4>1 DEF Finalize, IInv, ProgressInv, PrefixOK
        <5>. QED  BY <4>1, <5>1 DEF Finalize
      <4>2. CASE FinRecord
        BY <1>0, <4>2 DEF FinRecord, SetPr, WorkInv, PushedOK
      <4>. QED  BY <1>22, <4>1, <4>2
    <3>. QED  BY <2>1, <3>1 DEF WorkInv, PushedOK, Passed, Judged
  <2>4. ClosedOK' /\ DoneMeansEveryStep'
    BY <1>0, <2>1 DEF ClosedOK, DoneMeansEveryStep
  <2>. QED  BY <2>2, <2>3, <2>4 DEF WorkInv
<1>23. ASSUME Finish PROVE WorkInv'
  <2>1. /\ pc = "finish" /\ pc' = "exit" /\ row' = "done"
        /\ UNCHANGED <<gate, fin, exec, verdict, pinned, published, prRow, cur, faults>>
    BY <1>0, <1>23 DEF Finish, SetStatus
  <2>2. PassedOK' /\ PushedOK' /\ ClosedOK'
    BY <2>1 DEF PassedOK, PushedOK, ClosedOK, StepPc, StepWait
  <2>3. DoneMeansEveryStep'
    BY <2>1 DEF WorkInv, PushedOK, Passed, Judged, DoneMeansEveryStep
  <2>. QED  BY <2>2, <2>3 DEF WorkInv
<1>24. ASSUME FailWrite PROVE WorkInv'
  <2>1. /\ pc = "failWrite" /\ pc' = "exit" /\ row' = "failed" /\ cur \in Step
        /\ UNCHANGED <<gate, fin, verdict, pinned, published, prRow, cur, faults>>
        /\ exec' = [exec EXCEPT ![cur] = failAs]
    BY <1>0, <1>24 DEF FailWrite, FailRun, SetStatus, CloseFailed, SetExec, StepPc
  <2>2. exec'[cur] = failAs /\ \A i \in Step : i # cur => exec'[i] = exec[i]
    BY <1>0, <2>1
  <2>3. \A i \in Step : i < cur \/ i = cur \/ i > cur
    BY <1>0, <2>1 DEF Step
  <2>4. \A i \in Step : exec'[i] \notin ExecOpen
    BY <1>0, <2>1, <2>2, <2>3 DEF WorkInv, PassedOK, Passed, StepPc, ExecOpen
  <2>5. PassedOK' /\ PushedOK' /\ DoneMeansEveryStep'
    BY <2>1 DEF PassedOK, PushedOK, DoneMeansEveryStep, StepPc, StepWait
  <2>6. ClosedOK'  BY <2>4 DEF ClosedOK
  <2>. QED  BY <2>5, <2>6 DEF WorkInv
<1>25. ASSUME CancelStepAbandon PROVE WorkInv'
  <2>1. /\ pc = "cancelAbandon" /\ pc' = "cancelArchive" /\ cur \in Step
        /\ UNCHANGED <<gate, fin, verdict, pinned, published, prRow, cur, row, faults>>
        /\ exec' = [exec EXCEPT ![cur] = "abandoned"]
    BY <1>0, <1>25 DEF CancelStepAbandon, AbandonExec, SetExec, StepPc
  <2>2. \A i \in Step : i # cur => exec'[i] = exec[i]  BY <1>0, <2>1
  <2>3. PassedOK'
    BY <1>0, <2>1, <2>2 DEF WorkInv, PassedOK, Passed, Judged, StepPc, StepWait, Step,
       IInv, ProgressInv, StartOK, RowExists
  <2>4. PushedOK'  BY <2>1 DEF PushedOK
  <2>5. ClosedOK' /\ DoneMeansEveryStep'
    BY <1>0, <2>1 DEF ClosedOK, DoneMeansEveryStep
  <2>. QED  BY <2>3, <2>4, <2>5 DEF WorkInv
<1>26. ASSUME RefuseStale PROVE WorkInv'
  <2>1. /\ pc = "refuse" /\ pc' = "refuse" /\ UNCHANGED <<row, faults>>
        /\ row # "pending" /\ row # "absent"
    BY <1>0, <1>26 DEF RefuseStale, IInv, ProgressInv, StartOK, RowExists
  <2>2. PassedOK' /\ PushedOK'  BY <2>1 DEF PassedOK, PushedOK, StepPc, StepWait
  <2>3. ClosedOK' /\ DoneMeansEveryStep'
    BY <1>0, <2>1 DEF ClosedOK, DoneMeansEveryStep
  <2>. QED  BY <2>2, <2>3 DEF WorkInv
<1>27. Quiet => WorkInv'
  <2> HIDE DEF IInv
  <2>. QED  BY QuietWork
<1>28. Fails => WorkInv'  BY FailedWork
<1> HIDE DEF Quiet, Fails
<1>. QED
  BY <1>1, <1>2, <1>3, <1>4, <1>5, <1>6, <1>7, <1>8, <1>9, <1>10, <1>11, <1>12, <1>13,
     <1>14, <1>15, <1>16, <1>17, <1>18, <1>19, <1>20, <1>21, <1>22, <1>23, <1>24, <1>25,
     <1>26, <1>27, <1>28 DEF Next, Command, Kernel

\* Only a panic, which is counted, leads to "panicked"; no count goes down.
LEMMA PanicStep ==
  ASSUME IInv, PanicOK, [Next]_vars
  PROVE  PanicOK'
<1> USE DEF KernelAt, KernelFrame, GoTo, specVars, dbVars, driveVars, agentVars, gitVars,
            cmdVars, hostVars
<1>1. faults \in [FaultKind -> Nat] /\ faults["panic"] \in Nat /\ journal \in Seq(Outcome)
  BY DEF IInv, TypeInv, TypeOK, OtherTypes, DbTypes, FaultKind
<1>2. ASSUME Panic PROVE PanicOK'
  <2>1. faults'["panic"] = faults["panic"] + 1
    BY <1>1, <1>2, Struck DEF Panic
  <2>. QED  BY <1>1, <2>1 DEF PanicOK
<1>3. ASSUME Crash PROVE PanicOK'
  BY <1>3 DEF Crash, PanicOK
<1>4. ASSUME Command \/ Boot \/ UNCHANGED vars
      PROVE  UNCHANGED faults /\ pc' \in {pc, "load"}
  BY <1>4 DEF Command, LaunchInsert, LaunchSpawn, SpawnDrive, CancelRead, CancelFlag, CancelStop,
     CancelWrite, DeleteCheck, DeleteRegistry, DeleteDiscard, DeleteData, DeleteDataFails, Boot,
     vars
<1>5. ASSUME Kernel PROVE pc' # "panicked"
  <2>1. ASSUME Load \/ Provision \/ ProvisionFails \/ Loop \/ CancelRun \/ Spawn \/ Ready
                 \/ ReadyEvent \/ Subscribe \/ Send \/ SendHeld \/ Await \/ StepErr
                 \/ StepCanceled
        PROVE  pc' # "panicked"
    BY <2>1 DEF Load, Provision, ProvisionFails, Loop, CancelRun, Spawn, Ready, ReadyEvent, ReadyOn,
       Subscribe, Send, SendHeld, Await, StepErr, StepCanceled, KernelErr
  <2>2. ASSUME Gate \/ Commit \/ Record \/ ArchiveStep \/ Finalize \/ FinalizeErr \/ FinRecord
                 \/ Finish \/ FailStop \/ FailWrite \/ CancelStepStop \/ CancelStepAbandon
                 \/ CancelStepArchive \/ CancelStepWrite \/ RefuseStale \/ RefuseFail
                 \/ WatchdogFails \/ Deregister
        PROVE  pc' # "panicked"
    BY <2>2 DEF Gate, Commit, Record, ArchiveStep, Finalize, FinalizeErr, FinRecord, Finish,
       FailStop, FailWrite, CancelStepStop, CancelStepAbandon, CancelStepArchive,
       CancelStepWrite, RefuseStale, RefuseFail, WatchdogFails, Deregister, KernelErr
  <2>. QED  BY <1>5, <2>1, <2>2 DEF Kernel
<1>6. ASSUME NEW i \in Step, Agent(i)
      PROVE  pc' = pc /\ faults'["panic"] = faults["panic"]
  BY <1>1, <1>6 DEF Agent, AgentReady, AgentTurnEnds, AgentRedeliver, AgentReadyLate,
     LateBroadcast, AgentExits, AgentSelfStarts, AgentFrame, Fault, FaultKind
<1>7. ASSUME SendRequeued PROVE pc' # "panicked"
  BY <1>7 DEF SendRequeued
<1>. QED
  BY <1>2, <1>3, <1>4, <1>5, <1>6, <1>7 DEF Next, PanicOK

-----------------------------------------------------------------------------
(* Layer 3: the agents                                                     *)

Calm == CalmOK /\ ReadyOK /\ WorkerOK /\ StoppedOK
ReadyPc == {"ready", "readyWait", "subscribe", "sending", "await"}

\* No agent was spawned.
LEMMA AgentInit == Init => AgentInv
  BY DEF Init, AgentInv, CalmOK, ReadyOK, WorkerOK, StoppedOK, Working

\* Where nobody works and no agent is being readied, all is well.
LEMMA NobodyWorks ==
  ASSUME CalmOK', \A i \in Step : ~Working(i)', pc' \notin ReadyPc,
         pc' = "cancelStop" => cur' \in Step
  PROVE  Calm'
<1>1. ReadyOK'  BY DEF ReadyOK, ReadyPc
<1>2. WorkerOK' /\ StoppedOK'  BY DEF WorkerOK, StoppedOK
<1>. QED  BY <1>1, <1>2 DEF Calm

\* A step that leaves agents and driver where they are.
LEMMA QuietAgents ==
  ASSUME Calm, UNCHANGED <<agent, prompt, late, pc, cur, rx, up>>,
         stopping \subseteq stopping', pc # "none" => stamped' = stamped,
         faults'["panic"] = 0 => faults["panic"] = 0,
         row' = "absent" => row = "absent", lifecycle' = "launch" => lifecycle = "launch"
  PROVE  Calm'
<1>1. CalmOK' /\ ReadyOK'  BY DEF Calm, CalmOK, ReadyOK, Working
<1>2. WorkerOK'  BY DEF Calm, WorkerOK, Working, Ending
<1>3. StoppedOK'  BY DEF Calm, StoppedOK, Working
<1>. QED  BY <1>1, <1>2, <1>3 DEF Calm

\* Every step of the kernel that is not about an agent in a turn.
LEMMA CalmKernel ==
  ASSUME IInv, Calm, Kernel, pc \notin AfterTurn \cup ReadyPc \cup {"spawn", "exit"}
  PROVE  Calm'
<1> USE DEF KernelAt, KernelFrame, GoTo, dbVars, agentVars
<1>1. pc # "none" /\ \A i \in Step : ~Working(i)
  <2>1. pc # "none"
    BY DEF Kernel, Load, Provision, ProvisionFails, Loop, CancelRun, Spawn, Ready, ReadyEvent,
       Subscribe, Send, SendHeld, Await, StepErr, StepCanceled, Gate, Commit, Record,
       ArchiveStep, Finalize, FinalizeErr, FinRecord, Finish, FailStop, FailWrite,
       CancelStepStop, CancelStepAbandon, CancelStepArchive, CancelStepWrite, RefuseStale,
       RefuseFail, WatchdogFails, Deregister, KernelErr, StepWait
  <2>. QED  BY <2>1 DEF Calm, WorkerOK, Ending
<1>2. /\ UNCHANGED <<prompt, late>>
      /\ agent' = agent \/ agent' = [agent EXCEPT ![cur] = "archived"]
      /\ pc' \notin ReadyPc \cup {"cancelStop"}
  <2>1. ASSUME Load \/ Provision \/ ProvisionFails \/ Loop \/ CancelRun PROVE <1>2!1 /\ <1>2!2 /\ <1>2!3
    BY <2>1 DEF Load, Provision, ProvisionFails, Loop, CancelRun, KernelErr, ReadyPc
  <2>2. ASSUME Gate \/ Commit \/ Record \/ ArchiveStep \/ Finalize \/ FinalizeErr
                 \/ FinRecord \/ Finish \/ RefuseStale \/ RefuseFail
        PROVE  <1>2!1 /\ <1>2!2 /\ <1>2!3
    BY <2>2 DEF Gate, Commit, Record, ArchiveStep, Archive, Finalize, FinalizeErr, FinRecord,
       Finish, RefuseStale, RefuseFail, KernelErr, ReadyPc
  <2>. QED
    BY <2>1, <2>2 DEF Kernel, Spawn, Ready, ReadyEvent, Subscribe, Send, SendHeld, Await,
       StepErr, StepCanceled, FailStop, FailWrite, CancelStepStop, CancelStepAbandon,
       CancelStepArchive, CancelStepWrite, WatchdogFails, KernelErr, Deregister, StepWait, ReadyPc, AfterTurn
<1>3. \A i \in Step : ~Working(i)'
  BY <1>1, <1>2 DEF Working, IInv, TypeInv, TypeOK, AgentTypes
<1>. QED  BY <1>2, <1>3, NobodyWorks DEF Calm, CalmOK


\* The kernel takes one step towards the turn, or gives up on it.
LEMMA CalmWait ==
  ASSUME IInv, Calm, Kernel, pc \in ReadyPc \cup {"spawn"}
  PROVE  Calm'
<1> USE DEF KernelAt, KernelFrame, GoTo, dbVars, agentVars, hostVars, cmdVars
<1>1. /\ cur \in Step /\ up /\ RowExists /\ row # "absent" /\ lifecycle # "launch"
      /\ agent \in [Step -> AgentState] /\ prompt \in [Step -> PromptState]
      /\ pc # "await" => \A i \in Step : ~Working(i)
      /\ \A i \in Step : Working(i) => i = cur
  <2>1. cur \in Step
    BY DEF IInv, TypeInv, CurOK, StepPc, StepWait, ReadyPc
  <2>2. up /\ RowExists /\ row # "absent" /\ lifecycle # "launch"
    BY DEF IInv, DriverInv, DownOK, RowOK, LockOK, RowExists, ReadyPc
  <2>3. agent \in [Step -> AgentState] /\ prompt \in [Step -> PromptState]
    BY DEF IInv, TypeInv, TypeOK, AgentTypes
  <2>4. /\ pc # "await" => \A i \in Step : ~Working(i)
        /\ \A i \in Step : Working(i) => i = cur
    BY DEF Calm, WorkerOK, Ending, AfterTurn, ReadyPc
  <2>. QED  BY <2>1, <2>2, <2>3, <2>4
<1>2. ASSUME Spawn PROVE Calm'
  <2>1. /\ pc = "spawn" /\ pc' = "ready" /\ cur' = cur /\ cur \in stamped'
        /\ agent' = [agent EXCEPT ![cur] = "spawning"]
        /\ UNCHANGED <<prompt, late>>
    BY <1>1, <1>2 DEF Spawn, StampSpawned
  <2>2. agent'[cur] = "spawning" /\ \A i \in Step : ~Working(i)'
    BY <1>1, <2>1 DEF Working
  <2>3. CalmOK'  BY <2>1 DEF Calm, CalmOK
  <2>4. ReadyOK'  BY <2>1, <2>2 DEF ReadyOK
  <2>5. WorkerOK' /\ StoppedOK'  BY <2>1, <2>2 DEF WorkerOK, StoppedOK
  <2>. QED  BY <2>3, <2>4, <2>5 DEF Calm
<1>3. ASSUME Ready \/ ReadyEvent \/ Subscribe PROVE Calm'
  <2>1. /\ pc \in {"ready", "readyWait", "subscribe"}
        /\ UNCHANGED <<cur, stamped, agent, prompt, late>>
    BY <1>3 DEF Ready, ReadyEvent, Subscribe
  <2>2. /\ cur \in stamped
        /\ \/ pc' = "failStop"
           \/ pc' = "readyWait" /\ agent[cur] = "spawning" /\ rx' = <<>>
           \/ pc' \in {"subscribe", "sending"} /\ agent[cur] = "idle" /\ rx' = <<>>
    <3>1. CASE Ready
      BY <3>1 DEF Ready, ReadyOn, Calm, ReadyOK
    <3>2. CASE ReadyEvent
      <4>1. agent[cur] \in {"idle", "error"} /\ rx = <<agent[cur]>>
        BY <3>2 DEF ReadyEvent, Calm, ReadyOK
      <4>2. ReadyOn(agent[cur])  BY <3>2, <4>1 DEF ReadyEvent
      <4>. QED  BY <3>2, <4>1, <4>2 DEF ReadyEvent, ReadyOn, Calm, ReadyOK
    <3>3. CASE Subscribe
      BY <3>3 DEF Subscribe, Calm, ReadyOK
    <3>. QED  BY <1>3, <3>1, <3>2, <3>3
  <2>3. \A i \in Step : ~Working(i)'  BY <1>1, <2>1 DEF Working
  <2>4. CalmOK'  BY <2>1 DEF Calm, CalmOK
  <2>5. ReadyOK'  BY <2>1, <2>2 DEF ReadyOK
  <2>6. WorkerOK' /\ StoppedOK'  BY <2>2, <2>3 DEF WorkerOK, StoppedOK
  <2>. QED  BY <2>4, <2>5, <2>6 DEF Calm
<1>4. ASSUME Send PROVE Calm'
  <2>1. /\ pc = "sending" /\ pc' = "await" /\ agent' = [agent EXCEPT ![cur] = "running"]
        /\ prompt' = [prompt EXCEPT ![cur] = "running"] /\ rx' = Append(rx, "running")
        /\ UNCHANGED <<cur, stamped, late, up, row, lifecycle>>
    BY <1>4 DEF Send
  <2>2. cur \in stamped /\ rx = <<>>  BY <2>1 DEF Calm, ReadyOK
  <2>3. \A i \in Step : Working(i)' => i = cur  BY <1>1, <2>1 DEF Working
  <2>4. CalmOK'
    BY <1>1, <2>1 DEF Calm, CalmOK
  <2>5. rx' = <<"running">>  BY <2>1, <2>2
  <2>6. ReadyOK'  BY <2>1, <2>2, <2>5 DEF ReadyOK
  <2>7. WorkerOK' /\ StoppedOK'
    BY <1>1, <2>1, <2>3 DEF WorkerOK, StoppedOK, AfterTurn
  <2>. QED  BY <2>4, <2>6, <2>7 DEF Calm
<1>5. ASSUME SendHeld PROVE FALSE
  BY <1>5 DEF SendHeld, Calm, ReadyOK
<1>6. ASSUME Await PROVE Calm'
  <2>1. /\ pc = "await" /\ UNCHANGED <<cur, stamped, agent, prompt, late, up, row, lifecycle>>
    BY <1>6 DEF Await
  <2>2. /\ cur \in stamped
        /\ \/ pc' \in {"gate", "failStop"} /\ ~Working(cur)
           \/ pc' = "await" /\ (Working(cur) => rx' = <<>>)
    <3>1. cur \in stamped /\ (Working(cur) => rx = <<"running">>)
      BY <2>1, <1>6 DEF Calm, ReadyOK, Await
    <3>2. CASE Working(cur)
      <4>0. Head(<<"running">>) = "running" /\ Tail(<<"running">>) = <<>>
        OBVIOUS
      <4>1. Head(rx) = "running" /\ Tail(rx) = <<>> /\ agent[cur] = "running"
        BY <3>1, <3>2, <4>0 DEF Working
      <4>2. pc' = "await" /\ rx' = Tail(rx)
        BY <1>6, <4>1 DEF Await, TurnOver
      <4>. QED  BY <3>1, <4>1, <4>2
    <3>3. CASE ~Working(cur)
      BY <1>6, <3>1, <3>3 DEF Await
    <3>. QED  BY <3>2, <3>3
  <2>3. /\ \A i \in Step : Working(i)' => i = cur
        /\ pc' # "await" => \A i \in Step : ~Working(i)'
    BY <1>1, <2>1, <2>2 DEF Working
  <2>4. CalmOK'  BY <2>1 DEF Calm, CalmOK
  <2>5. ReadyOK'  BY <2>1, <2>2 DEF ReadyOK, Working
  <2>6. WorkerOK' /\ StoppedOK'
    BY <1>1, <2>1, <2>2, <2>3 DEF WorkerOK, StoppedOK, AfterTurn
  <2>. QED  BY <2>4, <2>5, <2>6 DEF Calm
<1>7. ASSUME StepErr \/ StepCanceled PROVE Calm'
  <2>1. /\ pc' \in {"failStop", "cancelStop"}
        /\ UNCHANGED <<cur, stamped, agent, prompt, late, up, row, lifecycle>>
    BY <1>7 DEF StepErr, StepCanceled
  <2>2. \A i \in Step : Working(i)' => i = cur /\ cur \in stamped
    BY <1>1, <2>1 DEF Working, Calm, ReadyOK
  <2>3. CalmOK'  BY <2>1 DEF Calm, CalmOK
  <2>4. ReadyOK'  BY <2>1 DEF ReadyOK
  <2>5. WorkerOK' /\ StoppedOK'
    BY <1>1, <2>1, <2>2 DEF WorkerOK, StoppedOK, AfterTurn
  <2>. QED  BY <2>3, <2>4, <2>5 DEF Calm
<1>. QED
  BY <1>2, <1>3, <1>4, <1>5, <1>6, <1>7 DEF Kernel, Load, Provision, ProvisionFails, Loop,
     CancelRun, Gate, Commit, Record, ArchiveStep, Finalize, FinalizeErr, FinRecord, Finish,
     FailStop, FailWrite, CancelStepStop, CancelStepAbandon, CancelStepArchive,
     CancelStepWrite, RefuseStale, RefuseFail, WatchdogFails, Deregister, KernelErr, ReadyPc

\* The kernel winds down: whoever is still in a turn was told to stop.
LEMMA CalmClosing ==
  ASSUME IInv, Calm, Kernel, pc \in (AfterTurn \ {"await"}) \cup {"exit"}
  PROVE  Calm'
<1> USE DEF KernelAt, KernelFrame, GoTo, dbVars, agentVars, hostVars, cmdVars
<1>1. /\ up /\ RowExists /\ row # "absent" /\ lifecycle # "launch"
      /\ agent \in [Step -> AgentState]
      /\ pc \notin {"exit", "panicked"} => cur \in Step
      /\ pc # "exit" => \A i \in Step : Working(i) => i = cur
  <2>1. up /\ RowExists /\ row # "absent" /\ lifecycle # "launch"
    BY DEF IInv, DriverInv, DownOK, RowOK, LockOK, RowExists, AfterTurn
  <2>2. agent \in [Step -> AgentState]
    BY DEF IInv, TypeInv, TypeOK, AgentTypes
  <2>3. /\ pc \notin {"exit", "panicked"} => cur \in Step
        /\ pc # "exit" => \A i \in Step : Working(i) => i = cur
    BY DEF Calm, WorkerOK, Ending, AfterTurn, IInv, TypeInv, CurOK, StepPc
  <2>. QED  BY <2>1, <2>2, <2>3
<1>2. ASSUME FailStop \/ CancelStepStop PROVE Calm'
  <2>1. /\ pc' \in {"failWrite", "cancelAbandon"} /\ pc \in {"failStop", "cancelStop"}
        /\ UNCHANGED <<cur, stamped, agent, prompt, late, up, row, lifecycle>>
        /\ Working(cur) => cur \in stopping'
    BY <1>1, <1>2 DEF FailStop, CancelStepStop, Stop, Calm, StoppedOK, Working, AfterTurn
  <2>2. \A i \in Step : Working(i)' => i = cur /\ i \in stopping'
    BY <1>1, <2>1 DEF Working
  <2>3. CalmOK' /\ ReadyOK'  BY <2>1 DEF Calm, CalmOK, ReadyOK
  <2>4. WorkerOK' /\ StoppedOK'
    BY <1>1, <2>1, <2>2 DEF WorkerOK, StoppedOK, AfterTurn
  <2>. QED  BY <2>3, <2>4 DEF Calm
<1>3. ASSUME FailWrite \/ CancelStepAbandon \/ CancelStepArchive \/ CancelStepWrite
             \/ WatchdogFails \/ Deregister
      PROVE  Calm'
  <2>1. /\ pc \notin {"await", "failStop", "cancelStop"}
        /\ pc' \in {"exit", "none", "cancelArchive", "cancelWrite"}
        /\ pc' \notin {"exit", "none"} => cur' = cur /\ pc # "exit"
        /\ UNCHANGED <<prompt, late, up, lifecycle, stopping, faults>>
        /\ agent' = agent \/ agent' = [agent EXCEPT ![cur] = "archived"]
        /\ row' # "absent"
    BY <1>1, <1>3 DEF FailWrite, FailRun, SetStatus, CancelStepAbandon, CancelStepArchive,
       CancelStepWrite, WatchdogFails, KernelErr, Deregister, Archive, RowExists, AfterTurn
  <2>2. \A i \in Step : Working(i)' => Working(i)
    BY <1>1, <2>1 DEF Working
  <2>3. CalmOK' /\ ReadyOK'  BY <2>1 DEF Calm, CalmOK, ReadyOK
  <2>4. WorkerOK'
    BY <1>1, <2>1, <2>2 DEF Calm, WorkerOK, AfterTurn, Ending
  <2>5. StoppedOK'
    BY <2>1, <2>2 DEF Calm, StoppedOK
  <2>. QED  BY <2>3, <2>4, <2>5 DEF Calm
<1>. QED
  BY <1>2, <1>3 DEF Kernel, Load, Provision, ProvisionFails, Loop, CancelRun, Spawn, Ready,
     ReadyEvent, Subscribe, Send, SendHeld, Await, StepErr, StepCanceled, StepWait, Gate,
     Commit, Record, ArchiveStep, Finalize, FinalizeErr, FinRecord, Finish, RefuseStale,
     RefuseFail, KernelErr, AfterTurn


\* Commands start no turn, and only stop those that are.
LEMMA CalmCommand ==
  ASSUME IInv, Calm, Command \/ UNCHANGED vars
  PROVE  Calm'
<1> USE DEF driveVars, agentVars, hostVars, dbVars, cmdVars
<1>1. ASSUME LaunchInsert PROVE Calm'
  <2>1. pc = "none" /\ \A i \in Step : ~Working(i)
    BY <1>1 DEF LaunchInsert, Calm, WorkerOK, IInv, DriverInv, RowOK, RowExists
  <2>. QED
    BY <1>1, <2>1, NobodyWorks DEF LaunchInsert, Calm, CalmOK, Working, ReadyPc
<1>2. ASSUME LaunchSpawn PROVE Calm'
  <2>1. pc = "none" /\ \A i \in Step : ~Working(i)
    BY <1>2 DEF LaunchSpawn, Calm, WorkerOK, IInv, DriverInv, LockOK
  <2>2. pc' \in {"none", "load"} /\ UNCHANGED <<agent, prompt, late>>
    BY <1>2, <2>1 DEF LaunchSpawn, SpawnDrive, GoTo
  <2>. QED  BY <2>1, <2>2, NobodyWorks DEF Calm, CalmOK, Working, ReadyPc
<1>3. ASSUME CancelRead \/ CancelFlag \/ CancelStop \/ CancelWrite \/ UNCHANGED vars
      PROVE  Calm'
  <2>1. /\ UNCHANGED <<agent, prompt, late, pc, cur, rx, up, stamped, faults, lifecycle>>
        /\ stopping \subseteq stopping'
        /\ row' = "absent" => row = "absent"
    BY <1>3 DEF CancelRead, CancelFlag, CancelStop, CancelWrite, Stop, SetStatus, vars
  <2>. QED  BY <2>1, QuietAgents
<1>4. ASSUME DeleteCheck \/ DeleteRegistry \/ DeleteData \/ DeleteDataFails
      PROVE  Calm'
  <2>1. /\ UNCHANGED <<agent, prompt, late, pc, cur, rx, up, stopping, faults>>
        /\ pc # "none" => stamped' = stamped
        /\ row' = "absent" => row = "absent"
        /\ lifecycle' = "launch" => lifecycle = "launch"
    BY <1>4 DEF DeleteCheck, DeleteRegistry, WindingDown, DeleteData, DeleteDataFails, IInv,
       DriverInv, LockOK
  <2>. QED  BY <2>1, QuietAgents
<1>5. ASSUME DeleteDiscard PROVE Calm'
  <2>1. PICK S \in SUBSET Owned :
          /\ agent' = [i \in Step |-> IF i \in S THEN "discarded" ELSE agent[i]]
          /\ late' = late \ S
          /\ stopping' = stopping \ S
          /\ lifecycle' = IF S = Owned THEN lifecycle ELSE "free"
    BY <1>5 DEF DeleteDiscard
  <2>2. pc = "none" /\ UNCHANGED <<pc, cur, prompt, row, up, faults>>
    BY <1>5 DEF DeleteDiscard, IInv, DriverInv, LockOK
  <2>3. \A i \in Step : Working(i)' => Working(i) /\ (i \in stopping => i \in stopping')
    BY <2>1 DEF Working
  <2>4. CalmOK'  BY <2>1, <2>2 DEF Calm, CalmOK
  <2>5. ReadyOK'  BY <2>2 DEF ReadyOK
  <2>6. WorkerOK'  BY <2>1, <2>2, <2>3 DEF Calm, WorkerOK, Ending
  <2>7. StoppedOK'  BY <2>2, <2>3 DEF Calm, StoppedOK
  <2>. QED  BY <2>4, <2>5, <2>6, <2>7 DEF Calm
<1>. QED  BY <1>1, <1>2, <1>3, <1>4, <1>5 DEF Command

\* What an agent does on its own, short of a glitch.
LEMMA CalmAgent ==
  ASSUME IInv, Calm, NEW i \in Step, Agent(i), faults' = faults
  PROVE  Calm'
<1> USE DEF AgentFrame, dbVars, gitVars, cmdVars
<1>1. /\ agent \in [Step -> AgentState] /\ prompt \in [Step -> PromptState]
      /\ cur \in 1..(N + 1)
      /\ faults["glitch"] \in Nat /\ faults \in [FaultKind -> Nat]
    BY DEF IInv, TypeInv, TypeOK, AgentTypes, DriveTypes, OtherTypes, FaultKind
<1>2. ~Fault("glitch")
  BY <1>1 DEF Fault, FaultKind
<1>3. UNCHANGED <<pc, cur, stamped, row, lifecycle, up, faults>> \/ ~Agent(i)
  BY DEF Agent, AgentReady, AgentTurnEnds, AgentRedeliver, AgentReadyLate, LateBroadcast,
     AgentExits, AgentSelfStarts
<1>4. ASSUME AgentReady(i) PROVE Calm'
  <2>1. PICK s \in {"idle", "error"} : agent' = [agent EXCEPT ![i] = s] /\ Broadcast(i, s)
    BY <1>4 DEF AgentReady
  <2>2. agent[i] = "spawning" /\ UNCHANGED <<prompt, late, stopping>>
    BY <1>4 DEF AgentReady
  <2>3. /\ agent'[i] = s
        /\ \A j \in Step : j # i => agent'[j] = agent[j]
        /\ \A j \in Step : Working(j)' = Working(j)
    BY <1>1, <2>1, <2>2 DEF Working
  <2>4. CalmOK'  BY <2>2 DEF Calm, CalmOK
  <2>5. ReadyOK'
    <3>1. CASE i = cur
      <4>1. /\ cur \in stamped' \/ pc \notin ReadyPc
            /\ pc \notin {"subscribe", "sending"} /\ ~Working(cur)'
            /\ pc = "readyWait" => rx = <<>>
        BY <1>3, <2>2, <2>3, <3>1 DEF Calm, ReadyOK, ReadyPc, Working
      <4>2. pc = "readyWait" => rx' = <<s>>
        BY <2>1, <3>1, <4>1 DEF Broadcast, Subscribed
      <4>. QED  BY <1>3, <2>3, <3>1, <4>1, <4>2 DEF ReadyOK, ReadyPc
    <3>2. CASE i # cur
      <4>1. rx' = rx  BY <2>1, <3>2 DEF Broadcast
      <4>2. pc \in ReadyPc => cur \in Step /\ agent'[cur] = agent[cur]
        BY <2>3, <3>2 DEF IInv, TypeInv, CurOK, StepPc, StepWait, ReadyPc
      <4>. QED  BY <1>3, <4>1, <4>2 DEF Calm, ReadyOK, ReadyPc, Working
    <3>. QED  BY <3>1, <3>2
  <2>6. WorkerOK' /\ StoppedOK'
    <3>1. WorkerOK'  BY <1>3, <2>3 DEF Calm, WorkerOK, Ending
    <3>2. pc = "cancelStop" => cur \in Step
      BY DEF IInv, TypeInv, CurOK, StepPc
    <3>3. StoppedOK'  BY <1>3, <2>2, <2>3, <3>2 DEF Calm, StoppedOK
    <3>. QED  BY <3>1, <3>3
  <2>. QED  BY <2>4, <2>5, <2>6 DEF Calm
<1>5. ASSUME AgentTurnEnds(i) PROVE Calm'
  <2>1. PICK s \in {"idle", "error"} : agent' = [agent EXCEPT ![i] = s] /\ Broadcast(i, s)
    BY <1>5 DEF AgentTurnEnds
  <2>2. /\ Working(i) /\ late' = late /\ stopping' = stopping \ {i}
        /\ prompt' = prompt \/ prompt' = [prompt EXCEPT ![i] = "ran"]
    BY <1>5 DEF AgentTurnEnds, Working
  <2>3. \A j \in Step : Working(j)' => Working(j) /\ j # i
    BY <1>1, <2>1 DEF Working
  <2>4. CalmOK'  BY <1>1, <2>2 DEF Calm, CalmOK
  <2>5. ~Ending => pc \in AfterTurn /\ i = cur /\ ~Working(cur)'
    BY <1>3, <2>2, <2>3 DEF Calm, WorkerOK, Ending
  <2>6. ReadyOK'
    BY <1>3, <2>5 DEF Calm, ReadyOK, AfterTurn, Ending
  <2>7. WorkerOK'  BY <1>3, <2>3 DEF Calm, WorkerOK, Ending
  <2>8. pc = "cancelStop" => ~Working(cur)'  BY <2>5 DEF Ending
  <2>9. StoppedOK'  BY <1>3, <2>2, <2>3, <2>8 DEF Calm, StoppedOK
  <2>. QED  BY <2>4, <2>6, <2>7, <2>9 DEF Calm
<1>6. ~AgentRedeliver(i) /\ ~LateBroadcast(i)
  BY DEF AgentRedeliver, LateBroadcast, Calm, CalmOK
<1>. QED
  BY <1>2, <1>4, <1>5, <1>6 DEF Agent, AgentReadyLate, AgentExits, AgentSelfStarts

\* As long as no agent had a glitch, the agents do as they were told.
LEMMA AgentStep ==
  ASSUME IInv, AgentInv, [Next]_vars
  PROVE  AgentInv'
<1>. SUFFICES ASSUME faults'["glitch"] = 0 PROVE Calm'
  BY DEF AgentInv, Calm
<1>1. faults \in [FaultKind -> Nat]
  BY DEF IInv, TypeInv, TypeOK, OtherTypes
<1>2. /\ faults'["glitch"] = faults["glitch"]
      /\ Fault("glitch") => FALSE
  <2>1. Fault("glitch") => FALSE
    BY <1>1 DEF Fault, FaultKind
  <2>2. \/ faults' = faults \/ Fault("glitch")
        \/ \E k \in {"crash", "panic"} : CutShort(k)
    BY DEF Next, Command, LaunchInsert, LaunchSpawn, CancelRead, CancelFlag, CancelStop,
       CancelWrite, DeleteCheck, DeleteRegistry, DeleteDiscard, DeleteData, DeleteDataFails,
       Kernel, Load, Provision, ProvisionFails, Loop, CancelRun, Spawn, Ready, ReadyEvent,
       Subscribe, Send, SendHeld, Await, StepErr, StepCanceled, Gate, Commit, Record,
       ArchiveStep, Finalize, FinalizeErr, FinRecord, Finish, FailStop, FailWrite,
       CancelStepStop, CancelStepAbandon, CancelStepArchive, CancelStepWrite, RefuseStale,
       RefuseFail, WatchdogFails, KernelErr, KernelFrame, Deregister, SendRequeued, Panic, Agent,
       AgentReady, AgentTurnEnds, AgentRedeliver, AgentReadyLate, LateBroadcast, AgentExits,
       AgentSelfStarts, Crash, Boot, hostVars, vars
  <2>3. ASSUME NEW k \in {"crash", "panic"}, CutShort(k)
        PROVE  faults'["glitch"] = faults["glitch"]
    <3>1. journal \in Seq(Outcome) /\ "glitch" \in FaultKind \ {k, "torn"}
      BY DEF IInv, TypeInv, TypeOK, DbTypes, FaultKind
    <3>. QED  BY <1>1, <2>3, <3>1, Struck
  <2>. QED  BY <2>1, <2>2, <2>3
<1>3. Calm
  BY <1>1, <1>2 DEF AgentInv, Calm, Fault, FaultKind
<1>4. ASSUME Command \/ UNCHANGED vars PROVE Calm'
  BY <1>3, <1>4, CalmCommand
<1>5. ASSUME Kernel PROVE Calm'
  <2>1. CASE pc \in ReadyPc \cup {"spawn"}
    BY <1>3, <1>5, <2>1, CalmWait
  <2>2. CASE pc \in (AfterTurn \ {"await"}) \cup {"exit"}
    BY <1>3, <1>5, <2>2, CalmClosing
  <2>3. CASE pc \notin AfterTurn \cup ReadyPc \cup {"spawn", "exit"}
    BY <1>3, <1>5, <2>3, CalmKernel
  <2>. QED  BY <2>1, <2>2, <2>3 DEF ReadyPc
<1>6. ASSUME NEW i \in Step, Agent(i) PROVE Calm'
  <2>1. faults' = faults
    BY <1>2, <1>6 DEF Agent, AgentReady, AgentTurnEnds, AgentRedeliver, AgentReadyLate,
       LateBroadcast, AgentExits, AgentSelfStarts
  <2>. QED  BY <1>3, <1>6, <2>1, CalmAgent
<1>7. ASSUME Panic PROVE Calm'
  <2>1. /\ pc' = "panicked" /\ row' # "absent" /\ pc \notin {"none", "exit"}
        /\ UNCHANGED <<agent, prompt, late, up, lifecycle, cur>>
        /\ up /\ lifecycle # "launch"
    BY <1>7 DEF Panic, GoTo, agentVars, cmdVars, IInv, DriverInv, RowOK, LockOK, RowExists
  <2>9. faults'["panic"] # 0
    <3>1. faults'["panic"] = faults["panic"] + 1 /\ faults["panic"] \in Nat
      BY <1>1, <1>7, Struck DEF Panic, FaultKind, IInv, TypeInv, TypeOK, DbTypes
    <3>. QED  BY <3>1
  <2>2. CalmOK' /\ ReadyOK'  BY <1>3, <2>1 DEF Calm, CalmOK, ReadyOK
  <2>3. WorkerOK'  BY <1>3, <2>1 DEF Calm, WorkerOK, Ending, Working, AfterTurn
  <2>4. StoppedOK'  BY <2>1, <2>9 DEF StoppedOK
  <2>. QED  BY <2>2, <2>3, <2>4 DEF Calm
<1>8. ASSUME Crash PROVE Calm'
  <2>1. /\ \A i \in Step : ~Working(i)' /\ (prompt[i] \notin {"queued", "held"}
                                             => prompt'[i] \notin {"queued", "held"})
        /\ late' = {} /\ pc' = "none"
    BY <1>8 DEF Crash, Working
  <2>. QED  BY <1>3, <2>1, NobodyWorks DEF Calm, CalmOK, ReadyPc
<1>9. ASSUME Boot PROVE Calm'
  <2>1. /\ pc' \in {"none", "load"} /\ UNCHANGED <<agent, prompt, late>>
        /\ \A i \in Step : ~Working(i)
    BY <1>3, <1>9 DEF Boot, SpawnDrive, GoTo, agentVars, IInv, DriverInv, DownOK, Calm,
       WorkerOK
  <2>. QED  BY <1>3, <2>1, NobodyWorks DEF Calm, CalmOK, Working, ReadyPc
<1>10. ASSUME SendRequeued PROVE FALSE  BY <1>2, <1>10 DEF SendRequeued
<1>. QED  BY <1>4, <1>5, <1>6, <1>7, <1>8, <1>9, <1>10 DEF Next


-----------------------------------------------------------------------------
(* The theorems                                                            *)

EndInv == IInv /\ OutcomeInv /\ WorkInv /\ PanicOK /\ AgentInv

\* The invariant of the run, its outcome, its work and its agents is inductive.
THEOREM EndInductive == Spec => []EndInv
<1>1. Init => EndInv
  <2>1. Init => PanicOK  BY DEF Init, PanicOK
  <2>. QED
    BY <2>1, TypeInit, DriverInit, ProgressInit, OutcomeInit, WorkInit, AgentInit DEF EndInv, IInv
<1>2. EndInv /\ [Next]_vars => EndInv'
  <2> SUFFICES ASSUME EndInv, [Next]_vars PROVE EndInv'
    OBVIOUS
  <2>1. IInv'
    <3>1. TypeInv'  BY TypeStep, ProgressStep DEF EndInv, IInv, TypeInv
    <3>. QED  BY <3>1, DriverStep, ProgressStep DEF EndInv, IInv
  <2>. QED  BY <2>1, OutcomeStep, WorkStep, PanicStep, AgentStep DEF EndInv
<1>. QED  BY <1>1, <1>2, PTL DEF Spec

\* Whatever panics, restarts, refusals and cancels race, fail_run, run_done and
\* run_canceled journal one outcome between them, and one more only for a crash
\* or a panic between an outcome and its status; the last is the row's.
THEOREM OutcomeIsOne == Spec => []OneOutcome
<1>1. EndInv => OneOutcome
  BY DEF EndInv, OutcomeInv, JournalOK, Last, OneOutcome
<1>. QED  BY <1>1, EndInductive, PTL

\* A run that says `done` passed every gate, pinned every boundary commit,
\* pushed what finalize promises and wrote down its pull request.
THEOREM DoneIsEarned == Spec => []DoneMeansEveryStep
<1>1. EndInv => DoneMeansEveryStep  BY DEF EndInv, WorkInv
<1>. QED  BY <1>1, EndInductive, PTL

\* Once the drive task left in good order, fail_step and refuse_resume closed
\* every attempt row and stopped every turn.
THEOREM EndLeavesNothingOpen == Spec => []EndedRunsAreClosed
<1>1. EndInv => EndedRunsAreClosed
  <2> SUFFICES ASSUME EndInv, up, ~reg, faults["panic"] = 0 PROVE EndedRunsAreClosed
    BY DEF EndedRunsAreClosed
  <2>1. row \in {"done", "failed"} => \A i \in Step : exec[i] \notin ExecOpen
    BY DEF EndInv, WorkInv, ClosedOK, DoneMeansEveryStep, ExecOpen
  <2>2. pc = "none"  BY DEF EndInv, IInv, DriverInv, RegOK
  <2>3. faults["glitch"] = 0 => \A i \in Step : agent[i] = "running" => i \in stopping
    BY <2>2 DEF EndInv, AgentInv, StoppedOK, Working
  <2>. QED  BY <2>1, <2>3 DEF EndedRunsAreClosed
<1>. QED  BY <1>1, EndInductive, PTL

\* The steps share one working tree, and await_turn_end hands it from one agent
\* to the next: never two turns at a time, none while boundary_commit runs.
THEOREM TreeHasOneWorker == Spec => []OneAgentWorks
<1>1. EndInv => OneAgentWorks
  <2> SUFFICES ASSUME EndInv, faults["glitch"] = 0
               PROVE  /\ \A i, j \in Step :
                           agent[i] = "running" /\ agent[j] = "running" => i = j
                      /\ pc = "commit" => \A i \in Step : agent[i] # "running"
    BY DEF OneAgentWorks
  <2>1. WorkerOK  BY DEF EndInv, AgentInv
  <2>. QED  BY <2>1 DEF WorkerOK, Working, Ending, AfterTurn
<1>. QED  BY <1>1, EndInductive, PTL
=============================================================================
