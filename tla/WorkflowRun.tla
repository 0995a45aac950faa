---------------------------- MODULE WorkflowRun ----------------------------
(***************************************************************************)
(* One workflow run of the fletch engine: the kernel task that drives it   *)
(* (runner/mod.rs), the service commands that launch, cancel and delete it *)
(* (service.rs), the run and attempt rows they write (runner/store.rs,     *)
(* journal.rs), the step agents as the kernel sees them through the        *)
(* AgentDriver (driver.rs over the supervisor), and crashes of the host.   *)
(*                                                                         *)
(* Runs share nothing but the service's lifecycle mutex, so one run is     *)
(* modelled; a step spawns at most one agent per attempt and has one       *)
(* attempt, so the agent of step i is called i.                            *)
(*                                                                         *)
(* A step of the model is what the code does between two awaits or under   *)
(* one hold of the database lock. The statements under one hold are not    *)
(* one transaction: a crash or a panic may fall between them, and then the *)
(* database keeps the first ones only (HalfEnded).                         *)
(***************************************************************************)
EXTENDS Naturals, Sequences

CONSTANTS
    N,          \* steps of the workflow
    Gates,      \* gates a step of the launched spec may have
    Finalizes,  \* what its finalize may ask for
    MaxFaults   \* bound: faults in a behaviour, of all kinds together

ASSUME ConstantsAssumption ==
    /\ N \in Nat \ {0}
    /\ Gates \subseteq {"commit", "verdict"} /\ Gates # {}
    /\ Finalizes \subseteq {"none", "push", "pr"} /\ Finalizes # {}
    /\ MaxFaults \in Nat

Step == 1..N

VARIABLES
    \* --- the spec snapshot the run was launched with
    gate,       \* the gate of each step
    fin,        \* what finalize does: nothing, push, or push and open a PR
    \* --- database rows
    row,        \* wf_run.status, or that there is no row (yet / any more)
    exec,       \* wf_step_exec.status of each step's attempt
    stamped,    \* steps whose exec row names its agent
    journal,    \* the outcomes among the run's wf_event rows, oldest first
    prRow,      \* wf_run.pr_url is set
    \* --- the drive task and its registry entry
    reg,        \* the run is in the service's registry of drivers
    cancel,     \* the registered driver's cancel flag
    pc,         \* where the kernel is
    cur,        \* index of the step in hand
    failAs,     \* the exec status fail_step will write
    rx,         \* unread events of the kernel's status subscription
    \* --- step agents (supervisor)
    agent,      \* live status of each agent
    prompt,     \* what became of each step's prompt
    late,       \* agents whose Idle is in the status map but not broadcast
    stopping,   \* agents whose turn was told to stop
    spawns,     \* how often each step spawned an agent
    verdict,    \* the verdict file the kernel found for each step
    \* --- git
    pinned,     \* steps whose boundary commit is pinned as a ref
    published,  \* what reached the remote
    \* --- commands in flight
    lifecycle,  \* holder of the service's lifecycle mutex
    canceller,  \* a cancel command's progress
    deleter,    \* a delete command's progress
    \* --- the host
    up,         \* the process runs
    faults      \* how many faults of each kind happened

specVars  == <<gate, fin>>
dbVars    == <<row, exec, stamped, journal, prRow>>
driveVars == <<reg, cancel, pc, cur, failAs, rx>>
agentVars == <<agent, prompt, late, stopping, spawns, verdict>>
gitVars   == <<pinned, published>>
cmdVars   == <<lifecycle, canceller, deleter>>
hostVars  == <<up, faults>>
vars == <<specVars, dbVars, driveVars, agentVars, gitVars, cmdVars, hostVars>>

----------------------------------------------------------------------------
(* Types                                                                   *)

RunStatus  == {"absent", "pending", "running", "done", "failed", "canceled",
               "deleted"}
Active     == {"pending", "running"}
Terminal   == {"done", "failed", "canceled"}
ExecStatus == {"none", "spawning", "running", "done", "blocked", "error",
               "abandoned"}
ExecOpen   == {"spawning", "running"}
AgentState == {"none", "spawning", "idle", "running", "error", "down",
               "archived", "discarded"}
PromptState == {"unsent", "queued", "held", "running", "ran"}
\* A missing or malformed file, result "done", or any other result.
Verdict    == {"unreadable", "done", "notDone"}
Outcome    == {"run_done", "run_failed", "run_canceled"}

\* The waits of drive_step: the select! around it races each of them with
\* the step deadline and the cancel flag.
StepWait   == {"spawn", "ready", "readyWait", "subscribe", "sending", "await"}
\* Where the kernel holds a status subscription that buffers events.
Subscribed == {"readyWait", "sending", "await"}
KernelPc   == StepWait \cup
              {"none", "load", "provision", "loop", "gate", "commit",
               "record", "archive", "finalize", "finRecord", "finish",
               "failStop", "failWrite", "cancelStop", "cancelAbandon",
               "cancelArchive", "cancelWrite", "runCancel", "refuse",
               "panicked", "exit"}

\* A crash of the host; a panic of the drive task; a glitch is an event on
\* the agent's side that makes its status stream disagree with its work.
\* "torn" counts the crashes and panics that fell between the two statements
\* that end a run.
FaultKind == {"crash", "panic", "glitch", "torn"}

SpecTypes == gate \in [Step -> Gates] /\ fin \in Finalizes

DbTypes ==
    /\ row \in RunStatus
    /\ exec \in [Step -> ExecStatus]
    /\ stamped \subseteq Step
    /\ journal \in Seq(Outcome)
    /\ prRow \in BOOLEAN

DriveTypes ==
    /\ reg \in BOOLEAN
    /\ cancel \in BOOLEAN
    /\ pc \in KernelPc
    /\ cur \in 1..(N + 1)
    /\ failAs \in {"error", "blocked"}
    /\ rx \in Seq(AgentState)

AgentTypes ==
    /\ agent \in [Step -> AgentState]
    /\ prompt \in [Step -> PromptState]
    /\ late \subseteq Step
    /\ stopping \subseteq Step
    /\ spawns \in [Step -> Nat]
    /\ verdict \in [Step -> Verdict]

OtherTypes ==
    /\ pinned \subseteq Step
    /\ published \in {"none", "pushed", "pr"}
    /\ lifecycle \in {"free", "launch", "delete"}
    /\ canceller \in {"idle", "flag", "stop", "write"}
    /\ deleter \in {"idle", "registry", "discard", "data"}
    /\ up \in BOOLEAN
    /\ faults \in [FaultKind -> Nat]

TypeOK == SpecTypes /\ DbTypes /\ DriveTypes /\ AgentTypes /\ OtherTypes

Init ==
    /\ gate \in [Step -> Gates]
    /\ fin \in Finalizes
    /\ row = "absent"
    /\ exec = [i \in Step |-> "none"]
    /\ stamped = {}
    /\ journal = <<>>
    /\ prRow = FALSE
    /\ reg = FALSE
    /\ cancel = FALSE
    /\ pc = "none"
    /\ cur = 1
    /\ failAs = "error"
    /\ rx = <<>>
    /\ agent = [i \in Step |-> "none"]
    /\ prompt = [i \in Step |-> "unsent"]
    /\ late = {}
    /\ stopping = {}
    /\ spawns = [i \in Step |-> 0]
    /\ verdict = [i \in Step |-> "unreadable"]
    /\ pinned = {}
    /\ published = "none"
    /\ lifecycle = "free"
    /\ canceller = "idle"
    /\ deleter = "idle"
    /\ up = TRUE
    /\ faults = [k \in FaultKind |-> 0]

----------------------------------------------------------------------------
(* Writes shared by several actions                                        *)

RowExists == row \notin {"absent", "deleted"}

\* UPDATE wf_run SET status ... WHERE id: unconditional, a no-op on no row.
SetStatus(s) == row' = IF RowExists THEN s ELSE row

\* Event rows reference the run row, so an append without one fails.
Journal(e) == journal' = IF RowExists THEN Append(journal, e) ELSE journal

\* create_step_exec, finish_step_exec and abandon_exec.
SetExec(i, s) == exec' = IF RowExists THEN [exec EXCEPT ![i] = s] ELSE exec

StampSpawned(i) ==
    /\ SetExec(i, "running")
    /\ stamped' = IF RowExists THEN stamped \cup {i} ELSE stamped

AbandonAsRun(i) == SetExec(i, "canceled")
AbandonExec(i) == SetExec(i, "abandoned")

FailUnjournaled == SetStatus("failed") /\ UNCHANGED journal
FailRun == Journal("run_failed") /\ SetStatus("failed")

\* supervisor::set_status as the kernel's receiver sees it.
Broadcast(i, s) ==
    rx' = IF i = cur /\ pc \in Subscribed THEN Append(rx, s) ELSE rx

\* stop_agent interrupts the turn of an agent that has a process. It never
\* shuts the process down, and an agent still spawning is not in the map.
StopNothing(S) == UNCHANGED stopping
Stop(S) == stopping' = stopping \cup {i \in S : agent[i] = "running"}

\* archive_agent refuses an agent that is spawning or in a turn.
Archive(i) ==
    agent' = IF agent[i] \in {"idle", "error", "down"}
             THEN [agent EXCEPT ![i] = "archived"] ELSE agent

LiveStepAgents == {i \in stamped : exec[i] \in ExecOpen}

\* gates::evaluate over what read_verdict found: TRUE is GateOutcome::Done.
EvaluateGate(g, v) == g = "verdict" => v = "done"

GoTo(l) == pc' = l

\* The kernel's locals go out of scope.
DropLocals == cur' = 1 /\ failAs' = "error" /\ rx' = <<>>

FaultLeft == faults["crash"] + faults["panic"] + faults["glitch"] < MaxFaults
Fault(k) == FaultLeft /\ faults' = [faults EXCEPT ![k] = @ + 1]
TornBy(k) ==
    FaultLeft /\ faults' = [faults EXCEPT ![k] = @ + 1, !["torn"] = @ + 1]

----------------------------------------------------------------------------
(* Service commands                                                        *)

\* launch, up to the INSERT. A failure before it (validation, the box
\* refusal, an unresolvable base, provisioning) leaves no row behind, though
\* it may leave the run directory it was provisioning.
LaunchInsert ==
    /\ up /\ row = "absent" /\ lifecycle = "free"
    /\ row' = "pending"
    /\ lifecycle' = "launch"
    /\ UNCHANGED <<specVars, exec, stamped, journal, prRow, driveVars, agentVars,
                   gitVars, canceller, deleter, hostVars>>

\* spawn_drive_task: register a fresh cancel flag and start the kernel,
\* unless the run has a driver already.
SpawnDrive ==
    IF reg THEN UNCHANGED <<reg, cancel, pc>>
           ELSE reg' = TRUE /\ cancel' = FALSE /\ GoTo("load")

LaunchSpawn ==
    /\ up /\ lifecycle = "launch"
    /\ SpawnDrive
    /\ lifecycle' = "free"
    /\ UNCHANGED <<specVars, dbVars, cur, failAs, rx, agentVars, gitVars,
                   canceller, deleter, hostVars>>

\* cancel: look the driver up ...
CancelRead ==
    /\ up /\ canceller = "idle" /\ RowExists
    /\ canceller' = IF reg THEN "flag" ELSE "stop"
    /\ UNCHANGED <<specVars, dbVars, driveVars, agentVars, gitVars,
                   lifecycle, deleter, hostVars>>

\* ... and either store into its flag (one nobody reads any more when the
\* driver has left meanwhile) ...
CancelFlag ==
    /\ up /\ canceller = "flag"
    /\ cancel' = (cancel \/ reg)
    /\ canceller' = "idle"
    /\ UNCHANGED <<specVars, dbVars, reg, pc, cur, failAs, rx, agentVars,
                   gitVars, lifecycle, deleter, hostVars>>

\* ... or stop lingering agents and write `canceled` directly.
CancelStop ==
    /\ up /\ canceller = "stop"
    /\ Stop(LiveStepAgents)
    /\ canceller' = "write"
    /\ UNCHANGED <<specVars, dbVars, driveVars, agent, prompt, late, spawns,
                   verdict, gitVars, lifecycle, deleter, hostVars>>

CancelWrite ==
    /\ up /\ canceller = "write"
    /\ SetStatus("canceled")
    /\ canceller' = "idle"
    /\ UNCHANGED <<specVars, exec, stamped, journal, prRow, driveVars,
                   agentVars, gitVars, lifecycle, deleter, hostVars>>

\* delete_run: the terminal-status guard, under the lifecycle mutex ...
DeleteCheck ==
    /\ up /\ deleter = "idle" /\ lifecycle = "free" /\ row \in Terminal
    /\ lifecycle' = "delete"
    /\ deleter' = "registry"
    /\ UNCHANGED <<specVars, dbVars, driveVars, agentVars, gitVars,
                   canceller, hostVars>>

\* ... the winding-down guard ...
NeverWindingDown == FALSE
WindingDown == reg

DeleteRegistry ==
    /\ up /\ deleter = "registry"
    /\ deleter' = IF WindingDown THEN "idle" ELSE "discard"
    /\ lifecycle' = IF WindingDown THEN "free" ELSE lifecycle
    /\ UNCHANGED <<specVars, dbVars, driveVars, agentVars, gitVars,
                   canceller, hostVars>>

\* ... discard every owned agent, going on past one that fails ...
Owned == {i \in Step : agent[i] \notin {"none", "discarded"}}

DeleteDiscard ==
    /\ up /\ deleter = "discard"
    /\ \E S \in SUBSET Owned :
         /\ agent' = [i \in Step |-> IF i \in S THEN "discarded" ELSE agent[i]]
         /\ late' = late \ S
         /\ stopping' = stopping \ S
         /\ deleter' = IF S = Owned THEN "data" ELSE "idle"
         /\ lifecycle' = IF S = Owned THEN lifecycle ELSE "free"
    /\ UNCHANGED <<specVars, dbVars, driveVars, prompt, spawns, verdict,
                   gitVars, canceller, hostVars>>

\* ... and only then delete the rows (the attempts and events cascade) and
\* the run directory with its repo, or fail. RunCleanup details this step.
DeleteData ==
    /\ up /\ deleter = "data"
    /\ row' = "deleted"
    /\ exec' = [i \in Step |-> "none"]
    /\ stamped' = {}
    /\ journal' = <<>>
    /\ prRow' = FALSE
    /\ pinned' = {}
    /\ deleter' = "idle"
    /\ lifecycle' = "free"
    /\ UNCHANGED <<specVars, driveVars, agentVars, published, canceller,
                   hostVars>>

DeleteDataFails ==
    /\ up /\ deleter = "data"
    /\ deleter' = "idle"
    /\ lifecycle' = "free"
    /\ UNCHANGED <<specVars, dbVars, driveVars, agentVars, gitVars, canceller,
                   hostVars>>

Command ==
    \/ LaunchInsert \/ LaunchSpawn
    \/ CancelRead \/ CancelFlag \/ CancelStop \/ CancelWrite
    \/ DeleteCheck \/ DeleteRegistry \/ DeleteDiscard \/ DeleteData
    \/ DeleteDataFails

----------------------------------------------------------------------------
(* The kernel: run_kernel_inner                                            *)

KernelAt(l) == up /\ pc = l

\* What a kernel step leaves alone.
KernelFrame == UNCHANGED <<specVars, reg, cancel, cmdVars, hostVars>>

\* load_run, then its early returns. A run that is neither terminal nor
\* pending was left by an earlier process: refuse_resume.
StartableAnew == row \in Active
Startable == row = "pending"

Load ==
    /\ KernelAt("load")
    /\ \/ Startable /\ GoTo("provision")
       \/ ~Startable /\ row = "running" /\ GoTo("refuse")
       \/ ~Startable /\ row # "running" /\ GoTo("exit")
    /\ KernelFrame
    /\ UNCHANGED <<dbVars, cur, failAs, rx, agentVars, gitVars>>

\* Parse the spec, provision the run repo, detach at the base; then journal
\* and flip the row under one lock.
Provision ==
    /\ KernelAt("provision")
    /\ SetStatus("running")
    /\ GoTo("loop")
    /\ KernelFrame
    /\ UNCHANGED <<exec, stamped, journal, prRow, cur, failAs, rx, agentVars,
                   gitVars>>

\* An error bubbling out of run_kernel_inner fails the run.
KernelErr(l) ==
    /\ KernelAt(l)
    /\ FailRun
    /\ GoTo("exit")
    /\ KernelFrame
    /\ UNCHANGED <<exec, stamped, prRow, cur, failAs, rx, agentVars, gitVars>>

ProvisionFails == KernelErr("provision")

\* The top of the step loop: past the last step, a cancel, or a new attempt.
StepsLeftButOne == cur < N
StepsLeft == cur <= N

CancelSeen == cancel

Loop ==
    /\ KernelAt("loop")
    /\ \/ ~StepsLeft /\ GoTo("finalize") /\ UNCHANGED exec
       \/ StepsLeft /\ CancelSeen /\ GoTo("runCancel") /\ UNCHANGED exec
       \/ StepsLeft /\ ~CancelSeen /\ GoTo("spawn") /\ SetExec(cur, "spawning")
    /\ KernelFrame
    /\ UNCHANGED <<row, stamped, journal, prRow, cur, failAs, rx, agentVars,
                   gitVars>>

\* cancel_run: stop what is still live, then journal and mark the run.
CancelRun ==
    /\ KernelAt("runCancel")
    /\ Stop(LiveStepAgents)
    /\ Journal("run_canceled")
    /\ SetStatus("canceled")
    /\ GoTo("exit")
    /\ KernelFrame
    /\ UNCHANGED <<exec, stamped, prRow, cur, failAs, rx, agent, prompt, late,
                   spawns, verdict, gitVars>>

----------------------------------------------------------------------------
(* drive_step: spawn, wait until ready, prompt, wait for the turn's end    *)

\* spawn_agent has no await after it inserts the agent's record, and
\* stamp_spawned runs in the same poll: no cancel or deadline comes between
\* an agent existing and its exec row naming it.
Spawn ==
    /\ KernelAt("spawn")
    /\ agent' = [agent EXCEPT ![cur] = "spawning"]
    /\ spawns' = [spawns EXCEPT ![cur] = @ + 1]
    /\ StampSpawned(cur)
    /\ GoTo("ready")
    /\ KernelFrame
    /\ UNCHANGED <<row, journal, prRow, cur, failAs, rx, prompt, late,
                   stopping, verdict, gitVars>>

\* await_agent_ready on a status: Idle is ready, Error fails the step.
ReadyOn(s) ==
    \/ s = "idle" /\ GoTo("subscribe") /\ rx' = <<>>
    \/ s = "error" /\ GoTo("failStop") /\ rx' = <<>>
    \/ s \notin {"idle", "error"} /\ GoTo("readyWait") /\ rx' = Tail(rx)

\* It subscribes, then reads the status ...
Ready ==
    /\ KernelAt("ready")
    /\ IF agent[cur] \in {"idle", "error"}
       THEN ReadyOn(agent[cur])
       ELSE GoTo("readyWait") /\ rx' = <<>>
    /\ KernelFrame
    /\ UNCHANGED <<dbVars, cur, failAs, agentVars, gitVars>>

\* ... then takes event after event; Lagged loses one and reads the status.
ReadyEvent ==
    /\ KernelAt("readyWait") /\ rx # <<>>
    /\ \E s \in {Head(rx), agent[cur]} : ReadyOn(s)
    /\ KernelFrame
    /\ UNCHANGED <<dbVars, cur, failAs, agentVars, gitVars>>

\* A second subscription, opened before the prompt is sent.
Subscribe ==
    /\ KernelAt("subscribe")
    /\ GoTo("sending")
    /\ KernelFrame
    /\ UNCHANGED <<dbVars, cur, failAs, rx, agentVars, gitVars>>

\* send_message delivers to an idle agent as a turn: Running, broadcast.
Send ==
    /\ KernelAt("sending") /\ agent[cur] = "idle"
    /\ agent' = [agent EXCEPT ![cur] = "running"]
    /\ prompt' = [prompt EXCEPT ![cur] = "running"]
    /\ rx' = Append(rx, "running")
    /\ GoTo("await")
    /\ KernelFrame
    /\ UNCHANGED <<dbVars, cur, failAs, late, stopping, spawns, verdict,
                   gitVars>>

\* Glitch: the hand-off fails after Running was announced (the process of an
\* idle agent is gone). revert_turn_start announces Idle, the prompt goes to
\* the queue, and send_user_message still returns Ok.
SendRequeued ==
    /\ KernelAt("sending") /\ agent[cur] = "idle" /\ Fault("glitch")
    /\ prompt' = [prompt EXCEPT ![cur] = "queued"]
    /\ rx' = rx \o <<"running", "idle">>
    /\ GoTo("await")
    /\ UNCHANGED <<specVars, dbVars, reg, cancel, cur, failAs, agent, late,
                   stopping, spawns, verdict, gitVars, cmdVars, up>>

\* An agent that errored after it was ready: the prompt is held in the queue.
SendHeld ==
    /\ KernelAt("sending") /\ agent[cur] = "error"
    /\ prompt' = [prompt EXCEPT ![cur] = "queued"]
    /\ GoTo("await")
    /\ KernelFrame
    /\ UNCHANGED <<dbVars, cur, failAs, rx, agent, late, stopping, spawns,
                   verdict, gitVars>>

AnyStatusIsTheEnd(s) == s \in {"running", "idle"}
TurnOver(s) == s = "idle"

\* await_turn_end: Idle is the end of the turn, Error its failure.
Await ==
    /\ KernelAt("await") /\ rx # <<>>
    /\ \E s \in {Head(rx), agent[cur]} :
         \/ TurnOver(s) /\ GoTo("gate") /\ rx' = <<>>
         \/ ~TurnOver(s) /\ s = "error" /\ GoTo("failStop") /\ rx' = <<>>
         \/ ~TurnOver(s) /\ s # "error" /\ GoTo("await") /\ rx' = Tail(rx)
    /\ KernelFrame
    /\ UNCHANGED <<dbVars, cur, failAs, agentVars, gitVars>>

\* What ends drive_step early: the spawn or the send fails, the deadline
\* around the step fires ...
StepErr ==
    /\ up /\ pc \in StepWait
    /\ GoTo("failStop")
    /\ rx' = <<>>
    /\ KernelFrame
    /\ UNCHANGED <<dbVars, cur, failAs, agentVars, gitVars>>

\* ... or the cancel flag wins the select!.
StepCanceled ==
    /\ up /\ pc \in StepWait /\ cancel
    /\ GoTo("cancelStop")
    /\ rx' = <<>>
    /\ KernelFrame
    /\ UNCHANGED <<dbVars, cur, failAs, agentVars, gitVars>>

----------------------------------------------------------------------------
(* After the turn: gate, boundary commit, archive                          *)

\* Only a verdict gate reads the file; the agent may have left anything.
Gate ==
    /\ KernelAt("gate")
    /\ \E v \in IF gate[cur] = "verdict" THEN Verdict ELSE {"unreadable"} :
         /\ verdict' = [verdict EXCEPT ![cur] = v]
         /\ failAs' = IF EvaluateGate(gate[cur], v) THEN failAs ELSE "blocked"
         /\ GoTo(IF EvaluateGate(gate[cur], v) THEN "commit" ELSE "failStop")
    /\ KernelFrame
    /\ UNCHANGED <<dbVars, cur, rx, agent, prompt, late, stopping, spawns,
                   gitVars>>

\* boundary_commit and pin_step_ref in the shared workspace, or their failure.
Commit ==
    /\ KernelAt("commit")
    /\ \/ pinned' = pinned \cup {cur} /\ GoTo("record")
       \/ UNCHANGED pinned /\ GoTo("failStop")
    /\ KernelFrame
    /\ UNCHANGED <<dbVars, cur, failAs, rx, agentVars, published>>

Record ==
    /\ KernelAt("record")
    /\ SetExec(cur, "done")
    /\ GoTo("archive")
    /\ KernelFrame
    /\ UNCHANGED <<row, stamped, journal, prRow, cur, failAs, rx, agentVars,
                   gitVars>>

ArchiveStep ==
    /\ KernelAt("archive")
    /\ Archive(cur)
    /\ cur' = cur + 1
    /\ GoTo("loop")
    /\ KernelFrame
    /\ UNCHANGED <<dbVars, failAs, rx, prompt, late, stopping, spawns, verdict,
                   gitVars>>

----------------------------------------------------------------------------
(* finalize_run and the end of the run                                     *)

\* gitops::finalize: push the branch, then try to open the PR.
Finalize ==
    /\ KernelAt("finalize")
    /\ \/ fin = "none" /\ GoTo("finish") /\ UNCHANGED published
       \/ fin # "none" /\ GoTo("finRecord") /\ published' = "pushed"
       \/ fin = "pr" /\ GoTo("finRecord") /\ published' = "pr"
    /\ KernelFrame
    /\ UNCHANGED <<dbVars, cur, failAs, rx, agentVars, pinned>>

FinalizeErr == fin # "none" /\ KernelErr("finalize")

\* The run row's PR columns, for an opened PR.
SetPr == prRow' = (prRow \/ (RowExists /\ published = "pr"))

FinRecord ==
    /\ KernelAt("finRecord")
    /\ SetPr
    /\ GoTo("finish")
    /\ KernelFrame
    /\ UNCHANGED <<row, exec, stamped, journal, cur, failAs, rx, agentVars,
                   gitVars>>

Finish ==
    /\ KernelAt("finish")
    /\ Journal("run_done")
    /\ SetStatus("done")
    /\ GoTo("exit")
    /\ KernelFrame
    /\ UNCHANGED <<exec, stamped, prRow, cur, failAs, rx, agentVars, gitVars>>

----------------------------------------------------------------------------
(* fail_step, cancel_step, refuse_resume                                   *)

\* The agent handle is the one drive_step returned or the one stamped on the
\* exec row; both are the agent of `cur` when there is one.
FailStop ==
    /\ KernelAt("failStop")
    /\ Stop({cur})
    /\ GoTo("failWrite")
    /\ KernelFrame
    /\ UNCHANGED <<dbVars, cur, failAs, rx, agent, prompt, late, spawns,
                   verdict, gitVars>>

CloseFailed == SetExec(cur, failAs)

FailWrite ==
    /\ KernelAt("failWrite")
    /\ FailRun
    /\ CloseFailed
    /\ GoTo("exit")
    /\ KernelFrame
    /\ UNCHANGED <<stamped, prRow, cur, failAs, rx, agentVars, gitVars>>

CancelStepStop ==
    /\ KernelAt("cancelStop")
    /\ Stop({cur} \cap stamped)
    /\ GoTo("cancelAbandon")
    /\ KernelFrame
    /\ UNCHANGED <<dbVars, cur, failAs, rx, agent, prompt, late, spawns,
                   verdict, gitVars>>

CancelStepAbandon ==
    /\ KernelAt("cancelAbandon")
    /\ AbandonExec(cur)
    /\ GoTo("cancelArchive")
    /\ KernelFrame
    /\ UNCHANGED <<row, stamped, journal, prRow, cur, failAs, rx, agentVars,
                   gitVars>>

CancelStepArchive ==
    /\ KernelAt("cancelArchive")
    /\ IF cur \in stamped THEN Archive(cur) ELSE UNCHANGED agent
    /\ GoTo("cancelWrite")
    /\ KernelFrame
    /\ UNCHANGED <<dbVars, cur, failAs, rx, prompt, late, stopping, spawns,
                   verdict, gitVars>>

CancelStepWrite ==
    /\ KernelAt("cancelWrite")
    /\ Journal("run_canceled")
    /\ SetStatus("canceled")
    /\ GoTo("exit")
    /\ KernelFrame
    /\ UNCHANGED <<exec, stamped, prRow, cur, failAs, rx, agentVars, gitVars>>

\* One stale exec at a time: stop its agent, abandon the row; then fail.
RefuseStale ==
    /\ KernelAt("refuse")
    /\ \E i \in Step :
         /\ exec[i] \in ExecOpen
         /\ Stop({i} \cap stamped)
         /\ AbandonExec(i)
    /\ KernelFrame
    /\ UNCHANGED <<row, stamped, journal, prRow, pc, cur, failAs, rx, agent,
                   prompt, late, spawns, verdict, gitVars>>

RefuseFail ==
    /\ \A i \in Step : exec[i] \notin ExecOpen
    /\ KernelErr("refuse")

----------------------------------------------------------------------------
(* The end of the drive task, seen by its watchdog (spawn_drive_task)      *)

Deregister ==
    /\ KernelAt("exit")
    /\ reg' = FALSE
    /\ GoTo("none")
    /\ DropLocals
    /\ UNCHANGED <<specVars, dbVars, cancel, agentVars, gitVars, cmdVars,
                   hostVars>>

\* The outcome the kernel journals where it is about to end the run, before it
\* writes the status: Finish, cancel_step, cancel_run, and fail_run on an
\* error, by fail_step or by the watchdog.
EndsWith(e) ==
    \/ e = "run_done" /\ pc = "finish"
    \/ e = "run_canceled" /\ pc \in {"cancelWrite", "runCancel"}
    \/ e = "run_failed" /\ \/ pc \in {"provision", "failWrite", "panicked"}
                           \/ pc = "finalize" /\ fin # "none"
                           \/ pc = "refuse" /\ \A i \in Step : exec[i] \notin ExecOpen

\* fail_step closes the attempt before it journals.
CloseInHand == IF pc = "failWrite" THEN CloseFailed ELSE UNCHANGED exec

\* What a crash or a panic (k) leaves of an end it cut short: the attempt closed
\* and no outcome, or the outcome on the timeline and the status not written.
HalfEnded(k) ==
    \/ pc = "failWrite" /\ CloseFailed /\ UNCHANGED journal /\ Fault(k)
    \/ \E e \in Outcome : EndsWith(e) /\ Journal(e) /\ CloseInHand /\ TornBy(k)

CutShort(k) == HalfEnded(k) \/ (Fault(k) /\ UNCHANGED <<exec, journal>>)

\* A panic ends the kernel wherever it is ...
Panic ==
    /\ up /\ pc \notin {"none", "panicked", "exit"}
    /\ CutShort("panic")
    /\ GoTo("panicked")
    /\ UNCHANGED <<specVars, row, stamped, prRow, reg, cancel, cur, failAs, rx,
                   agentVars, gitVars, cmdVars, up>>

\* ... and the watchdog that awaits its end fails the run.
WatchdogFails == KernelErr("panicked")

Kernel ==
    \/ Load \/ Provision \/ ProvisionFails \/ Loop \/ CancelRun
    \/ Spawn \/ Ready \/ ReadyEvent \/ Subscribe
    \/ Send \/ SendHeld \/ Await \/ StepErr \/ StepCanceled
    \/ Gate \/ Commit \/ Record \/ ArchiveStep
    \/ Finalize \/ FinalizeErr \/ FinRecord \/ Finish
    \/ FailStop \/ FailWrite
    \/ CancelStepStop \/ CancelStepAbandon \/ CancelStepArchive
    \/ CancelStepWrite
    \/ RefuseStale \/ RefuseFail
    \/ WatchdogFails \/ Deregister

----------------------------------------------------------------------------
(* Step agents: what the supervisor does on its own                        *)

AgentFrame == UNCHANGED <<specVars, dbVars, reg, cancel, pc, cur, failAs,
                          spawns, gitVars, cmdVars, up>>

\* Either side of claim_spawn_outcome: the process is up, or the spawn failed
\* or timed out.
AgentReady(i) ==
    /\ up /\ agent[i] = "spawning"
    /\ \E s \in {"idle", "error"} :
         agent' = [agent EXCEPT ![i] = s] /\ Broadcast(i, s)
    /\ AgentFrame
    /\ UNCHANGED <<prompt, late, stopping, verdict, faults>>

\* The turn ends or the process dies in it.
AgentTurnEnds(i) ==
    /\ up /\ agent[i] = "running"
    /\ \E s \in {"idle", "error"} :
         agent' = [agent EXCEPT ![i] = s] /\ Broadcast(i, s)
    /\ prompt' = IF prompt[i] = "running"
                 THEN [prompt EXCEPT ![i] = "ran"] ELSE prompt
    /\ stopping' = stopping \ {i}
    /\ AgentFrame
    /\ UNCHANGED <<late, verdict, faults>>

\* A prompt held in the queue: the flush delivers it to an idle agent; with
\* no process, the send's one revive_and_flush brings one up first.
AgentRedeliver(i) ==
    /\ up
    /\ \/ /\ prompt[i] \in {"queued", "held"} /\ agent[i] = "idle"
          /\ agent' = [agent EXCEPT ![i] = "running"]
          /\ prompt' = [prompt EXCEPT ![i] = "running"]
          /\ Broadcast(i, "running")
       \/ /\ prompt[i] = "queued" /\ agent[i] \in {"idle", "error"}
          /\ agent' = [agent EXCEPT ![i] = "spawning"]
          /\ prompt' = [prompt EXCEPT ![i] = "held"]
          /\ Broadcast(i, "spawning")
    /\ AgentFrame
    /\ UNCHANGED <<late, stopping, verdict, faults>>

\* Glitch: the status map says Idle before the broadcast goes out
\* (claim_spawn_outcome writes the map, persists, and only then sends).
AgentReadyLate(i) ==
    /\ up /\ agent[i] = "spawning" /\ Fault("glitch")
    /\ agent' = [agent EXCEPT ![i] = "idle"]
    /\ late' = late \cup {i}
    /\ AgentFrame
    /\ UNCHANGED <<prompt, rx, stopping, verdict>>

LateBroadcast(i) ==
    /\ up /\ i \in late
    /\ late' = late \ {i}
    /\ Broadcast(i, "idle")
    /\ AgentFrame
    /\ UNCHANGED <<agent, prompt, stopping, verdict, faults>>

\* Glitch: the process of an idle agent crashes.
AgentExits(i) ==
    /\ up /\ agent[i] = "idle" /\ Fault("glitch")
    /\ agent' = [agent EXCEPT ![i] = "error"]
    /\ Broadcast(i, "error")
    /\ AgentFrame
    /\ UNCHANGED <<prompt, late, stopping, verdict>>

\* Glitch: the provider opens a turn of its own after the prompt's turn.
AgentSelfStarts(i) ==
    /\ up /\ agent[i] = "idle" /\ prompt[i] = "ran" /\ Fault("glitch")
    /\ agent' = [agent EXCEPT ![i] = "running"]
    /\ Broadcast(i, "running")
    /\ AgentFrame
    /\ UNCHANGED <<prompt, late, stopping, verdict>>

Agent(i) ==
    \/ AgentReady(i) \/ AgentTurnEnds(i) \/ AgentRedeliver(i)
    \/ AgentReadyLate(i) \/ LateBroadcast(i) \/ AgentExits(i)
    \/ AgentSelfStarts(i)

----------------------------------------------------------------------------
(* The host process                                                        *)

\* Everything in memory goes; rows, refs and the remote stay. An agent's
\* process dies with the host, its record stays and rests.
Crash ==
    /\ up /\ CutShort("crash")
    /\ up' = FALSE
    /\ reg' = FALSE
    /\ cancel' = FALSE
    /\ pc' = "none"
    /\ DropLocals
    /\ agent' = [i \in Step |->
                   IF agent[i] \in {"spawning", "idle", "running", "error"}
                   THEN "down" ELSE agent[i]]
    /\ prompt' = [i \in Step |->
                    IF prompt[i] = "running" THEN "ran" ELSE prompt[i]]
    /\ late' = {}
    /\ stopping' = {}
    /\ lifecycle' = "free"
    /\ canceller' = "idle"
    /\ deleter' = "idle"
    /\ UNCHANGED <<specVars, row, stamped, prRow, spawns, verdict, gitVars>>

\* resume_active_runs, before any command is served.
ResumablePending == row = "pending"
Resumable == row \in Active

Boot ==
    /\ ~up
    /\ up' = TRUE
    /\ IF Resumable THEN SpawnDrive ELSE UNCHANGED <<reg, cancel, pc>>
    /\ UNCHANGED <<specVars, dbVars, cur, failAs, rx, agentVars, gitVars,
                   cmdVars, faults>>

Next ==
    \/ Command
    \/ Kernel
    \/ SendRequeued
    \/ Panic
    \/ \E i \in Step : Agent(i)
    \/ Crash
    \/ Boot

(***************************************************************************)
(* Fairness: the drive task and its watchdog are polled by the runtime,    *)
(* and the deadline around each step is a timer that fires. Commands run   *)
(* to their end once accepted. A spawn resolves (the spawn watchdog), and  *)
(* an interrupted turn ends; a turn nobody stopped may go on for ever. The *)
(* host is started again after a crash.                                    *)
(***************************************************************************)
Fairness ==
    /\ WF_vars(Kernel)
    /\ WF_vars(LaunchSpawn)
    /\ WF_vars(CancelFlag \/ CancelStop \/ CancelWrite)
    /\ WF_vars(DeleteRegistry \/ DeleteDiscard \/ DeleteData)
    /\ \A i \in Step : WF_vars(AgentReady(i))
    /\ \A i \in Step : WF_vars(i \in stopping /\ AgentTurnEnds(i))
    /\ WF_vars(Boot)

Spec == Init /\ [][Next]_vars

FairSpec == Spec /\ Fairness

----------------------------------------------------------------------------
(* Properties                                                              *)

\* run_kernel's promise that it never leaves a run with no live driver:
\* whatever panics, crashes, cancels or errors, an active row of a host that
\* is up belongs to a registered drive task, or to the launch about to
\* register one.
ActiveHasDriver == up /\ row \in Active => reg \/ lifecycle = "launch"

\* A run is `done` only when every step of it passed: each attempt row is
\* done, its verdict gate read a verdict that says so, its boundary commit is
\* pinned, what finalize promises was pushed, and the row names the pull
\* request (set_pr comes before the flip), whatever raced or crashed before.
DoneMeansEveryStep ==
    row = "done" =>
      /\ \A i \in Step : /\ exec[i] = "done" /\ i \in pinned
                         /\ gate[i] = "verdict" => verdict[i] = "done"
      /\ fin # "none" => published # "none"
      /\ published = "pr" => prRow

\* The timeline tells one story: refusals, racing cancels, panics and restarts
\* journal one outcome between them (fail_run, run_done, run_canceled), and one
\* more only for a crash or a panic between the event and the status it goes
\* with; the outcome a `done` or `failed` row names is the timeline's last.
OneOutcome ==
    /\ Len(journal) <= 1 + faults["torn"]
    /\ row = "done" => journal # <<>> /\ journal[Len(journal)] = "run_done"
    /\ row = "failed" => journal # <<>> /\ journal[Len(journal)] = "run_failed"

\* No step is run twice, whatever crashes: a run that had started is refused,
\* not replayed over a workspace that holds its commits.
NothingIsRerun == \A i \in Step : spawns[i] <= 1

\* delete_run never removes a run whose drive task is still registered, even
\* one that a racing cancel already wrote `canceled` for.
NoDeleteUnderDriver == row = "deleted" => ~reg

\* A run that ended leaves nothing open: once the driver is gone (and did not
\* panic), no attempt row of a done or failed run is live, and whatever step
\* agent is still in a turn was told to stop, so nobody works unattended.
EndedRunsAreClosed ==
    up /\ ~reg /\ faults["panic"] = 0 =>
      /\ row \in {"done", "failed"} => \A i \in Step : exec[i] \notin ExecOpen
      /\ row \in Terminal /\ faults["glitch"] = 0 =>
           \A i \in Step : agent[i] = "running" => i \in stopping

\* The steps of a run share one working tree: without agent glitches, at most
\* one step's agent is in a turn, and none is while the tree is committed.
OneAgentWorks ==
    faults["glitch"] = 0 =>
      /\ \A i, j \in Step :
           agent[i] = "running" /\ agent[j] = "running" => i = j
      /\ pc = "commit" => \A i \in Step : agent[i] # "running"

\* Every run that was launched ends: it becomes done, failed or canceled, or
\* is deleted, through crashes, stuck agents, timeouts and cancels.
RunEnds == row \in Active ~> row \in Terminal \cup {"deleted"}

\* The run keeps the contract on the work it produces: commits in step order,
\* each once, published at most once and only when complete, nothing after the
\* run was deleted.
Contract == INSTANCE RunContract WITH gone <- (row = "deleted")
ImplementsContract == Contract!Spec

----------------------------------------------------------------------------
(* What comments and docs of the code say and the code does not do         *)

\* The "journal+status pair" that fail_run mirrors, were it a pair: a run has
\* one outcome on its timeline. A crash between run_done and its status leaves
\* a run the next start fails.
SingleOutcome == Len(journal) <= 1

\* "flag its live driver, which stops the step agent and writes `canceled`":
\* a run flagged while it is live does not end `done`.
CancelIsHonored == [][row # "done" /\ row' = "done" => ~cancel]_vars

\* The documented lifecycle pending -> running -> done | failed | canceled:
\* a terminal status is final (short of deleting the run).
TerminalIsFinal == [][(row \in Terminal) => row' \in {row, "deleted"}]_vars

\* "The agent's turn ended cleanly; the gate has not been consulted yet": the
\* kernel reaches the gate only after the prompt's turn ran.
TurnEndedMeansItRan == pc = "gate" => prompt[cur] = "ran"
============================================================================
