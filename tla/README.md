# A verification project for fletch

Fletch is a desktop and server application that runs AI coding agents. Each
agent is a CLI process in a sandboxed checkout. The engine (crate
`fletch-core`) supervises those processes, queues what users send them, and
runs *workflows*: sequences of steps, each done by an agent of its own in one
shared working tree, with a gate and a commit between steps and a push or pull
request at the end. Around the agents it hands them git playbooks
(*delegations*), nurses their pull requests (*autopilot*), has their code
reviewed by a second agent, and works through a project's *roadmap* by launching
workflows for its items.

This directory holds TLA+ models of the engine's own control logic, TLC
configurations that check them on small instances, and TLAPS proofs that hold
for every value of the constants. All paths below are relative to
`src/crates/fletch-core/src/`.

## 1. Inventory

| Component | State it keeps | Operations | Interacts with |
|---|---|---|---|
| Workflow kernel (`workflow/runner/`) | locals of one drive task per run: step index, subscription, failure kind | load, provision, drive a step (spawn, wait ready, prompt, wait for turn end), gate, commit, record, archive, finalize, fail, cancel, refuse | database rows, agent driver, git |
| Workflow service (`workflow/service.rs`) | registry of drivers with their cancel flags; lifecycle mutex | launch, cancel, delete, resume at startup; watchdog of each drive task | kernel, supervisor, cleanup |
| Run rows and journal (`workflow/journal.rs`, `runner/store.rs`) | `wf_run`, `wf_step_exec`, `wf_event` | status writes (unconditional), event appends, attempt rows | everything above |
| Run deletion (`workflow/cleanup.rs`) | run directories, live or `<id>.deleting` | stage, commit, restore, sweep, recover at startup | service, `supervisor::delete_project` |
| Gates, blackboard, git (`workflow/gates.rs`, `blackboard.rs`, `gitops.rs`) | verdict files, run repo, pinned refs, remote | evaluate, provision, boundary commit, pin, push, open PR | kernel |
| Agent driver (`workflow/driver.rs`) | none | spawn, status, subscribe, send, stop, archive | supervisor |
| Supervisor (`supervisor/mod.rs`, `lifecycle.rs`) | live status map, process map, generations, `interrupted` set | spawn, resume, stop, exit handling, spawn watchdog, status broadcast | sessions, database |
| Message delivery (`supervisor/messaging.rs`, `message_queue.rs`) | per-agent queue and its durable mirror, delivery locks | send, inject, enqueue, coalesce, flush, revive, rehydrate | supervisor |
| Archive and discard (`supervisor/disposition.rs`, `auto_archive.rs`) | reservations and open routes | archive, restore, discard | supervisor, git |
| Git delegations (`supervisor/delegation.rs`) | table of live delegations by checkout | delegate, record or hold, deliver, mark running, note a git operation, resolve, settle, abandon, drop | messaging, reviews, autopilot, git |
| Autopilot (`autopilot/`) | switches in the database, generation, tracked checkouts with cycle, attempts, barren worlds, thread cache | pass (read, decide, dispatch, await evidence, settle, retry, give up), verify, set | delegations, reviews, git, GitHub |
| Review engine (`review/`) | per checkout: rounds, flight, claim, pending start, last read, failure; its row | start, queue, round, report, status events, tick, stop, restart, automatic re-review | a hidden reviewer agent, delegations, git |
| Roadmap (`roadmap/`) | items with status, dependencies, run and pull request; holds; cap | drainer tick (settle, claim, launch, stamp), merge sweep, edits, brakes, hand-overs, merges | workflow service, GitHub |
| Accounts, checkpoints, session sync (`supervisor/*`) | per-feature tables | switch account, checkpoint, rewind, fork, move | supervisor |
| Remote host and relay, sandboxes, capture, UI | sessions, VMs, indexes | transport, I/O | all |

What is hard here: every command and every drive task is an asynchronous task
of its own; the database lock and the registry lock are each held for one
statement group at a time, so whatever is decided under one hold may be stale at
the next. The host may exit anywhere and comes back from the rows alone.
Agents are processes that answer late, never, or twice, and the kernel learns of
them through a status map and a bounded broadcast that do not change together.

What makes each modelled component right:

- *Kernel and service.* An active run always has somebody driving it and
  eventually ends. Nothing is run twice. `done` means every step's commit is
  there and published. A run is never deleted under its driver. Every agent
  spawned can be found again and is not left working after the run.
- *Message delivery.* A message whose sender was told it is held is kept, in
  memory and on disk, until it is given to the process or dropped by an archive
  the user asked for. While messages wait, somebody is on the way to deliver
  them. They arrive in order and once. No send call hangs, and no agent is left
  Running with nothing to end it.
- *Deletion.* The row delete is the commit point: before it nothing is lost,
  after it nothing is leaked, whatever fails in between.
- *Delegations.* A playbook's trigger reaches the agent once, not before the
  turn it was held behind is over, and not in one turn with another that was
  held. It is judged on its own turn. It never shares the checkout with a local
  review, and it ends, whatever was lost or replaced.
- *Autopilot.* Two brakes keep the unattended loop from burning turns: a budget
  of attempts per situation, and no second try on a world where a try changed
  nothing. Every judgment rests on evidence newer than the work it judges. A
  checkout that was switched off is left alone, and one with the user's own
  edits is never handed over.
- *Review.* One round at a time; one automatic review per state of the code, and
  no more of them than the budget of the pull request; every round and every queued
  start comes to an end; the phase shown ends up true of the code. (That a report
  counts for the round that asked for it is what the code means, and does not hold:
  section 3.)
- *Roadmap.* A run belongs to an item that will settle it, even if the host exits
  between launch and stamp. The cap holds. Dependencies have no loop. Done means
  landed, and stays. The queue, active items and merged pull requests move on.

`PROJECT.json` lists the components, the hazards at their lines with the
properties that would catch them, and the source lines of every definition.

## 2. Modules

| Module | Models |
|---|---|
| `WorkflowRun` | one run: kernel, service commands, rows, registry, step agents, host crashes |
| `RunContract` | what a run promises about its commits and its publication (abstract) |
| `WorkflowRunProofs` | inductive invariants, safety theorems, how a run ends and which agents it leaves, refinement of `RunContract` |
| `RunCleanup` | staged deletion of run directories and startup recovery |
| `RunCleanupProofs` | its theorems |
| `MessageDelivery` | one agent: sends, queue and mirror, turns, process starts, archive, host restarts |
| `MessageDeliveryProofs` | nothing lost, nothing stranded, no endless Running: invariant and theorems |
| `DeliveryOrderProofs` | once and in order: invariant and theorems |
| `Delegation` | the delegations of one agent: calls, driver, turns, git operations, reviews |
| `DelegationProofs` | its theorems |
| `Readiness` | autopilot's pure part: what blocks a reading and which rung it calls for |
| `Autopilot` | one agent's checkouts: the driver's pass, verifications, switches, the two brakes |
| `AutopilotProofs` | the two brakes and the evidence: invariant and theorems |
| `ReviewLoop` | the review memory of one checkout: starts, rounds, reports, driver, restarts |
| `ReviewLoopProofs` | one round at a time, the budget, one automatic review per code: invariants and theorems |
| `Roadmap` | one project's board: drainer, merge sweep, brakes and the users' commands |
| `RoadmapProofs` | its theorems, and that no edit closes a loop of dependencies |
| `MCWorkflowRun`, `MCRunCleanup`, `MCMessageDelivery`, `MCAutopilot`, `MCReviewLoop`, `MCRoadmap` | instances for TLC |

They meet where the code does. `Roadmap` takes from `WorkflowRun` that a launched
run ends and that its row can be deleted only then. `Delegation` and `Autopilot`
take from `MessageDelivery` that a hand-over opens a turn, joins one, or is held
for the next. `Delegation` and `ReviewLoop` each contain the other's half of the
admission lock, and `Autopilot` sees both as its environment.

### WorkflowRun

Runs share nothing but the service's lifecycle mutex, so one run is modelled.
The state falls into the rows (`row`, `exec`, `stamped`, `journal`, `prRow`),
the drive task (`reg`, `cancel`, `pc`, `cur`, `failAs`, `rx`), the step agents
(`agent`, `prompt`, `late`, `stopping`, `spawns`, `verdict`), git (`pinned`,
`published`), commands in flight (`lifecycle`, `canceller`, `deleter`), and the
host (`up`, `faults`). `spawns` only counts, for the properties.

One action is what the code does between two awaits or under one hold of the
database lock, so every interleaving of the kernel with cancel, delete, agents
and crashes is explored at that grain. `pc` names the position in
`run_kernel_inner`:

```
load -> provision -> loop -> spawn -> ready/readyWait -> subscribe -> sending
     -> await -> gate -> commit -> record -> archive -> loop ...
loop (no steps left) -> finalize -> finRecord -> finish -> exit
failures  -> failStop -> failWrite -> exit
cancels   -> cancelStop -> cancelAbandon -> cancelArchive -> cancelWrite -> exit
          or runCancel -> exit;   restarted runs: refuse -> exit
panics    -> panicked -> exit (the watchdog)
```

The statements under one hold of the database lock are not one transaction. Nobody
else sees the first without the second, so they are one step, but a crash or a
panic may fall between them: then the attempt is closed and no outcome journaled,
or the outcome is journaled and the status not written (`HalfEnded`, which
`faults["torn"]` counts).

`rx` is the kernel's buffered status subscription. A receive may return the
head of the buffer or, as after `Lagged`, the agent's present status. The
deadline around a step (`StepErr`) may fire in any wait; so may the cancel
(`StepCanceled`). `spawn_agent` has no await after it inserts the agent's record
and `stamp_spawned` runs in the same poll, which is why `Spawn` is one step.

Agents are modelled by what a run can see of the supervisor: a spawn resolves
to idle or error, a turn ends in idle or error or never, a prompt is delivered
or held in the queue. *Glitches* are the events that make the status stream
disagree with the work: the ready broadcast going out after the status map was
written (`claim_spawn_outcome`), a hand-off that fails after Running was
announced (`revert_turn_start`), an idle process dying, a provider opening a
turn by itself. They, panics of the drive task and crashes of the host share one
budget, `MaxFaults`.

Abstracted: what prompts, specs and verdict files say beyond the gate's
decision; the run repo beyond which steps are pinned; journal entries other
than the three outcomes. A database write is assumed to succeed when its row
exists. Failures before the INSERT of `launch` leave no row and are not steps; the
run directory with its blackboard and repo is provisioned first
(`workflow/service.rs:133-139`) and may be left on disk, which no row names and no
other run touches.

### RunCleanup

Several runs of one project with their rows and directories. A delete takes one
run (`delete_run_data_at`) or all of them (`delete_project`), renames each
directory aside, deletes the rows in one transaction, and sweeps; a failure
renames back. `Remove` may stop half way (`torn`). `Boot` and `RecoverOne` are
`recover_staged_run_dirs`; where the directory cannot be listed, `Boot` recovers
nothing. The lifecycle mutex serialises deletes, so there is
one at a time. `WorkflowRun`'s `DeleteData` is this protocol seen from outside.

### MessageDelivery

One agent in the structured view. Whoever sends or flushes holds the agent's
delivery lock: `lock` says who, `at` how far it has come, `hand` which batch it
carries. Whoever starts or restarts the process holds the lifecycle lock:
`life` and `phase`. The two interleave freely with each other, with the event
callbacks of the process and with tasks that wait for a lock (`flushers`,
`revives`, `respawns`). A step is one hold of one of the inner locks, or the
code between two reads of state that another thread may change.

```
send:   login -> route -> checkpoint -> start -> handoff -> sent
                       -> inject -> sent (or flush)
                       -> hold -> recheck -> report -> held (or flush)
                       -> enqueue -> flush
flush:  drain -> checkpoint -> start -> handoff -> clear
                                     -> failed -> back to the queue
respawn: free -> defer | forget | unflag (what take_idle answered) -> settled
start:  taken -> launch -> claim -> drain -> done
```

`status` is the live status map; `proc` the process map, where `broken` is a
dead process whose exit was not handled yet; `working` is the truth about the
turn. They change apart, as in the code: Running is raised before the hand-off,
a turn end writes Idle and runs its two drains after it (`ending`), an exit
follows the death. `queue` holds batches, `mirror` the `pending_messages` rows,
`rows` the `session_user_turns` rows.

`accepted` records the order in which sends were routed and `given` what the
process was handed; `excuse` records why the code deliberately (or, as a
counterexample below shows, not so deliberately) leaves a non-empty queue to the user's next
send: a stop, an exit, a failed start, a host restart, a flush that put its
batch back too late (`late`), or a turn end or start that left the queue to a
flagged respawn nobody carries out (`deferred`). A send or a hand-off clears
it. These three are read only by properties.

Abstracted: texts and attachments; checkpoints beyond the time they take;
telemetry and events to clients. Left out: the native terminal view and
`switch_view`, retries of turns the provider rejected (`observe_login`,
`observe_limit`), project deletion, sandbox moves, restore and discard. A start
in an archived agent fails, since its directory is gone. Generations are taken
at their word: an exit of an earlier process has no effect.

### Delegation

`table` is the table of live delegations, a record per checkout with the fields
the code has (`id`, `kind`, `sawRunning`, `sawGitOp`, `queued`); `review` the
checkouts a review claimed. Three parties work on it:

```
call of delegate_git:  DelegateReadsStatus -> DelegateRecords -> DelegateSends
driver:  DriverHears (an event) or DriverWakes (the tick), then the pass
         PassSnapshots -> PassReadsStatus -> PassPlans
         -> PassFinishes | PassMarks | PassTakes -> PassDelivers ... -> PassEnds
agent:   turns start, run a git operation, end; the agent goes
```

`delegation_step` is `DelegationStep`, with the clock of the grace period as a
nondeterministic `late`. The nine kinds fall into those whose target is observed
and those that settle on idle; one of each is kept. `sent`, `begun`, `parked` and
`behind` are read only by properties.

### Readiness and Autopilot

`Readiness` is `readiness.rs` as operators on a reading: what blocks it
(`DetectBlockers`) and the rung to propose (`NextRung`). A reading that was not
made is `Unread`, never "nothing wrong".

`Autopilot` runs `run_pass` in the steps its awaits cut it into: it reads the
generation, then the switches, then, for each checkout in turn, enrolls, reads
git, the pull request and the threads, decides (`AutopilotStep`, the whole
`autopilot_step` with both brakes) and applies the effect; a verification is a
job of its own that lands later. `autopilot_set` writes, bumps the generation and
removes in three steps. The environment moves `world` among a small set of
readings, starts turns, claims checkouts for reviews, and moves delegations
along. `streak` and `dead` are what the brakes promise, counted independently of
the code's own counters.

### ReviewLoop

`t` is the `Tracked` record of the checkout, field by field; `saved` its row,
written whenever the memory is settled. A state of the code is a
cheap signature and a digest: a read may carry the digest, have skipped it, or
have failed to take it, and `Identity` compares reads as the engine does. A start
is claimed, looks, begins its round, ensures a reviewer and sends; the driver
takes one status event or one tick at a time; a report and a client's look read
the code in one step and record it in another. What may go wrong is chosen by
`Troubles`: a failing read, spawn or send (`fault`), a client's look beside
everything else (`look`), a lagging stream (`lag`), a stop, the coder going, a
restart, a box that a poll finds asleep (`asleep`) and does not read.

A stop is three steps, as the code has an await between its read and its write:
`UserStops` reads whether a turn is in flight or a start queued, `StopInterrupts`
interrupts the reviewer it read, and `StopClears` ends whatever round the checkout
has by then. `autos` counts the automatic rounds a pull request has had and `tried`
the code of the last one, apart from the code's own `pr_rounds` and `failure`.

Assumed: a reviewer is set up and the setting is on; no move between sandboxes
holds the checkout; a look reads status and digest together; `update` and the
refresh after it are one step; a start the tick spawns runs before the next tick;
the wall clock is longer than a spawn and a send. Threads and notes are left out,
so the phase `reviewed` stands for both findings and clean.

### Roadmap

`item` is the table of items, `run` the workflow runs launched for them with
their pull requests. The drainer's tick settles what ended, claims (`PickNext`),
awaits the launch, and stamps the run on the item; each is a hold of the database
of its own, and the host may restart between any two. The sweep takes its watch
list, awaits one answer after another, and writes each verdict only where the
item is still in review. The users' commands carry the expected status the
clients send (`useRoadmap.ts`), which is what makes the drainer's unconditional
settlements safe.

Abstracted: `canceled` runs settle as `failed` ones; the five unanswered polls
after which the sweep gives up are a choice; ranks are an order. Left out:
captured rows and triage, the product manager's proposals other than those on
dependencies and discards, the trail of events and wording. The drainer's own
wake-ups are left out, since its timer alone must do.

## 3. Runs

| Run | Instance | Shows |
|---|---|---|
| `run_safety` | 2 steps, both gates, finalize by PR, 2 faults | the type invariant, 6 safety invariants, refinement of `RunContract`; 2.6 million states |
| `run_liveness` | 2 steps, verdict gate, finalize none or PR, 1 fault, `FairSpec` | `RunEnds`: a launched run ends; `DoneMeansEveryStep`: done means gated, committed, published and recorded, with or without a pull request |
| `cleanup_safety` | 3 interchangeable runs, 3 faults | no survivor without its directory, no data gone before its row, no orphan that startup would not find |
| `delivery_safety` | 3 messages with 1 fault and 2 messages with 2, both injection modes | nothing lost, reordered, or sent twice in one life of the host, nor stranded but for a reason of `excuse`; no endless Running; no turn row waits for ever; the sweep drops nothing; 3.3 million states |
| `delivery_liveness` | 2 messages, both modes, 1 fault, `FairSpec` | every send returns; queued messages move if turns end |
| `delegation_safety` | 2 checkouts, 2 calls, 2 turns of the user | a trigger goes out once, after the turn it was held behind, and apart from other held ones; 2.6 million states |
| `delegation_liveness` | 1 checkout, 2 calls, a review, a turn of the user, 1 fault, `FairSpec` | every delegation ends; a pass ends only what it looked at; 0.5 million states |
| `autopilot_safety` | 2 checkouts, 2 moves of the world, 1 event | both brakes; judgments on own and fresh evidence; 1.4 million states |
| `autopilot_liveness` | 1 checkout, 1 move, 1 event, `FairSpec` | the loop comes to rest; what is off is forgotten |
| `review_safety` | 3 codes of which two differ by digest alone, 2 starts at once, 2 rounds, a client's look or a restart | one round, no round beside a delegation, one automatic review per code; 2.1 million states |
| `review_liveness` | 2 codes, 2 starts at once; fault, lag, stop, archive or a sleeping box; the wall clock; `FairSpec` | every round ends, a queued start runs, the phase settles on the truth, no automatic round beyond the budget; 122 thousand states |
| `roadmap_queue` | 2 items on 5 boards, cap 1, 3 runs, 1 event, `FairSpec` | runs are watched and within the cap, done has landed and stays, active and merged items and the queue move on, no loop of dependencies; 108 thousand states (the invariants were also explored with 2 events, 1.8 million) |

Every state machine has a `TypeOK`. That of `WorkflowRun` is checked and proved; the
others say what the variables hold and were checked on the same instances when
the modules were written, but are no part of the runs. Those of `MessageDelivery`,
`Autopilot` and `ReviewLoop` are proved (`DeliveryTyped`, `AutopilotTyped`,
`MemoryTyped`).

*Counterexamples kept beside the runs.* Each of these configurations states what
a comment of the code says and ends in a behaviour of the code that differs. They
are reproductions and no part of the runs above.

| Configuration (module) | Property | What happens, and the line it contradicts |
|---|---|---|
| `WorkflowRun_cancel_ignored` (`MCWorkflowRun`) | `CancelIsHonored` | a cancel flagged after the last turn ended is not read again: the run publishes and ends `done` (`workflow/service.rs:204`) |
| `WorkflowRun_status_overwritten` (`MCWorkflowRun`) | `TerminalIsFinal` | without a driver `cancel` writes `canceled` over `done` or `failed` (`workflow/types.rs:57`) |
| `WorkflowRun_two_outcomes` (`MCWorkflowRun`) | `SingleOutcome` | the host exits between the `run_done` event and the status: the row is still `running`, the next start refuses the run and journals `run_failed` over finished work (`runner/mod.rs:295-303`; `journal.rs:153` calls the two a pair) |
| `WorkflowRun_turn_never_ran` (`MCWorkflowRun`) | `TurnEndedMeansItRan` | any Idle is taken for the end of the prompt's turn, also the late ready Idle or that of a failed hand-off (`runner/mod.rs:310`) |
| `MessageDelivery_respawn_gone` (`MCMessageDelivery`) | `RespawnOwnsFlush` | a deferred respawn finds the process gone and neither restarts nor flushes (`messaging.rs:718`) |
| `MessageDelivery_respawn_race` (`MCMessageDelivery`) | `RespawnIsComing` | one respawn is asked for during an ordinary turn and finds the agent busy; the turn ends and looks for a flag, then the flag is inserted, then the turn end's queue drain sees it and returns: the follow-ups stay, and nobody is on the way (`lifecycle.rs:2031-2033`, `messaging.rs:732`, against `messaging.rs:718-723`: the respawn "owns the flush") |
| `MessageDelivery_archived_process` (`MCMessageDelivery`) | `ArchivedHasNoProcess` | a waiting revive starts a process in an agent being archived (`messaging.rs:49`) |
| `MessageDelivery_stale_respawn` (`MCMessageDelivery`) | `SpawnDrains` | a respawn flagged too late, or deferred to the end of a turn that then dies with its process, is still flagged at the next start; the drain of that start leaves the queue to it and returns, and nobody carries it out (`lifecycle.rs:1310-1317`: without this drain "a queued first message sits undelivered until the *next* message flushes it"; `messaging.rs:732` returns early) |
| `MessageDelivery_late_boundary` (`MCMessageDelivery`) | `HeldForBoundary` | a refused flush requeues after the boundary it waits for (`messaging.rs:550`) |
| `Autopilot_settled` (`MCAutopilot`) | `SettledOnEvidence` | the pull request cannot be read while a cycle awaits its evidence: the cycle settles as a success and its budget is returned (`readiness.rs:81`, "`None` is "not read" — never "nothing wrong"") |
| `Delegation_saw_own` (`Delegation`) | `SawOwnTurn` | a Running of another turn marks a delegation that is recorded and not yet delivered ("the delegated turn has been seen running") |
| `ReviewLoop_unknown` (`MCReviewLoop`) | `UnknownCannotArise` | a read without its digest is compared with the reviewed code and tells nothing (`engine.rs:454`) |
| `ReviewLoop_stopped` (`MCReviewLoop`) | `AutoOncePerCode` | a stopped automatic round leaves no trace, and the gate reviews the same code again (`engine.rs:21`) |
| `ReviewLoop_unread` (`MCReviewLoop`) | `AutoOncePerCode` | after a round has reported, the driver's look fails and the gate goes on with the read before it, which had skipped its digest; compared with the code reviewed since it tells nothing, and nothing counts as changed (`engine.rs:549`): the same code is reviewed again |
| `ReviewLoop_asleep` (`MCReviewLoop`) | `AutoOncePerCode` | a look recorded out of order leaves a read without its digest, the tick finds the box asleep and the gate decides on that read: the code just reviewed counts as changed (`engine.rs:541`, "Identity is never decided on the cheap half alone") |
| `ReviewLoop_late_report` (`MCReviewLoop`) | `ReportIsOfItsRound` | a stopped turn is interrupted and not awaited; it reports when the next round is in flight, and what it read is recorded as that round's code (`engine.rs:1766`; `submit`: "The code the reviewer read was recorded when the round began") |
| `ReviewLoop_budget` (`MCReviewLoop`) | `AutoWithinBudget` | a stop clears a round whose start still delivers; that start then fails and ends the claim of the next one, so the gate allows another: two automatic rounds begin on the last of the budget (`engine.rs:53`, after one stop and two failures) |

Smaller divergences met on the way, for which no run is kept: `cancel` without a
driver ends a run with no journal event (`service.rs:214`, against
`journal.rs:150`); `fail_step` only interrupts, so the idle process of a failed
step stays (`runner/mod.rs:522`); a send that relaunches on a fresh login holds
the delivery lock across a spawn (`messaging.rs:67`, against
`supervisor/mod.rs:140`); a failed revive leaves Spawning, not Error, and a
refused one leaves the status alone (`lifecycle.rs:1667-1671`, against `messaging.rs:261`); a resume writes Spawning over
the Running of a turn that is about to be handed over (`lifecycle.rs:1668`,
against the comment at 1291); and queued messages are not memory-only
(`message_queue.rs:28`, `supervisor/mod.rs:150`) since `persist_and_enqueue`
mirrors them.

In the newer parts: after autopilot is switched off and on, a verification of the
old enrollment may land on a new cycle of the same rung and attempt
(`driver.rs:433`). A git trigger may join a turn that began after the status was
read (`delegation.rs:793`). A review that was stopped or timed out is interrupted
asynchronously, so its late report can be credited to the next round
(`ReviewLoop_late_report`); a stop
during the delivery of a round, followed by a new start, lets the old failure
clear the new claim; a lag or restart during the delivery fails the round; an
exit between claim and begin records its failure on the code of the round before.
The hold on a merge is checked before the merge is awaited and not after
(`roadmap/commands.rs:156`, against `merge_sweep.rs:22`). After an exit between
launch and stamp only a run that still lives is adopted: one that ended first is
orphaned and its item released as never started (`workflow/service.rs:81`). An
item handed to an agent and then queued is not dispatched and cannot be reclaimed
while it is queued; a picked item without a usable workflow holds up all behind
it.

*Bounds.* Two steps are the least with a first and a last step, a commit before
a later attempt, and two agents alive at once. Two faults give a crash during
the recovery from a crash, a panic after a misleading event, and so on. Spawn
counts need no bound: no step spawns twice. Deadlock checking is off because a
deleted run, or an ended one nobody deletes, has nothing left to do; nor has an
agent to which every message was delivered.

For message delivery, two messages are the least with a delivery in hand and a
follow-up behind it; a third is needed to have two of them coalesced while a
turn runs, and only a provider without live injection coalesces in the normal
course, so that instance has that mode alone. A fault is one of: an exit, a
crashed turn, a hand-off or start that fails, a start timed out, attachments that
cannot be adopted, a turn the provider opens itself, a resume or respawn somebody
asks for, a revive refused for want of a session, a restart of the host. Two of them give, for instance, a respawn of an
agent whose process has just died, or a restart after a failed delivery. Messages
are interchangeable, so the safety instances use symmetry; the liveness instance
does not.

For the other modules: two checkouts are the least for two rungs in one pass and
two delegations held behind one turn; two calls for a delegation that replaces
another during a pass. Two moves of the world make a rung reappear with a changed
and with an unchanged situation: with two of them the two attempts of
`update-branch` are spent on two heads, and a third head calls for a third. Three codes, two of which only a digest tells apart, are the least on
which the three kinds of read differ; two starts at once race for the claim. Two
items are the least with a dependency, a queue behind a full cap and a loop; three
runs allow one of them to be run again. The single event of the roadmap is any
command, a failed launch or a restart, at any point. Where a bound on acts is
reached, or nothing is left to watch, a system stops; deadlock checking is off for
that reason.

*Fairness.* The kernel and its watchdog are tasks of the runtime and are polled
when ready; `StepErr` is part of the kernel because the deadline around
`drive_step` is a timer that fires. A command once accepted runs to its end. A
spawn resolves because `arm_spawn_watchdog` resolves it. A turn that was told to
stop ends; a turn nobody stopped may go on for ever. The host is started again.
No fairness is assumed of faults, of launching, cancelling or deleting, or of an
agent finishing its work.

For message delivery, a task that can go on is polled, and tokio's mutexes are
first come first served, so each waiting sender gets the delivery lock
(`WF` of its `Acquire`: the lock is held for a bounded stretch of code and the
model is finite, so weak fairness per sender is enough). A start comes to its end
or fails, and a status left at Spawning is ended by the watchdog's timer. That
turns end is not assumed: `HeldMoves` has it as an antecedent. Nothing is assumed
of users, of exits or of the archive.

For the background drivers (delegations, autopilot, reviews, roadmap) each is a
loop on a timer that the runtime polls, so it keeps taking its next step, and the
clock passes every grace period and timeout: strong fairness of the pass that
finds it passed, since passes come and go before. A call or command once begun
returns. In `Delegation`, `Autopilot` and `ReviewLoop` the turns of the coder end;
of the reviewer nothing is assumed, the wall clock stands in. The review driver's
`select!` prefers neither events nor ticks, hence strong fairness of both. In
`Roadmap` a run ends, which is what `RunEnds` of `WorkflowRun` shows, and polls of
a pull request are answered or given up on at last. Nothing is assumed of users,
of restarts or of pull requests being merged.

*Limits of some properties.* `OneOutcome` allows one more outcome for each crash or
panic between an outcome and its status, which is what the code does
(`WorkflowRun_two_outcomes`). `EndedRunsAreClosed` excludes behaviours with a
panic: the watchdog then fails the run row and touches neither attempt nor agent.
Its second half and `OneAgentWorks` exclude glitches: a provider that opens a turn
of its own, or an Idle that is not the turn's end, leaves an agent working that
the kernel believes finished, as `WorkflowRun_turn_never_ran` shows.
`QueueHasOwner` and `HeldMoves` stop at the reasons of
`excuse`; `late` and `deferred` among them are defects, which
`MessageDelivery_late_boundary`, `MessageDelivery_respawn_race` and
`MessageDelivery_stale_respawn` show to be reachable, and with them excused the two
say that there is no other way to strand a message. (`deferred` takes no more than
one respawn, asked for while an ordinary turn runs.) A revive refused by
`launch_session` counts as a failed start: the message stays queued under an
unchanged status.
`InOrder` and `RowsSettled` speak of one life of the host: mirror rows are deleted
after the hand-off, so a crash in between sends the batch again. `AtMostOnce`
counts: a message is given at most once more for each restart.
A send that was waiting when an archive began and is woken after it finished is
in the model (the reservation is gone by then), but no property is about it.

The verdicts of `JudgedOnOwnEvidence` stop at the first switch write, for the reason given above.
`HeldRunApart` excuses a trigger that the agent could not take at once.
`review_safety` excludes stops, lags, the wall clock, sleeping boxes and failing
reads, spawns and sends, under which the divergences above are real;
`review_liveness` includes them. `AutoWithinBudget` is checked there with one
trouble: it takes a stop and two failures to go beyond (`ReviewLoop_budget`). That a
late report may be taken for another round's is not a property of any run, since
the code does not keep it where it can happen at all.
The theorems need less (section 4). That a
review and a delegation never share a checkout is checked from the review's side,
in `OneRound`.
`AutoOncePerCode` forgets a code once a read has shown another. `QueuedMoves`
excuses the item that cannot be dispatched or stands behind one without a
workflow, `StagesEnd` one the sweep gave up on, `DoneStands` what a user marked
done.

## 4. Proofs

Every theorem holds for all values of the constants under the named assumptions
of its module (those of `ReviewLoopProofs` name one more, on what may go wrong): at least one step, message or checkout as the case may be, options
among those the code has, natural numbers for the bounds on faults and calls. A
bound that makes TLC's instance finite is an arbitrary number in the proofs. Each
proof follows one pattern: an invariant stronger than the properties, that it
holds initially, that every action keeps it, and that it implies them; TLC checked
each invariant on the instance of the run before it was proved.

| Module | Theorems (properties) |
|---|---|
| `WorkflowRunProofs` | `TypeCorrect` (`TypeOK`), `DriverAlways` (`ActiveHasDriver`), `NoRerun` (`NothingIsRerun`), `DeleteIsSafe` (`NoDeleteUnderDriver`), `Refinement` (`ImplementsContract`), `OutcomeIsOne` (`OneOutcome`), `DoneIsEarned` (`DoneMeansEveryStep`), `EndLeavesNothingOpen` (`EndedRunsAreClosed`), `TreeHasOneWorker` (`OneAgentWorks`) |
| `RunCleanupProofs` | `SurvivorsOpen` (`SurvivorIsOpenable`), `NoDataLoss` (`DataOutlivesRow`), `OrphansFound` (`OrphansAreStaged`) |
| `MessageDeliveryProofs` | `RunningAlwaysEnds` (`RunningEnds`), `NothingIsEverLost` (`NothingIsLost`), `RowsAlwaysSettled` (`RowsSettled`), `QueueAlwaysHasOwner` (`QueueHasOwner`), `DeliveryTyped` |
| `DeliveryOrderProofs` | `GivenAtMostOnce` (`AtMostOnce`), `GivenInOrder` (`InOrder`) |
| `DelegationProofs` | `TriggerSentOnce` (`SentOnce`), `HeldTriggersApart` (`HeldRunApart`), `RecordedSurvivesPass` (`NewSurvivesPass`) |
| `AutopilotProofs` | `BudgetIsKept` (`BudgetHolds`), `BarrenIsRefused` (`BarrenStaysRefused`), `OwnEvidence` (`JudgedOnOwnEvidence`), `AutopilotTyped` |
| `ReviewLoopProofs` | `OneRoundAtATime` (`OneRound`), `WithinBudget` (`AutoWithinBudget`), `AutoOnce` (`AutoOncePerCode`), `MemoryTyped` |
| `RoadmapProofs` | `LiveRunsAreWatched` (`LiveRunIsWatched`), `CapIsKept` (`CapHolds`), `DoneIsFinal` (`DoneStands`), `NeverALoop` (no edits close a loop of dependencies) |

*Workflow runs.* None of the properties is inductive alone. `IInv` adds to the
types `DriverInv`, who drives: the registry entry and the kernel's position stand
and fall together; nothing runs on a host that is down; a launch holds the
lifecycle mutex only while its row is undriven and `pending` (or already `canceled`
by a racing cancel); a delete that passed the winding-down guard excludes a driver,
and none can appear because only launch and startup register one. And
`ProgressInv`, how far: commits are those of the steps before `cur`; a step at or
after `cur` was not spawned, or is the one in hand; a `pending` row has no spawns,
so restarting it repeats nothing; the branch is published only past the last step.

`EndInv` joins to it how many outcomes the timeline may hold: while a driver is at
work, or the row is still `pending` or `running`, no more than there were ends torn
between event and status, and afterwards one more, the last of which is the row's
(a racing cancel may overwrite the status but journals nothing); that a run which goes on has only
passed steps behind it and unbegun ones ahead, and is pinned and published before
it is finished; and, as long as no agent had a glitch, that the only turn running
is that of the step in hand, while the kernel waits for it or stops it.

*Run deletion.* A staged directory of a run with a row is always somebody's
responsibility (the delete in progress, a rename back that failed or was not come to, a host that is
down, or startup's list), and a batch has all its rows until the commit and none
of them in the sweep.

*Message delivery.* The invariant of `MessageDeliveryProofs` has six parts beside
the types. `LockInv`, `HandInv` and `LifeInv` say who holds the two locks and what
is in hand: while a batch is being delivered the queue is empty, since only the
holder of the delivery lock adds to it. `RunningInv` ties Running to a turn or a
hand-off, and knows what a failed hand-off would put back. `KeptInv` follows a
message from the queue into the hand and back. `RowsInv` names the ids under which
turn rows may wait. `StatusInv`, `ReviveInv` and `LooksInv` together give
`QueueHasOwner`: without a process a start or a revive is under way, and beside a
live process at rest something will look at the queue. All three have to speak of
the status as it will be once a hand-off under way has failed (`Reverted`), for the
Running it raised says nothing yet. The attempt to prove `LooksInv` first failed
at the drain of a start: a respawn deferred to the end of a turn that died is
still flagged then, the drain leaves the queue to it, and no task carries it out
(`MessageDelivery_stale_respawn`); `deferred` among the excuses stands for it, and
for the flag that is inserted between the two drains of a turn end.

`DeliveryOrderProofs` reduces every step to one of nine moves of messages (a send
joins the order, is taken in hand, injected, placed; the queue is drained; the hand
is given or put back; messages are dropped; the host reloads the queue). Its
invariant: mirror, queue and hand each follow the order of the routing, hence hold
nothing twice; the message whose send has the lock is the last of that order and
nowhere else until it is placed; what is still to be handed over was given once
less than the host has lived, so that a hand-over keeps the bound and a restart,
which reloads the mirror, raises it. At turn boundaries and in one life of the
host, what was given comes before all that is still ahead.

*Delegations.* Who may still hand a trigger over: a call that has not recorded its
delegation is named nowhere; a held trigger is unsent and its call has returned;
the one a pass took is no longer held. And what a pass knows of the running turn:
once it has read that the agent is idle, none of the delegations it looked at is
behind a turn, so the one it dequeues runs alone.

*Autopilot.* What a pass sampled of a record is still so when it acts on it unless
a switch made the driver forget the checkout. `RungOf` shows that a set of
situation facts calls for one rung only, so all cycles of a situation draw on one
budget and the count of tries cannot exceed it. For the evidence: a verdict that
counts comes from a verification of the cycle in hand as long as no switch was
written, and a cycle that was sampled is never between phases.

*Reviews.* `TypeInv` holds whatever goes wrong and gives `MemoryTyped`: what
matters in it is that a round never begins on a read that skipped its digest, and
that a flight says or reports nothing before its reviewer is named. `RoundInv` is
what `OneRound` lacks to be inductive. A claim belongs to a start that is about to
begin, and a flight to the start that opened it until the prompt is out; before
that the reviewer has no turn and nothing said of it is waiting in the event
stream (`Unsent`), afterwards its Running and its end are heard in this order, with
only events of the coder around them
(`Sent`). So an Idle left over from the turn before cannot end a round. This needs that a round ends only with its turn:
`Undisturbed` excludes a stop, a lagging stream and the wall clock, each of which
closes a flight over a turn that goes on. Failing reads, spawns and sends, restarts, looks of
clients and the archive of the coder are allowed.

`AttemptInv` is about what the automatic review remembers of the code it tried:
the code is that of the last round, in memory and in the row, and once the flight
is closed it is what was reviewed or what failed; while a start is allowed and no
round has come of it, nothing is tried. The row has to be spoken of apart, since a
restart puts it in place of the memory. And what the driver holds between its
cheap read and the gate tells the code from what was reviewed, unless a report
has come in since; the flight is still open then, and the gate refuses. `AutoOnce`
excludes failing reads and sleeping boxes too: the proof would not go through where
the driver goes on to the gate after a look that failed or was not taken, and
`ReviewLoop_unread` and `ReviewLoop_asleep` are what TLC then found.

`BudgetInv` treats an allowed start as a ticket, in hand, queued in the memory or
only in its row. There is never more than one, the pull request is open and a round
is left while there is one, and memory and row both charge the request with what it
has had. A start that begins spends the ticket as it is charged. That the gate
issues no second one rests on `RoundInv`: where it sees no claim, no start holds one.
After a stop that fails, as the end of the stopped round's start takes another's
claim with it.

*Roadmap.* What the drainer decided, and what the sweep read, stays true until it
is written: nobody else takes an active row elsewhere but off the board, nor a row
out of review but to done. The two loops of the code over the board are
functions chosen by their equations here (`Settle` one step at a time,
`FindCycle` from the edited row); that the search from the edited row alone finds
every loop the edit could close is `NeverALoop`'s main lemma.

*Data.* The library's induction theorems need a predicate as a parameter, which
the provers cannot instantiate. An induction over a set can be had instead from the
well-foundedness of `<` (`Least`, `UpTo` in `MessageDeliveryProofs`): that is how
what `Coalesce` does to any queue is proved, which `NothingIsLost`, `AtMostOnce`
and `InOrder` rest on.

*Only model-checked.* Every liveness property (liveness under fairness is outside
the prover): `RunEnds`, `SendAnswered`, `HeldMoves`, `Quiesces`, `OffIsForgotten`,
`EveryDelegationEnds`, `RoundsEnd`, `SettlesOnTruth`, `StagesEnd`, `QueuedMoves`.
Every invariant and the remaining action properties of the runs are proved.

## 5. Not modelled

Workflow definitions and YAML import (sequential, snapshotted into the run
before it starts); operating-system I/O of sandboxes, boxes and PTYs; transport
encryption and the relay; capture, code graph and usage scans (batch jobs); the
user interface. Checkpoints, session sync, sandbox moves and account switches are
left to the plan. Of the review engine, threads and notes; of the roadmap,
captured rows, triage and the product manager. `PROJECT.json` gives the reason
for each.

Most of the repository's lines are of these kinds: sandbox profiles and guest
provisioning, clients of git and GitHub, the desktop and mobile front ends. The
models follow the engine's own control logic, and cover it where several tasks
share state.

## 6. Plan

1. Message delivery: an abstract mailbox (accepted, held, given, dropped) that
   `MessageDelivery` implements; the nine moves of `DeliveryOrderProofs` are its
   actions already.
2. Agent lifecycle (`supervisor/lifecycle.rs`): generations against stale exits,
   a spawn watchdog that outlives its start, fresh spawns and their provisioning,
   restore; `MessageDelivery` takes from it what this module would establish.
3. Retries of rejected turns and account switches (`login_refresh.rs`,
   `account_switch/`); checkpoints, rewind and fork; session sync.
