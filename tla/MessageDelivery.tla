-------------------------- MODULE MessageDelivery --------------------------
(***************************************************************************)
(* How user messages reach one agent: the routing of a send, the follow-up *)
(* queue with its durable mirror and the flush that empties it             *)
(* (supervisor/messaging.rs, message_queue.rs), the start and end of turns *)
(* and of the agent's process (supervisor/lifecycle.rs, login_refresh.rs), *)
(* the exclusion between archive and input (supervisor/disposition.rs),    *)
(* and restarts of the host.                                               *)
(*                                                                         *)
(* Agents share nothing here but the lifecycle lock, so one agent in the   *)
(* structured (non-PTY) view is modelled.  A message stands for its        *)
(* turn_id, text and attachments; a batch is the sequence of messages      *)
(* coalesced into one prompt, and its turn_id is that of its last member.  *)
(*                                                                         *)
(* Callbacks and tasks run on several threads: a step is what happens      *)
(* under one hold of one lock, or between two points where the code reads  *)
(* state that another thread may change.                                   *)
(***************************************************************************)
EXTENDS Naturals, Sequences, SequencesExt

CONSTANTS
    Msgs,       \* the messages users send, each once
    Modes,      \* injection modes the agent's provider may have
    MaxFaults   \* bound: disturbances in a behaviour, of all kinds together

ASSUME DeliveryAssumption ==
    /\ Msgs # {}
    /\ Modes \subseteq {"Live", "AtTurnBoundary"} /\ Modes # {}
    /\ MaxFaults \in Nat
    /\ {"nobody", "flush"} \cap Msgs = {}

VARIABLES
    mode,           \* the provider's injection mode
    \* --- the agent
    status,         \* its entry in the live status map, or that it has none
    proc,           \* its process; "broken" is dead but not yet reaped
    working,        \* the process has a turn in progress
    interrupted,    \* the user stopped the current turn
    respawnPending, \* a restart was put off to the end of the turn
    ending,         \* what the turn-end transition has yet to do
    \* --- messages
    queue,          \* the in-memory queue, of batches
    mirror,         \* pending_messages rows in seq order
    rows,           \* session_user_turns row of each message
    \* --- the holder of the delivery lock
    lock,           \* nobody, the message being sent, or a flush task
    at,             \* where the holder is
    hand,           \* the batch it is delivering
    direct,         \* whether that is the sent message itself (DeliverNow)
    resting,        \* the status revert_turn_start would go back to
    \* --- the holder of the lifecycle lock
    life,           \* nobody, or who (re)starts the process
    phase,          \* how far the start is
    \* --- tasks and callers
    sender,         \* what each send call has come to
    flushers,       \* flush tasks waiting for the delivery lock
    revives,        \* revive tasks waiting for the lifecycle lock
    respawns,       \* respawn tasks waiting for the lifecycle lock
    arch,           \* the archive of the agent
    \* --- bookkeeping for the properties
    faults,         \* disturbances so far
    restarts,       \* host restarts among them
    given,          \* messages handed to the process, in order
    accepted,       \* messages in the order their sends were routed
    excuse          \* why the queue is left for the user's next send, if it is

agentVars == <<status, proc, working, interrupted, respawnPending, ending>>
storeVars == <<queue, mirror, rows>>
lockVars  == <<lock, at, hand, direct, resting>>
lifeVars  == <<life, phase>>
taskVars  == <<flushers, revives, respawns>>
bookVars  == <<faults, restarts, given, accepted, excuse>>
vars == <<mode, agentVars, storeVars, lockVars, lifeVars, taskVars, sender,
          arch, bookVars>>

----------------------------------------------------------------------------
(* Types and initial state                                                 *)

AgentStatus == {"none", "spawning", "running", "idle", "error"}
RowState    == {"none", "pending", "open", "closed", "failed"}
SendState   == {"new", "waiting", "routing", "sent", "held", "refused",
                "failed", "lost"}
Batch       == Seq(Msgs)
Steps       == {"free", "login", "loginWait", "relaunch", "route", "inject",
                "hold", "recheck", "enqueue", "flush", "checkpoint", "start",
                "handoff", "failed", "clear", "report"}
Excuses     == {"none", "stop", "exit", "failed", "late", "deferred", "restart"}

\* Variables range over these sets.
TypeOK ==
    /\ mode \in Modes
    /\ status \in AgentStatus
    /\ proc \in {"none", "alive", "broken"}
    /\ working \in BOOLEAN /\ interrupted \in BOOLEAN
    /\ respawnPending \in BOOLEAN
    /\ ending \in {"no", "respawn", "queue"}
    /\ queue \in Seq(Batch) /\ mirror \in Seq(Msgs)
    /\ rows \in [Msgs -> RowState]
    /\ lock \in Msgs \cup {"nobody", "flush"}
    /\ at \in Steps /\ hand \in Batch /\ direct \in BOOLEAN
    /\ resting \in AgentStatus
    /\ life \in {"nobody", "resume", "revive", "respawn", "login"}
    /\ phase \in {"free", "defer", "forget", "unflag", "taken", "launch",
                  "claim", "drain", "done"}
    /\ sender \in [Msgs -> SendState]
    /\ flushers \in Nat /\ revives \in Nat /\ respawns \in Nat
    /\ arch \in {"open", "begun", "swept", "detached", "archived"}
    /\ faults \in 0..MaxFaults /\ restarts \in 0..MaxFaults
    /\ given \in Seq(Msgs) /\ accepted \in Seq(Msgs)
    /\ excuse \in Excuses

\* A resting agent as the host finds it at startup: no process, no live
\* status, nothing queued.
Init ==
    /\ mode \in Modes
    /\ status = "none" /\ proc = "none" /\ working = FALSE
    /\ interrupted = FALSE /\ respawnPending = FALSE /\ ending = "no"
    /\ queue = <<>> /\ mirror = <<>> /\ rows = [m \in Msgs |-> "none"]
    /\ lock = "nobody" /\ at = "free" /\ hand = <<>> /\ direct = FALSE
    /\ resting = "none"
    /\ life = "nobody" /\ phase = "free"
    /\ sender = [m \in Msgs |-> "new"]
    /\ flushers = 0 /\ revives = 0 /\ respawns = 0
    /\ arch = "open"
    /\ faults = 0 /\ restarts = 0 /\ given = <<>> /\ accepted = <<>>
    /\ excuse = "none"

----------------------------------------------------------------------------
(* Helpers                                                                 *)

\* is_busy, on a status
Busy(s) == s \in {"spawning", "running"}

\* The turn_id a batch goes by.
Id(b) == b[Len(b)]

\* MessageQueue::turn_ids
TurnIds(q) == {Id(q[i]) : i \in DOMAIN q}

\* coalesce: the queued messages as one batch, in send order.
Coalesce(q) == FlattenSeq(q)

\* insert_user_turn: INSERT OR IGNORE.
InsertTurn(r, m) == [r EXCEPT ![m] = IF @ = "none" THEN "pending" ELSE @]

\* delete_pending_user_turns: only rows that never started and have no outcome.
WithdrawTurns(r, ids) ==
    [m \in Msgs |-> IF m \in ids /\ r[m] = "pending" THEN "none" ELSE r[m]]

\* mark_user_turn_started, unmark_user_turn_started, on the rows
StampStart(r, m)   == [r EXCEPT ![m] = IF @ = "pending" THEN "open" ELSE @]
UnstampStart(r, m) == [r EXCEPT ![m] = IF @ = "open" THEN "pending" ELSE @]

\* mark_user_turn_ended: every open turn of the session closes.
CloseTurns(r) == [m \in Msgs |-> IF r[m] = "open" THEN "closed" ELSE r[m]]

\* set_status: the live status and, for Idle and Error, the open turn's end.
SetStatus(s) ==
    /\ status' = s
    /\ rows' = IF s \in {"idle", "error"} THEN CloseTurns(rows) ELSE rows

\* A disturbance, within the bound.
Disturb == faults < MaxFaults /\ faults' = faults + 1

\* The holder leaves the delivery lock; a send call returns with `result`.
Release(result) ==
    /\ lock' = "nobody" /\ at' = "free" /\ hand' = <<>> /\ direct' = FALSE
    /\ resting' = "none"
    /\ sender' = IF lock \in Msgs THEN [sender EXCEPT ![lock] = result]
                                  ELSE sender

Goto(a) ==
    /\ at' = a
    /\ UNCHANGED <<lock, hand, direct, resting, sender>>

\* Mutant: the follow-up is queued in memory only.
EnqueueInMemory(m) ==
    /\ queue' = Append(queue, <<m>>)
    /\ UNCHANGED mirror

\* persist_and_enqueue: queue entry and mirror row under one hold of the
\* queue lock.
PersistAndEnqueue(m) ==
    /\ queue' = Append(queue, <<m>>)
    /\ mirror' = Append(mirror, m)

----------------------------------------------------------------------------
(* send_user_message                                                       *)

\* The existence check, then the wait for the delivery lock.
Send(m) ==
    /\ sender[m] = "new"
    /\ sender' = [sender EXCEPT
                    ![m] = IF arch = "open" THEN "waiting" ELSE "refused"]
    /\ UNCHANGED <<mode, agentVars, storeVars, lockVars, lifeVars, taskVars,
                   arch, bookVars>>

\* open_route: refused while an archive holds the agent.
Reserved == arch \in {"begun", "swept", "detached"}

Acquire(m) ==
    /\ sender[m] = "waiting" /\ lock = "nobody"
    /\ IF Reserved
       THEN /\ sender' = [sender EXCEPT ![m] = "refused"]
            /\ UNCHANGED <<lock, at, accepted>>
       ELSE /\ lock' = m /\ at' = "login"
            /\ sender' = [sender EXCEPT ![m] = "routing"]
            /\ accepted' = Append(accepted, m)
    /\ UNCHANGED <<mode, agentVars, storeVars, hand, direct, resting, lifeVars,
                   taskVars, arch, faults, restarts, given, excuse>>

\* relaunch_if_login_due: an idle managed process on a token about to lapse
\* is restarted first, in this task, when a fresher token was fetched.
LoginFine ==
    /\ at = "login" /\ Goto("route")
    /\ UNCHANGED <<mode, agentVars, storeVars, lifeVars, taskVars, arch,
                   bookVars>>

LoginDue ==
    /\ at = "login" /\ mode = "Live" /\ proc # "none" /\ ~Busy(status)
    /\ Goto("loginWait")
    /\ UNCHANGED <<mode, agentVars, storeVars, lifeVars, taskVars, arch,
                   bookVars>>

\* try_relaunch_locked under the lifecycle lock: busy by now, nothing is done.
LoginTake ==
    /\ at = "loginWait" /\ life = "nobody"
    /\ IF proc # "none" /\ Busy(status)
       THEN Goto("route") /\ UNCHANGED <<proc, working, lifeVars>>
       ELSE /\ Goto("relaunch")
            /\ life' = "login" /\ phase' = "taken"
            /\ proc' = "none" /\ working' = FALSE
    /\ UNCHANGED <<mode, status, interrupted, respawnPending, ending,
                   storeVars, taskVars, arch, bookVars>>

\* Mutant: leftovers in the queue are not looked at.
DecideWithoutLeftovers(busy, liveClosed, queued) ==
    IF ~busy THEN "checkpoint"
    ELSE IF mode = "Live" /\ ~liveClosed THEN "inject" ELSE "hold"

\* decide_delivery.  A turn paused on a tool gate, or a follow-up naming a
\* folder that only the pending restart will grant, closes the live path.
Decide(busy, liveClosed, queued) ==
    IF ~busy THEN IF queued THEN "enqueue" ELSE "checkpoint"
    ELSE IF mode = "Live" /\ ~liveClosed THEN "inject" ELSE "hold"

Route ==
    /\ at = "route"
    /\ \E closed \in IF working \/ respawnPending THEN BOOLEAN ELSE {FALSE} :
          LET to == Decide(Busy(status), closed, queue # <<>>) IN
          /\ at' = to
          /\ direct' = (to = "checkpoint")
          /\ hand' = IF to = "checkpoint" THEN <<lock>> ELSE <<>>
    /\ excuse' = "none"
    /\ UNCHANGED <<mode, agentVars, storeVars, lock, resting, lifeVars,
                   taskVars, sender, arch, faults, restarts, given, accepted>>

\* Adopting the attachments failed: the send errs with nothing queued.
RouteFails ==
    /\ at = "route" /\ Disturb /\ Release("failed")
    /\ UNCHANGED <<mode, agentVars, storeVars, lifeVars, taskVars, arch,
                   restarts, given, accepted, excuse>>

\* inject_live: the row first, then the write into the running turn.  A write
\* that fails withdraws the row if it made it, and falls back to the queue.
Inject ==
    /\ at = "inject" /\ proc = "alive"
    /\ rows' = InsertTurn(rows, lock)
    /\ given' = Append(given, lock)
    /\ working' = TRUE /\ excuse' = "none"
    /\ Release("sent")
    /\ UNCHANGED <<mode, status, proc, interrupted, respawnPending, ending,
                   queue, mirror, lifeVars, taskVars, arch, faults, restarts,
                   accepted>>

InjectFails ==
    /\ at = "inject" /\ proc # "alive"
    /\ PersistAndEnqueue(lock)
    /\ Goto("flush")
    /\ UNCHANGED <<mode, agentVars, rows, lifeVars, taskVars, arch, bookVars>>

\* Enqueue, and after it the busy check again: the turn may have ended.
Hold ==
    /\ at = "hold"
    /\ PersistAndEnqueue(lock)
    /\ Goto("recheck")
    /\ UNCHANGED <<mode, agentVars, rows, lifeVars, taskVars, arch, bookVars>>

\* Mutant: an enqueue is not followed by a second busy check.
RecheckSkipped ==
    /\ at = "recheck"
    /\ Goto("report")
    /\ UNCHANGED <<mode, agentVars, storeVars, lifeVars, taskVars, arch,
                   bookVars>>

Recheck ==
    /\ at = "recheck"
    /\ Goto(IF Busy(status) THEN "report" ELSE "flush")
    /\ UNCHANGED <<mode, agentVars, storeVars, lifeVars, taskVars, arch,
                   bookVars>>

\* FlushNow: this message joins the leftovers.
EnqueueAndFlush ==
    /\ at = "enqueue"
    /\ PersistAndEnqueue(lock)
    /\ Goto("flush")
    /\ UNCHANGED <<mode, agentVars, rows, lifeVars, taskVars, arch, bookVars>>

\* needs_revive, and revive_and_flush
NeedsRevive == status # "spawning" /\ proc = "none"

Report ==
    /\ at = "report"
    /\ revives' = IF NeedsRevive THEN revives + 1 ELSE revives
    /\ Release("held")
    /\ UNCHANGED <<mode, agentVars, storeVars, lifeVars, flushers, respawns,
                   arch, bookVars>>

----------------------------------------------------------------------------
(* flush_queued and deliver_as_turn, under the delivery lock               *)

\* Mutant: the batch is taken but its entries stay queued.
DrainKeepsQueue ==
    LET batch == Coalesce(queue) IN
    /\ hand' = batch
    /\ UNCHANGED queue
    /\ rows' = IF Len(queue) > 1
               THEN InsertTurn(WithdrawTurns(rows, TurnIds(queue)), Id(batch))
               ELSE rows

\* Mutant: the members' rows are left in place.
DrainKeepsRows ==
    /\ hand' = Coalesce(queue)
    /\ queue' = <<>>
    /\ UNCHANGED rows

\* drain_coalesced and, for several entries, supersede_member_turns.
DrainCoalesced ==
    LET batch == Coalesce(queue) IN
    /\ hand' = batch
    /\ queue' = <<>>
    /\ rows' = IF Len(queue) > 1
               THEN InsertTurn(WithdrawTurns(rows, TurnIds(queue)), Id(batch))
               ELSE rows

\* The sending task flushes; its route is open already.
SenderFlush ==
    /\ at = "flush"
    /\ IF queue = <<>>
       THEN Release("sent") /\ UNCHANGED <<queue, rows>>
       ELSE /\ DrainCoalesced
            /\ at' = "checkpoint" /\ direct' = FALSE
            /\ UNCHANGED <<lock, resting, sender>>
    /\ UNCHANGED <<mode, agentVars, mirror, lifeVars, taskVars, arch, bookVars>>

\* A flush task gets the lock and opens its route, or is refused one.
TaskFlush ==
    /\ flushers > 0 /\ lock = "nobody"
    /\ flushers' = flushers - 1
    /\ IF Reserved \/ queue = <<>>
       THEN UNCHANGED <<queue, rows, lock, at, hand, direct>>
       ELSE /\ DrainCoalesced
            /\ lock' = "flush" /\ at' = "checkpoint" /\ direct' = FALSE
    /\ UNCHANGED <<mode, agentVars, mirror, resting, lifeVars, revives,
                   respawns, sender, arch, bookVars>>

\* After the checkpoint's git work: never start a turn over a running one.
Checkpointed ==
    /\ at = "checkpoint"
    /\ Goto(IF Busy(status) THEN "failed" ELSE "start")
    /\ UNCHANGED <<mode, agentVars, storeVars, lifeVars, taskVars, arch,
                   bookVars>>

\* The row, the start stamp, the interrupt flag and the Running flip, before
\* the message goes out.  transition_active leaves an Error alone.
StartTurn ==
    /\ at = "start"
    /\ resting' = status
    /\ rows' = StampStart(InsertTurn(rows, Id(hand)), Id(hand))
    /\ interrupted' = FALSE
    /\ status' = IF status = "error" THEN status ELSE "running"
    /\ at' = "handoff"
    /\ UNCHANGED <<mode, proc, working, respawnPending, ending, queue, mirror,
                   lock, hand, direct, lifeVars, taskVars, sender, arch,
                   bookVars>>

\* The process took the prompt.
HandOff ==
    /\ at = "handoff" /\ proc = "alive"
    /\ given' = given \o hand
    /\ working' = TRUE /\ excuse' = "none"
    /\ IF direct THEN Release("sent") ELSE Goto("clear")
    /\ UNCHANGED <<mode, status, proc, interrupted, respawnPending, ending,
                   storeVars, lifeVars, taskVars, arch, faults, restarts,
                   accepted>>

\* Mutant: a failed hand-off leaves the Running it raised.
HandOffFailsStaysRunning ==
    /\ at = "handoff"
    /\ IF proc = "alive" THEN mode = "AtTurnBoundary" /\ Disturb
                         ELSE UNCHANGED faults
    /\ rows' = UnstampStart(rows, Id(hand))
    /\ Goto("failed")
    /\ UNCHANGED <<mode, status, proc, working, interrupted, respawnPending,
                   ending, queue, mirror, lifeVars, taskVars, arch, restarts,
                   given, accepted, excuse>>

\* No process, a broken pipe, or a turn process that could not be started:
\* revert_turn_start.
HandOffFails ==
    /\ at = "handoff"
    /\ IF proc = "alive" THEN mode = "AtTurnBoundary" /\ Disturb
                         ELSE UNCHANGED faults
    /\ rows' = UnstampStart(rows, Id(hand))
    /\ status' = IF status = "running" THEN resting ELSE status
    /\ Goto("failed")
    /\ UNCHANGED <<mode, proc, working, interrupted, respawnPending, ending,
                   queue, mirror, lifeVars, taskVars, arch, restarts, given,
                   accepted, excuse>>

\* A failed direct delivery is queued and flushed; a failed flush goes back to
\* the front of the queue.
Requeue ==
    /\ at = "failed"
    /\ hand' = <<>> /\ direct' = FALSE /\ resting' = "none"
    /\ IF direct
       THEN /\ PersistAndEnqueue(lock)
            /\ at' = "flush" /\ UNCHANGED <<lock, excuse>>
       ELSE /\ queue' = <<hand>> \o queue
            /\ UNCHANGED mirror
            /\ excuse' = IF proc = "alive" /\ ~Busy(status) THEN "late"
                                                             ELSE excuse
            /\ IF lock = "flush" THEN lock' = "nobody" /\ at' = "free"
                                 ELSE at' = "report" /\ UNCHANGED lock
    /\ UNCHANGED <<mode, agentVars, rows, lifeVars, taskVars, sender, arch,
                   faults, restarts, given, accepted>>

\* delete_pending_messages_except: with nothing to keep, all of them.
RowsExcept(seq, keep) ==
    IF keep = {} THEN <<>> ELSE SelectSeq(seq, LAMBDA m : m \in keep)

ClearDelivered ==
    /\ at = "clear"
    /\ mirror' = RowsExcept(mirror, TurnIds(queue))
    /\ Release("sent")
    /\ UNCHANGED <<mode, agentVars, queue, rows, lifeVars, taskVars, arch,
                   bookVars>>

----------------------------------------------------------------------------
(* Turns                                                                   *)

\* A flagged respawn is on its way: the task waits for its lock or has taken
\* the process, or a turn end is about to look at the flag.
RespawnComing == respawns > 0 \/ phase = "unflag" \/ ending = "respawn"

\* drain_message_queue: a pending respawn owns the flush; a stop keeps the
\* queue and is consumed.  Nothing may carry the respawn out: it was put off
\* to the end of a turn that died with its process, or was flagged after this
\* turn's end had looked for it.
DrainQueue ==
    IF respawnPending
    THEN /\ UNCHANGED <<interrupted, flushers>>
         /\ excuse' = IF ~RespawnComing /\ ~Busy(status) /\ queue # <<>>
                      THEN "deferred" ELSE excuse
    ELSE /\ interrupted' = FALSE
         /\ flushers' = IF interrupted \/ queue = <<>> THEN flushers
                                                        ELSE flushers + 1
         /\ excuse' = IF interrupted /\ queue # <<>> THEN "stop" ELSE excuse

\* The statuses in which the end of a turn is a transition to Idle: the event
\* handler asks for Running, the exit of a turn's process (transition_active)
\* only for one that is neither Idle already nor Error.
EndsTurn(s) ==
    s = "running" \/ (mode = "AtTurnBoundary" /\ s \in {"spawning", "none"})

\* The terminal event, or the exit of a turn's process: transition_active to
\* Idle.  Its two drains follow, while other threads go on.
TurnEnd ==
    /\ working /\ proc # "none" /\ ending = "no" /\ EndsTurn(status)
    /\ SetStatus("idle")
    /\ working' = FALSE /\ ending' = "respawn"
    /\ UNCHANGED <<mode, proc, interrupted, respawnPending, queue, mirror,
                   lockVars, lifeVars, taskVars, sender, arch, bookVars>>

\* The turn ends under another status and nothing follows from it.  Output of
\* a managed process under Idle is StreamOpens first.
TurnEndUnseen ==
    /\ working /\ proc # "none" /\ ending = "no" /\ ~EndsTurn(status)
    /\ ~(mode = "Live" /\ status = "idle")
    /\ working' = FALSE
    /\ UNCHANGED <<mode, status, proc, interrupted, respawnPending, ending,
                   storeVars, lockVars, lifeVars, taskVars, sender, arch,
                   bookVars>>

\* drain_pending_respawn
TurnEndRespawn ==
    /\ ending = "respawn" /\ ending' = "queue"
    /\ respawns' = IF respawnPending THEN respawns + 1 ELSE respawns
    /\ UNCHANGED <<mode, status, proc, working, interrupted, respawnPending,
                   storeVars, lockVars, lifeVars, flushers, revives, sender,
                   arch, bookVars>>

TurnEndQueue ==
    /\ ending = "queue" /\ ending' = "no"
    /\ DrainQueue
    /\ UNCHANGED <<mode, status, proc, working, respawnPending, storeVars,
                   lockVars, lifeVars, revives, respawns, sender, arch,
                   faults, restarts, given, accepted>>

\* make_event_handler: main-line output of a managed process while the status
\* says Idle opens a turn that fletch did not start.
StreamOpens ==
    /\ mode = "Live" /\ proc = "alive" /\ status = "idle" /\ ending = "no"
    /\ IF working THEN UNCHANGED faults ELSE Disturb
    /\ working' = TRUE /\ interrupted' = FALSE /\ status' = "running"
    /\ UNCHANGED <<mode, proc, respawnPending, ending, storeVars, lockVars,
                   lifeVars, taskVars, sender, arch, restarts, given,
                   accepted, excuse>>

\* stop_agent: the turn then ends as any other.
Stop ==
    /\ ~interrupted /\ arch = "open"
    /\ interrupted' = TRUE
    /\ UNCHANGED <<mode, status, proc, working, respawnPending, ending,
                   storeVars, lockVars, lifeVars, taskVars, sender, arch,
                   bookVars>>

----------------------------------------------------------------------------
(* The process                                                             *)

\* A managed process dies; writes into it fail from here on.
Die ==
    /\ mode = "Live" /\ proc = "alive" /\ Disturb
    /\ proc' = "broken"
    /\ UNCHANGED <<mode, status, working, interrupted, respawnPending, ending,
                   storeVars, lockVars, lifeVars, taskVars, sender, arch,
                   restarts, given, accepted, excuse>>

\* apply_exit_if_current: the handle goes and the status follows the exit
\* code.  Nothing is drained.
Exit(s) ==
    /\ proc = "broken" /\ ending = "no"
    /\ proc' = "none" /\ working' = FALSE
    /\ IF status = "error" THEN UNCHANGED <<status, rows>> ELSE SetStatus(s)
    /\ excuse' = "exit"
    /\ UNCHANGED <<mode, interrupted, respawnPending, ending, queue, mirror,
                   lockVars, lifeVars, taskVars, sender, arch, faults,
                   restarts, given, accepted>>

\* on_turn_exit of a turn's process that failed without a turn-end event.
TurnCrash ==
    /\ mode = "AtTurnBoundary" /\ working /\ ending = "no" /\ Disturb
    /\ proc' = "none" /\ working' = FALSE
    /\ SetStatus("error")
    /\ excuse' = "exit"
    /\ UNCHANGED <<mode, interrupted, respawnPending, ending, queue, mirror,
                   lockVars, lifeVars, taskVars, sender, arch, restarts,
                   given, accepted>>

\* resume_agent, from the user or from a revive task.
ResumeBy(who) ==
    /\ life = "nobody"
    /\ IF proc # "none"
       THEN /\ flushers' = IF who = "revive" THEN flushers + 1 ELSE flushers
            /\ UNCHANGED <<status, rows, lifeVars>>
       ELSE /\ SetStatus("spawning")
            /\ life' = who /\ phase' = "launch"
            /\ UNCHANGED flushers
    /\ UNCHANGED <<mode, proc, working, interrupted, respawnPending, ending,
                   queue, mirror, lockVars, respawns, sender, arch, restarts,
                   given, accepted, excuse>>

Resume == proc = "none" /\ arch = "open" /\ Disturb /\ ResumeBy("resume")
          /\ UNCHANGED revives

\* launch_session refuses a managed agent's record that has no session id,
\* before the status flips: a revive ends there, its message left in the
\* queue.  A user's resume refused there changes nothing.
Refused ==
    /\ life = "nobody" /\ proc = "none" /\ mode = "Live"
    /\ Disturb
    /\ excuse' = "failed"
    /\ UNCHANGED <<mode, agentVars, storeVars, lockVars, lifeVars, flushers,
                   respawns, sender, arch, restarts, given, accepted>>

Revive ==
    /\ revives > 0 /\ revives' = revives - 1
    /\ Refused \/ (ResumeBy("revive") /\ UNCHANGED faults)

\* A changed model, effort or binary asks for a session-preserving respawn.
AskRespawn ==
    /\ arch = "open" /\ Disturb
    /\ respawns' = respawns + 1
    /\ UNCHANGED <<mode, agentVars, storeVars, lockVars, lifeVars, flushers,
                   revives, sender, arch, restarts, given, accepted, excuse>>

\* respawn_agent_preserving_session up to take_idle, which checks the status
\* and takes the process under one hold of the agents lock.
Respawn ==
    /\ respawns > 0 /\ life = "nobody"
    /\ respawns' = respawns - 1 /\ life' = "respawn"
    /\ phase' = IF proc = "none" THEN "forget"
                ELSE IF Busy(status) THEN "defer" ELSE "unflag"
    /\ IF proc # "none" /\ Busy(status)
       THEN UNCHANGED <<proc, working>>
       ELSE proc' = "none" /\ working' = FALSE
    /\ UNCHANGED <<mode, status, interrupted, respawnPending, ending, storeVars,
                   lockVars, flushers, revives, sender, arch, bookVars>>

\* What take_idle answered goes into respawn_pending, after its lock is let go.
RespawnSettles ==
    /\ phase \in {"defer", "forget", "unflag"}
    /\ respawnPending' = (phase = "defer")
    /\ IF phase = "unflag" THEN phase' = "taken" /\ UNCHANGED life
                           ELSE phase' = "free" /\ life' = "nobody"
    /\ UNCHANGED <<mode, status, proc, working, interrupted, ending, storeVars,
                   lockVars, taskVars, sender, arch, bookVars>>

\* restart_taken: the old process is shut down, then Spawning.
Restart ==
    /\ phase = "taken" /\ phase' = "launch"
    /\ SetStatus("spawning")
    /\ UNCHANGED <<mode, proc, working, interrupted, respawnPending, ending,
                   queue, mirror, lockVars, life, taskVars, sender, arch,
                   bookVars>>

\* start_process launches the process in its checkout and enters it in the map.
HasCheckout == arch # "archived"

Launch ==
    /\ phase = "launch" /\ HasCheckout /\ phase' = "claim"
    /\ proc' = "alive" /\ working' = FALSE
    /\ UNCHANGED <<mode, status, interrupted, respawnPending, ending,
                   storeVars, lockVars, life, taskVars, sender, arch,
                   bookVars>>

\* The lifecycle lock is let go; a send that relaunched goes on to route.
EndStart ==
    /\ life' = "nobody" /\ phase' = "free"
    /\ at' = IF life = "login" THEN "route" ELSE at
    /\ UNCHANGED <<lock, hand, direct, resting>>

\* start_process failed.  A restart says so in the status (restart_taken); a
\* resume leaves it Spawning.
LaunchFails ==
    /\ phase = "launch"
    /\ IF HasCheckout THEN Disturb ELSE UNCHANGED faults
    /\ IF life \in {"respawn", "login"} THEN SetStatus("error")
                                        ELSE UNCHANGED <<status, rows>>
    /\ excuse' = "failed"
    /\ EndStart
    /\ UNCHANGED <<mode, proc, working, interrupted, respawnPending, ending,
                   queue, mirror, taskVars, sender, arch, restarts, given,
                   accepted>>

\* claim_spawn_outcome: Spawning becomes Idle.  If the timeout claimed it
\* first, the new process is torn down again and the start fails.
Claim ==
    /\ phase = "claim"
    /\ CASE status = "spawning" ->
              /\ SetStatus("idle")
              /\ phase' = "drain"
              /\ UNCHANGED <<proc, working, life, lockVars, excuse>>
         [] status = "error" ->
              /\ proc' = "none" /\ working' = FALSE
              /\ excuse' = "failed"
              /\ EndStart
              /\ UNCHANGED <<status, rows>>
         [] status \notin {"spawning", "error"} ->
              /\ phase' = "done"
              /\ UNCHANGED <<status, rows, proc, working, life, lockVars,
                             excuse>>
    /\ UNCHANGED <<mode, interrupted, respawnPending, ending, queue, mirror,
                   taskVars, sender, arch, faults, restarts, given, accepted>>

\* Mutant: the spawn-completion Idle does not drain the queue.
StartWithoutDrain ==
    /\ phase = "drain" /\ phase' = "done"
    /\ UNCHANGED <<mode, agentVars, storeVars, lockVars, life, taskVars,
                   sender, arch, bookVars>>

\* The spawn-completion drain.
StartDrain ==
    /\ phase = "drain" /\ phase' = "done"
    /\ DrainQueue
    /\ UNCHANGED <<mode, status, proc, working, respawnPending, ending,
                   storeVars, lockVars, life, revives, respawns, sender, arch,
                   faults, restarts, given, accepted>>

\* Mutant: a respawn waits for the delivery lock under the lifecycle lock.
StartedUnderLock ==
    /\ phase = "done"
    /\ life = "respawn" => lock = "nobody"
    /\ EndStart
    /\ flushers' = IF life = "revive" \/ (life = "respawn" /\ ~interrupted)
                   THEN flushers + 1 ELSE flushers
    /\ interrupted' = (interrupted /\ life # "respawn")
    /\ excuse' = IF life = "respawn" /\ interrupted /\ queue # <<>>
                 THEN "stop" ELSE excuse
    /\ UNCHANGED <<mode, status, proc, working, respawnPending, ending,
                   storeVars, revives, respawns, sender, arch, faults,
                   restarts, given, accepted>>

\* The start is over: a revive flushes, and so does a respawn unless the user
\* stopped the turn, once the lifecycle lock is free.
Started ==
    /\ phase = "done"
    /\ EndStart
    /\ flushers' = IF life = "revive" \/ (life = "respawn" /\ ~interrupted)
                   THEN flushers + 1 ELSE flushers
    /\ interrupted' = (interrupted /\ life # "respawn")
    /\ excuse' = IF life = "respawn" /\ interrupted /\ queue # <<>>
                 THEN "stop" ELSE excuse
    /\ UNCHANGED <<mode, status, proc, working, respawnPending, ending,
                   storeVars, revives, respawns, sender, arch, faults,
                   restarts, given, accepted>>

\* arm_spawn_watchdog: whatever is Spawning when a watchdog goes off is timed
\* out; no process of it survives.  For a start in progress that is a
\* disturbance, for one that failed and left Spawning it is what comes next.
SpawnTimeout ==
    /\ status = "spawning"
    /\ IF life = "nobody" THEN UNCHANGED faults ELSE Disturb
    /\ SetStatus("error")
    /\ proc' = "none" /\ working' = FALSE
    /\ excuse' = "failed"
    /\ UNCHANGED <<mode, interrupted, respawnPending, ending, queue, mirror,
                   lockVars, lifeVars, taskVars, sender, arch, restarts,
                   given, accepted>>

----------------------------------------------------------------------------
(* Archive and restart of the host                                         *)

\* An input route is open from open_route to the end of the delivery.
RouteOpen == lock # "nobody"

\* archive_agent_as up to begin_archive: reserve_disposal refuses an open
\* route, a busy agent and, for the unattended sweep, a queued follow-up.
Archive(trigger) ==
    /\ arch = "open"
    /\ ~RouteOpen /\ ~Busy(status)
    /\ trigger = "Sweep" => queue = <<>>
    /\ arch' = IF trigger = "Sweep" THEN "swept" ELSE "begun"
    /\ UNCHANGED <<mode, agentVars, storeVars, lockVars, lifeVars, taskVars,
                   sender, bookVars>>

\* detach_runtime; rows of dropped follow-ups are marked failed.
Detach ==
    /\ arch \in {"begun", "swept"} /\ arch' = "detached"
    /\ proc' = "none" /\ working' = FALSE /\ status' = "none"
    /\ queue' = <<>> /\ mirror' = <<>>
    /\ rows' = [m \in Msgs |-> IF m \in TurnIds(queue) /\ rows[m] = "pending"
                               THEN "failed" ELSE rows[m]]
    /\ interrupted' = FALSE
    /\ UNCHANGED <<mode, respawnPending, ending, lockVars, lifeVars, taskVars,
                   sender, bookVars>>

\* The checkouts are gone, finish_archive, and the reservation is dropped.
Archived ==
    /\ arch = "detached" /\ arch' = "archived"
    /\ UNCHANGED <<mode, agentVars, storeVars, lockVars, lifeVars, taskVars,
                   sender, bookVars>>

\* The host exits and comes back: rows survive, and
\* rehydrate_pending_messages reloads the mirror unless the agent is archived.
HostRestart ==
    /\ Disturb /\ restarts' = restarts + 1
    /\ status' = "none" /\ proc' = "none" /\ working' = FALSE
    /\ interrupted' = FALSE /\ respawnPending' = FALSE /\ ending' = "no"
    /\ arch' = IF arch = "open" THEN "open" ELSE "archived"
    /\ queue' = IF arch = "open" THEN [i \in DOMAIN mirror |-> <<mirror[i]>>]
                                 ELSE <<>>
    /\ lock' = "nobody" /\ at' = "free" /\ hand' = <<>> /\ direct' = FALSE
    /\ resting' = "none" /\ life' = "nobody" /\ phase' = "free"
    /\ flushers' = 0 /\ revives' = 0 /\ respawns' = 0
    /\ sender' = [m \in Msgs |-> IF sender[m] \in {"waiting", "routing"}
                                 THEN "lost" ELSE sender[m]]
    /\ excuse' = "restart"
    /\ UNCHANGED <<mode, mirror, rows, given, accepted>>

----------------------------------------------------------------------------
(* Specification                                                           *)

SendStep(m) == Send(m) \/ Acquire(m)

HolderStep ==
    \/ LoginFine \/ LoginDue \/ LoginTake \/ Route \/ RouteFails
    \/ Inject \/ InjectFails \/ Hold \/ Recheck \/ EnqueueAndFlush
    \/ Report \/ SenderFlush \/ Checkpointed \/ StartTurn
    \/ HandOff \/ HandOffFails \/ Requeue \/ ClearDelivered

TurnStep ==
    \/ TurnEnd \/ TurnEndUnseen \/ TurnEndRespawn \/ TurnEndQueue
    \/ StreamOpens \/ Stop

ProcessStep ==
    \/ Die \/ TurnCrash \/ Resume \/ Revive \/ AskRespawn \/ Respawn
    \/ RespawnSettles \/ Restart \/ Launch \/ LaunchFails \/ Claim \/ StartDrain \/ Started
    \/ SpawnTimeout
    \/ \E s \in {"idle", "error"} : Exit(s)

ArchiveStep ==
    \/ Detach \/ Archived
    \/ \E trigger \in {"User", "Sweep"} : Archive(trigger)

Next ==
    \/ \E m \in Msgs : SendStep(m)
    \/ HolderStep \/ TaskFlush \/ TurnStep \/ ProcessStep \/ ArchiveStep
    \/ HostRestart

Spec == Init /\ [][Next]_vars

\* The tasks of the runtime are polled when they can go on, tokio's mutexes
\* are first come first served, a start comes to its end, and the spawn
\* watchdog is a timer.  Turns need not end and nothing is assumed of users.
StartStep ==
    \/ RespawnSettles \/ Restart \/ Launch \/ LaunchFails \/ Claim
    \/ StartDrain \/ Started

Fairness ==
    /\ \A m \in Msgs : WF_vars(Acquire(m))
    /\ WF_vars(HolderStep) /\ WF_vars(TaskFlush)
    /\ WF_vars(TurnEndRespawn) /\ WF_vars(TurnEndQueue)
    /\ WF_vars(StartStep) /\ WF_vars(Revive) /\ WF_vars(Respawn)
    /\ WF_vars(SpawnTimeout)

FairSpec == Spec /\ Fairness

----------------------------------------------------------------------------
(* Properties                                                              *)

\* Somebody is on the way to the queue: the turn in progress, a task, a turn
\* end, a start, or the holder of the delivery lock.
Owner ==
    \/ working \/ lock # "nobody" \/ flushers > 0
    \/ ending # "no" \/ life # "nobody" \/ revives > 0 \/ respawns > 0

\* No follow-up is stranded (CQ3-A and CQ3-B in send_user_message): while
\* messages are queued for an agent at rest, something is under way that will
\* look at the queue, unless the user stopped the turn, the process exited or
\* could not be started, the host restarted, a flush put its batch back after
\* the boundary it waited for, or a drain left the queue to a flagged respawn
\* that nobody carries out (`excuse`).
QueueHasOwner ==
    /\ queue # <<>> /\ ~Busy(status) /\ proc # "broken"
    /\ arch = "open" /\ excuse = "none"
    => Owner

\* A message whose send reported it as held is in the durable mirror and in
\* the queue or a delivery's hand until it is given or an archive the user
\* asked for drops it, across restarts of the host and failed deliveries
\* (persist_and_enqueue, flush_queued); the unattended archive takes an agent
\* only when nothing is queued or being delivered (ArchiveTrigger::Sweep).
NothingIsLost ==
    /\ \A m \in Msgs :
          /\ sender[m] = "held" /\ m \notin Range(given)
          /\ arch \in {"open", "begun", "swept"}
          => /\ m \in Range(mirror)
             /\ m \in Range(Coalesce(queue)) \cup Range(hand)
    /\ arch = "swept" => queue = <<>> /\ hand = <<>>

\* However its delivery was retried, a message is handed to the process once,
\* and once more at most for each restart of the host, which may fall between
\* the hand-off and the delete of the mirror rows ("never a double send",
\* flush_queued).
AtMostOnce ==
    \A m \in Msgs :
        Cardinality({i \in DOMAIN given : given[i] = m}) <= 1 + restarts

Turn(m) == CHOOSE i \in DOMAIN accepted : accepted[i] = m

\* A provider that takes messages at turn boundaries gets them in the order
\* in which their sends were routed: leftovers never fall behind a newer
\* message (decide_delivery, requeue_front).
InOrder ==
    mode = "AtTurnBoundary" /\ restarts = 0 =>
        \A i, j \in DOMAIN given : i < j => Turn(given[i]) < Turn(given[j])

\* A turn row that never started belongs to a message still to be delivered
\* under that id, or to one injected live: no withdrawn, coalesced or dropped
\* message leaves a row waiting for ever (supersede_member_turns,
\* mark_user_turns_abandoned).
RowsSettled ==
    restarts = 0 =>
        \A m \in Msgs : rows[m] = "pending" =>
            \/ m \in Range(given)
            \/ m \in TurnIds(queue)
            \/ hand # <<>> /\ m = Id(hand)

\* No agent is left Running "with nothing left to end it" (deliver_as_turn):
\* a Running status comes with a turn in the process, a hand-off about to
\* succeed or be reverted, or an exit about to be handled.
RunningEnds ==
    status = "running" => working \/ at = "handoff" \/ proc = "broken"

\* Every send call returns: the delivery and the lifecycle lock are never
\* waited for in a circle (a send relaunching on a fresh login holds the
\* first and waits for the second).
SendAnswered ==
    \A m \in Msgs :
        sender[m] = "waiting" ~> sender[m] \notin {"waiting", "routing"}

\* If turns end, a queued message leaves the queue, is left to the user for
\* one of the reasons of `excuse`, or goes with the agent.
HeldMoves ==
    []<>(~working) =>
        (queue # <<>> ~> \/ queue = <<>> \/ excuse # "none"
                         \/ arch # "open" \/ proc = "broken")

----------------------------------------------------------------------------
(* What comments of the code say that its behaviour does not bear out      *)

\* "A pending session-preserving respawn owns the flush" of the turn end that
\* deferred to it: the task that clears the flag over a non-empty queue goes
\* on to restart the agent.
RespawnOwnsFlush ==
    [][respawnPending /\ ~respawnPending' /\ queue # <<>> /\ status' # "none"
       => life' = "respawn"]_vars

\* "A pending session-preserving respawn owns the flush (and the interrupt
\* check): it tears down and restarts the agent, then flushes once it's ready":
\* a turn end that leaves the queue to a respawn leaves it to one on its way.
RespawnIsComing ==
    [][ending = "queue" /\ ending' = "no" /\ respawnPending /\ queue # <<>>
       => RespawnComing \/ Busy(status)]_vars

\* The spawn-completion Idle drains the queue, for without it "a queued first
\* message sits undelivered until the *next* message flushes it": unless the
\* user stopped, the drain sends a flush or leaves it to a respawn on its way.
SpawnDrains ==
    [][phase = "drain" /\ phase' = "done" /\ queue # <<>> /\ ~interrupted
       => flushers' > flushers \/ RespawnComing \/ Busy(status)]_vars

\* "An archived agent has no checkout and no process."
ArchivedHasNoProcess ==
    arch = "archived" => proc = "none"

\* A message whose turn start was refused because the agent was busy is held
\* "for the next turn boundary", so something is under way that ends in one.
HeldForBoundary ==
    /\ queue # <<>> /\ status = "idle" /\ proc = "alive" /\ arch = "open"
    /\ excuse \in {"none", "late"}
    => Owner
=============================================================================
