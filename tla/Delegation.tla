----------------------------- MODULE Delegation -----------------------------
(***************************************************************************)
(* Delegations (supervisor/delegation.rs): one git playbook handed to the  *)
(* coding agent, recorded per checkout, delivered when the agent is free,  *)
(* and watched until the transition that proves it landed or the agent has *)
(* settled without it.                                                     *)
(*                                                                         *)
(* Three parties share the table: the calls of delegate_git (and of        *)
(* autopilot, through the same two functions), the driver, which takes one *)
(* status event or one tick at a time and then runs a pass that awaits git *)
(* and deliveries, and the agent, whose git operations are noted as they   *)
(* are reported.  A step is what runs between two awaits or two locks.     *)
(* How a message reaches the agent is MessageDelivery's subject; here a    *)
(* hand-over opens a turn, joins the running one, or is held for the next. *)
(***************************************************************************)
EXTENDS FiniteSets, Naturals

CONSTANTS
    Keys,       \* the agent's checkouts, numbered in the order of their keys
    Calls,      \* calls of delegate_git, numbered; a call's number is the id of
                \* the delegation it records
    MaxUser,    \* bound: turns the user starts
    MaxReviews, \* bound: local reviews
    MaxFaults   \* bound: deliveries that fail, status events lost

ASSUME DelegationAssumption ==
    /\ Keys # {} /\ Keys \subseteq Nat /\ Calls \subseteq Nat \ {0}
    /\ {MaxUser, MaxReviews, MaxFaults} \subseteq Nat

VARIABLES
    table,      \* the live delegations
    call,       \* the calls
    driver,     \* the driver and its pass
    unheard,    \* Running events the driver has not taken yet
    status,     \* the agent: "idle", "spawning", "running" or "gone"
    turn,       \* whose messages the running turn answers; 0 is the user
    inbox,      \* messages held for the next turn
    review,     \* checkouts held by a local review
    users, reviews, faults,
    sent,       \* observer: hand-overs per call
    begun,      \* observer: calls whose turn has started
    parked,     \* observer: calls whose message was held for a later turn
    behind      \* observer: delegations recorded behind the running turn

agentVars == <<status, turn, inbox>>
bounds == <<users, reviews, faults>>
observers == <<sent, begun, parked, behind>>
vars == <<table, call, driver, unheard, agentVars, review, bounds, observers>>

----------------------------------------------------------------------------
(* The table                                                               *)

\* Two kinds stand for the nine: one whose target can be observed, and one
\* that settles on idle.
Kinds == {"commit", "fix-checks"}
SettlesOnIdle(kind) == kind = "fix-checks"

None == [id |-> 0, kind |-> "none", sawRunning |-> FALSE, sawGitOp |-> FALSE,
         queued |-> FALSE]

Delegated(c, kind, queued) ==
    [None EXCEPT !.id = c, !.kind = kind, !.queued = queued]

IsLive(k) == table[k].id # 0
Holds(k, c) == c # 0 /\ table[k].id = c

\* Mutant: whatever delegation is there is removed.
FinishAny(k, c) == IsLive(k)

\* finish removes the delegation it was decided about, and no other.
MayFinish(k, c) == Holds(k, c)

Finish(k, c) ==
    table' = IF MayFinish(k, c) THEN [table EXCEPT ![k] = None] ELSE table

\* mark_running, for one entry.
Marked(d) == IF d.queued THEN d ELSE [d EXCEPT !.sawRunning = TRUE]

----------------------------------------------------------------------------
(* Handing a message to the agent (external: Supervisor::send_user_message) *)

Started(who) == /\ turn' = who /\ status' = "running" /\ inbox' = {}
                /\ unheard' = unheard + 1
                /\ begun' = begun \union who

\* The message of c goes out: it opens a turn, joins the running one, or waits
\* for the next (at a turn boundary, or for the agent's process).
HandOver(c) ==
    /\ status # "gone"
    /\ sent' = [sent EXCEPT ![c] = @ + 1]
    /\ \/ status = "idle" /\ Started(inbox \union {c}) /\ UNCHANGED parked
       \/ /\ status = "running" /\ turn' = turn \union {c}
          /\ begun' = begun \union {c}
          /\ UNCHANGED <<status, inbox, unheard, parked>>
       \/ /\ inbox' = inbox \union {c} /\ parked' = parked \union {c}
          /\ UNCHANGED <<status, turn, unheard, begun>>

HandOverFails ==
    /\ \/ faults < MaxFaults /\ faults' = faults + 1
       \/ status = "gone" /\ UNCHANGED faults
    /\ UNCHANGED <<status, turn, inbox, unheard, sent, begun, parked>>

----------------------------------------------------------------------------
(* delegate_git                                                            *)

NoCall == [at |-> "none", key |-> 0, kind |-> "none", queued |-> FALSE]

\* admit_to reads the agent's status: a running turn means that the trigger is
\* held back.
DelegateReadsStatus(c) ==
    /\ call[c].at = "none" /\ status # "gone"
    /\ \A b \in Calls : b < c => call[b].at # "none"
    /\ \E k \in Keys, kind \in Kinds :
          call' = [call EXCEPT ![c] = [at |-> "admitting", key |-> k,
                                       kind |-> kind,
                                       queued |-> status = "running"]]
    /\ UNCHANGED <<table, driver, unheard, agentVars, review, bounds, observers>>

\* record_unless_reviewed, under the admission lock.
MayRecord(k) == k \notin review

Done(c) == [NoCall EXCEPT !.at = "done", !.queued = call[c].queued]

\* A recorded delegation takes the place of the one that was there.
DelegateRecords(c) ==
    LET k == call[c].key
        queued == call[c].queued
    IN
    /\ call[c].at = "admitting"
    /\ IF MayRecord(k)
       THEN /\ table' = [table EXCEPT ![k] = Delegated(c, call[c].kind, queued)]
            /\ call' = [call EXCEPT ![c] = IF queued THEN Done(c)
                                           ELSE [@ EXCEPT !.at = "sending"]]
            /\ behind' = IF queued /\ turn # {} THEN behind \union {c} ELSE behind
       ELSE call' = [call EXCEPT ![c] = Done(c)] /\ UNCHANGED <<table, behind>>
    /\ UNCHANGED <<driver, unheard, agentVars, review, bounds, sent, begun, parked>>

\* run_admitted: the delivery returns.
DelegateSends(c) ==
    /\ call[c].at = "sending"
    /\ call' = [call EXCEPT ![c] = Done(c)]
    /\ \/ HandOver(c) /\ UNCHANGED <<table, faults>>
       \/ HandOverFails /\ Finish(call[c].key, c)
    /\ UNCHANGED <<driver, review, users, reviews, behind>>

----------------------------------------------------------------------------
(* The driver                                                              *)

Resting == [at |-> "rest", snap |-> [k \in Keys |-> None], status |-> "idle",
            todo |-> [k \in Keys |-> "wait"], key |-> 0]

\* A Running event is taken: every delivered delegation of the agent is marked.
\* A receiver that lagged has lost it.
DriverHears ==
    /\ driver.at = "rest" /\ unheard > 0
    /\ unheard' = unheard - 1
    /\ driver' = [driver EXCEPT !.at = "pass"]
    /\ \/ /\ table' = [k \in Keys |-> IF IsLive(k) THEN Marked(table[k])
                                                   ELSE table[k]]
          /\ UNCHANGED faults
       \/ faults < MaxFaults /\ faults' = faults + 1 /\ UNCHANGED table
    /\ UNCHANGED <<call, agentVars, review, users, reviews, observers>>

\* A tick, another event or a nudge.
DriverWakes ==
    /\ driver.at = "rest" /\ \E k \in Keys : IsLive(k)
    /\ driver' = [driver EXCEPT !.at = "pass"]
    /\ UNCHANGED <<table, call, unheard, agentVars, review, bounds, observers>>

PassSnapshots ==
    /\ driver.at = "pass"
    /\ driver' = IF \A k \in Keys : ~IsLive(k) THEN Resting
                 ELSE [driver EXCEPT !.at = "status", !.snap = table]
    /\ UNCHANGED <<table, call, unheard, agentVars, review, bounds, observers>>

PassReadsStatus ==
    /\ driver.at = "status"
    /\ driver' = [driver EXCEPT !.at = "plan", !.status = status]
    /\ UNCHANGED <<table, call, unheard, agentVars, review, bounds, observers>>

\* Mutant: only a turn seen running arms the give-up clock.
ArmedByTurn(d, late) == d.sawRunning

Armed(d, late) == d.sawRunning \/ late

\* delegation_step and what plan_pass makes of it: resolved says that the target
\* was observed, late that the grace period has passed.
DelegationStep(d, st, resolved, late) ==
    IF d.id = 0 THEN "wait"
    ELSE IF st = "gone" THEN "drop"
    ELSE IF resolved /\ d.sawGitOp /\ ~d.queued THEN "resolve"
    ELSE IF d.queued THEN (IF st = "idle" THEN "dequeue" ELSE "wait")
    ELSE IF st = "running" /\ ~d.sawRunning THEN "mark"
    ELSE IF st = "idle" /\ Armed(d, late)
         THEN (IF SettlesOnIdle(d.kind) THEN "settle" ELSE "abandon")
    ELSE "wait"

\* Mutant: every held trigger is taken at once.
DequeueAll(plan) == plan

\* At most one dequeue per agent per pass, the first in key order.
OneDequeue(plan) ==
    [k \in Keys |-> IF plan[k] = "dequeue" /\
                       \E j \in Keys : j < k /\ plan[j] = "dequeue"
                    THEN "wait" ELSE plan[k]]

\* plan_pass, on what was read of the checkouts: one may show its target
\* whoever brought that about, and an unreadable one resolves nothing.  late:
\* the delegations whose grace period has passed.
PassPlans(late) ==
    /\ driver.at = "plan"
    /\ \E shown \in SUBSET {k \in Keys : ~SettlesOnIdle(driver.snap[k].kind)} :
          driver' = [driver EXCEPT !.at = "apply", !.status = "idle",
                       !.snap = [k \in Keys |-> [None EXCEPT !.id = driver.snap[k].id]],
                       !.todo = OneDequeue([k \in Keys |->
                          DelegationStep(driver.snap[k], driver.status,
                                         k \in shown, k \in late)])]
    /\ UNCHANGED <<table, call, unheard, agentVars, review, bounds, observers>>

Planned == {k \in Keys : driver.todo[k] # "wait"}
NextPlanned == CHOOSE k \in Planned : \A j \in Planned : k <= j
Applied(k) == [driver EXCEPT !.todo[k] = "wait"]

PassEnds ==
    /\ driver.at = "apply" /\ Planned = {}
    /\ driver' = Resting
    /\ UNCHANGED <<table, call, unheard, agentVars, review, bounds, observers>>

Endings == {"resolve", "settle", "abandon", "drop"}

PassFinishes ==
    LET k == NextPlanned IN
    /\ driver.at = "apply" /\ Planned # {} /\ driver.todo[k] \in Endings
    /\ Finish(k, driver.snap[k].id)
    /\ driver' = Applied(k)
    /\ UNCHANGED <<call, unheard, agentVars, review, bounds, observers>>

PassMarks ==
    LET k == NextPlanned IN
    /\ driver.at = "apply" /\ Planned # {} /\ driver.todo[k] = "mark"
    /\ table' = IF Holds(k, driver.snap[k].id)
                THEN [table EXCEPT ![k] = Marked(@)] ELSE table
    /\ driver' = Applied(k)
    /\ UNCHANGED <<call, unheard, agentVars, review, bounds, observers>>

\* Mutant: the held trigger of whatever delegation is there is taken.
AnyMayBeTaken(k, c) == IsLive(k) /\ table[k].queued

\* take_dequeue: the delegation the pass decided about, still held.
MayTake(k, c) == Holds(k, c) /\ table[k].queued

Taken(d) == [d EXCEPT !.queued = FALSE]

PassTakes ==
    LET k == NextPlanned IN
    /\ driver.at = "apply" /\ Planned # {} /\ driver.todo[k] = "dequeue"
    /\ IF MayTake(k, driver.snap[k].id)
       THEN /\ table' = [table EXCEPT ![k] = Taken(@)]
            /\ driver' = [Applied(k) EXCEPT !.at = "deliver", !.key = k,
                                            !.snap[k].id = table[k].id]
       ELSE driver' = Applied(k) /\ UNCHANGED table
    /\ UNCHANGED <<call, unheard, agentVars, review, bounds, observers>>

\* The pass waits for the delivery; one that fails ends the delegation.
PassDelivers ==
    LET k == driver.key
        c == driver.snap[k].id
    IN
    /\ driver.at = "deliver"
    /\ driver' = [driver EXCEPT !.at = "apply", !.key = 0]
    /\ \/ HandOver(c) /\ UNCHANGED <<table, faults>>
       \/ HandOverFails /\ Finish(k, c)
    /\ UNCHANGED <<call, review, users, reviews, behind>>

----------------------------------------------------------------------------
(* The agent, the user and the reviews                                     *)

\* note_git_action: proof for a delivered delegation whose playbook has it.
Noted(d) == d.kind = "commit" /\ ~d.sawGitOp /\ ~d.queued

\* The agent ran an operation of a playbook and reported it.  The report names
\* the agent, not the checkout.
AgentRunsOp ==
    /\ status = "running"
    /\ table' = [k \in Keys |-> IF Noted(table[k])
                               THEN [table[k] EXCEPT !.sawGitOp = TRUE]
                               ELSE table[k]]
    /\ UNCHANGED <<call, driver, unheard, agentVars, review, bounds, observers>>

UserStartsTurn ==
    /\ status = "idle" /\ users < MaxUser
    /\ users' = users + 1
    /\ Started(inbox \union {0})
    /\ UNCHANGED <<table, call, driver, review, reviews, faults, sent, parked,
                   behind>>

\* A session at rest is revived to deliver what is held.
AgentRevives ==
    /\ status = "idle" /\ inbox # {}
    /\ status' = "spawning"
    /\ UNCHANGED <<table, call, driver, unheard, turn, inbox, review, bounds,
                   observers>>

\* What is held goes out as one turn.
HeldTurnStarts ==
    /\ status \in {"idle", "spawning"} /\ inbox # {}
    /\ Started(inbox)
    /\ UNCHANGED <<table, call, driver, review, bounds, sent, parked, behind>>

TurnEnds ==
    /\ status = "running"
    /\ status' = "idle" /\ turn' = {} /\ behind' = {}
    /\ UNCHANGED <<table, call, driver, unheard, inbox, review, bounds, sent, begun,
                   parked>>

\* The agent is archived.
AgentGoes ==
    /\ status = "idle" /\ users < MaxUser /\ users' = users + 1
    /\ status' = "gone" /\ inbox' = {} /\ review' = {}
    /\ UNCHANGED <<table, call, driver, unheard, turn, reviews, faults, observers>>

\* claim_if_free, under the admission lock: a local review takes a checkout
\* that no delegation has.
ReviewClaims(k) ==
    /\ reviews < MaxReviews /\ reviews' = reviews + 1
    /\ status = "idle" /\ ~IsLive(k) /\ k \notin review
    /\ review' = review \union {k}
    /\ UNCHANGED <<table, call, driver, unheard, agentVars, users, faults,
                   observers>>

ReviewEnds(k) ==
    /\ k \in review /\ review' = review \ {k}
    /\ UNCHANGED <<table, call, driver, unheard, agentVars, bounds, observers>>

----------------------------------------------------------------------------
Init ==
    /\ table = [k \in Keys |-> None] /\ call = [c \in Calls |-> NoCall]
    /\ driver = Resting /\ unheard = 0
    /\ status = "idle" /\ turn = {} /\ inbox = {}
    /\ review = {}
    /\ users = 0 /\ reviews = 0 /\ faults = 0
    /\ sent = [c \in Calls |-> 0] /\ begun = {} /\ parked = {} /\ behind = {}

DriverStep ==
    \/ DriverHears \/ DriverWakes \/ PassSnapshots \/ PassReadsStatus
    \/ (\E late \in SUBSET Keys : PassPlans(late)) \/ PassEnds \/ PassFinishes \/ PassMarks \/ PassTakes \/ PassDelivers

CallStep(c) == DelegateReadsStatus(c) \/ DelegateRecords(c) \/ DelegateSends(c)

Next ==
    \/ DriverStep
    \/ \E c \in Calls : CallStep(c)
    \/ UserStartsTurn \/ AgentRevives \/ HeldTurnStarts \/ TurnEnds \/ AgentGoes
    \/ AgentRunsOp
    \/ \E k \in Keys : \/ ReviewClaims(k) \/ ReviewEnds(k)

Spec == Init /\ [][Next]_vars

\* The driver and the calls keep running, turns end and what is held goes out,
\* and the clock passes any grace period.
Fairness ==
    /\ WF_vars(DriverStep)
    /\ \A c \in Calls : WF_vars(DelegateRecords(c) \/ DelegateSends(c))
    /\ WF_vars(TurnEnds) /\ WF_vars(HeldTurnStarts)
    /\ SF_vars(PassPlans(Keys))

FairSpec == Spec /\ Fairness

----------------------------------------------------------------------------
(* Properties                                                              *)

\* The type of the table and of the parties.
TypeOK ==
    /\ table \in [Keys -> [id : Calls \union {0}, kind : Kinds \union {"none"},
                           sawRunning : BOOLEAN, sawGitOp : BOOLEAN,
                           queued : BOOLEAN]]
    /\ \A k \in Keys : table[k].queued => ~table[k].sawRunning
    /\ status \in {"idle", "spawning", "running", "gone"}
    /\ (status = "running") = (turn # {})
    /\ inbox \subseteq Calls /\ review \subseteq Keys
    /\ unheard \in Nat /\ sent \in [Calls -> Nat]

\* The trigger of a delegation is handed to the agent at most once, whichever
\* of the call and the passes of the driver come to it, and not at all while
\* the turn it was held behind is still running, however long the pass that
\* took it had been under way and whatever was recorded on the checkout in
\* between (take_dequeue).
SentOnce == \A c \in Calls : sent[c] <= IF c \in behind THEN 0 ELSE 1

\* Two held triggers never run as one turn, unless the agent could not take the
\* first at once (at most one dequeue per pass).
HeldRunApart ==
    \A c, d \in (Calls \intersect turn) \ parked :
       call[c].queued /\ call[d].queued => c = d

\* A pass ends only delegations it looked at: one recorded over another while
\* the pass was under way survives it (the ids of the table).
NewSurvivesPass ==
    [][\A k \in Keys :
          driver' # driver /\ IsLive(k) /\ table'[k] = None =>
             table[k].id = driver.snap[k].id]_vars

\* Every delegation ends: its call returns, and it is resolved, given up,
\* superseded or dropped with its agent.  There are finitely many calls, so in
\* the end none is under way and the table is empty for good.
EveryDelegationEnds ==
    <>[](/\ \A c \in Calls : call[c].at \in {"none", "done"}
         /\ \A k \in Keys : ~IsLive(k))

\* A delegation marked running has had its turn started: "The delegated turn has
\* been seen running since `started_at`" (delegation.rs).
SawOwnTurn ==
    \A k \in Keys : table[k].sawRunning => table[k].id \in begun
=============================================================================
