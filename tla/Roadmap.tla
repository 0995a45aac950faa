------------------------------ MODULE Roadmap ------------------------------
(***************************************************************************)
(* The roadmap queue (crates/fletch-core/src/roadmap): the drainer, which  *)
(* claims queued items, launches workflow runs for them and reflects ended *)
(* runs onto the board (drainer.rs); the merge sweep, which ships items    *)
(* whose pull request merged (merge_sweep.rs); the brakes (brakes.rs); and *)
(* the commands of users (commands.rs, mutations.rs, rulings.rs,           *)
(* assignments.rs).                                                        *)
(*                                                                         *)
(* Drainer, sweep and every command are tasks of their own that share the  *)
(* database: a step is what happens under one hold of its lock, or the end *)
(* of an await (a launch, a poll of a pull request, a merge).  Projects    *)
(* share nothing, so one is modelled.  A run is what WorkflowRun promises: *)
(* once launched it ends; its row can be deleted after that.               *)
(***************************************************************************)
EXTENDS FiniteSets, FiniteSetsExt, Naturals, SequencesExt

CONSTANTS
    Items,      \* the rows of the board, numbered
    Cap,        \* the project's cap on concurrent runs (roadmap.max_concurrent)
    Boards,     \* the boards there may be at the start
    Acts,       \* the commands users give
    MaxRuns,    \* bound: runs launched
    MaxEvents   \* bound: commands of users, launches that fail and restarts of
                \* the host, together

ASSUME RoadmapAssumption ==
    /\ Items # {} /\ IsFiniteSet(Items) /\ Items \subseteq Nat \ {0}
    /\ Cap \in 1..4
    /\ Boards \subseteq [Items ->
           [status : {"proposed", "open", "queued", "rejected"},
            deps : SUBSET Items, agent : BOOLEAN, run : {0}, pr : {0},
            held : BOOLEAN]]
    /\ {MaxRuns, MaxEvents} \subseteq Nat

VARIABLES
    item,       \* roadmap_items
    order,      \* their order by rank
    projectHeld,\* roadmap_project_holds has a row
    unrunnable, \* items for which no usable workflow resolves
    run,        \* wf_run rows with a roadmap_item_id, and their pull requests
    drainer,    \* the drainer's tick
    sweep,      \* the merge sweep's pass
    wake,       \* the sweep's Notify holds a permit
    deaf,       \* items the sweep has given up on
    merging,    \* merges users asked for that are under way
    events,
    ruledDone   \* observer: items a user marked done

boardVars == <<item, order, projectHeld, unrunnable, deaf>>
sweepVars == <<sweep, wake>>
vars == <<boardVars, run, drainer, sweepVars, merging, events, ruledDone>>

----------------------------------------------------------------------------
(* Rows                                                                    *)

Status == {"proposed", "open", "queued", "active", "in_review", "done",
           "rejected", "deleted"}
Runs == 1..MaxRuns

\* run and pr name a run, or 0; pr is the run whose pull request number the row
\* carries.
Row == [status : Status, deps : SUBSET Items, agent : BOOLEAN,
        run : Runs \union {0}, pr : Runs \union {0}, held : BOOLEAN]

NoRun == [item |-> 0, state |-> "none", pr |-> "none", row |-> FALSE]

Known == {i \in Items : item[i].status # "deleted"}

\* Every write of a row moves updated_at, so the sweep listens again.
Write(i, row) ==
    /\ item' = [item EXCEPT ![i] = row]
    /\ deaf' = deaf \ {i}

\* store::update without an expected status: it misses only a deleted row.
Update(i, row) ==
    IF i \in Known THEN Write(i, row) ELSE UNCHANGED <<item, deaf>>

\* store::update_where_status
UpdateWhere(i, expected, row) ==
    IF item[i].status = expected THEN Write(i, row) ELSE UNCHANGED <<item, deaf>>

\* brakes::gate
Gated(i) == item[i].held \/ projectHeld

----------------------------------------------------------------------------
(* The dependency graph                                                    *)

Deps(board) == [i \in Items |->
    IF board[i].status = "deleted" THEN {} ELSE board[i].deps]

\* What the walk of find_cycle visits from one row.
Reach(graph, start) ==
    CHOOSE s \in SUBSET Items :
        /\ start \in s /\ \A i \in s : graph[i] \subseteq s
        /\ \A t \in SUBSET s :
               (start \in t /\ \A i \in t : graph[i] \subseteq t) => t = s

FindCycle(graph, start) ==
    \E s \in (SUBSET Reach(graph, start)) \ {{}} :
        \A i \in s : graph[i] \intersect s # {}

\* check_edit: no self, no unknown or rejected code, no loop.
CheckEdit(i, new) ==
    /\ \A d \in new : d # i /\ d \in Known /\ item[d].status # "rejected"
    /\ ~FindCycle([Deps(item) EXCEPT ![i] = new], i)

\* done_codes and unsatisfied_deps: landed is done and not held, and a code
\* that is no longer on the board does not count.
Landed(i) == item[i].status = "done" /\ ~item[i].held
Unsatisfied(i) == {d \in item[i].deps \intersect Known : ~Landed(d)}

Event == events < MaxEvents /\ events' = events + 1

----------------------------------------------------------------------------
(* The drainer: settling                                                   *)

Live == {r \in Runs : run[r].state = "live"}

\* dispatched_run_id: the newest live run launched for the row.
DispatchedRun(i) == LET mine == {r \in Live : run[r].item = i}
                    IN  IF mine = {} THEN 0 ELSE Max(mine)

\* settle, with what collect_settlements makes of a row without a run.
Settle(r) ==
    IF r = 0 \/ ~run[r].row THEN "released"
    ELSE IF run[r].state = "live" THEN "running"
    ELSE IF run[r].state # "done" THEN "released"
    ELSE IF run[r].pr # "none" THEN "in_review" ELSE "done"

SettlementOf(i) ==
    LET adopted == IF item[i].run = 0 THEN DispatchedRun(i) ELSE 0
        r       == IF item[i].run = 0 THEN adopted ELSE item[i].run
    IN  [item |-> i, outcome |-> Settle(r), adopted |-> adopted,
         pr |-> IF r # 0 /\ run[r].pr \in {"open", "merged", "closed"}
                THEN r ELSE 0]

\* Mutant: only rows with a run are looked at.
CollectStamped ==
    {s \in {SettlementOf(i) : i \in {j \in Items : item[j].status = "active"
                                                   /\ item[j].run # 0}} :
        s.outcome # "running" \/ s.adopted # 0}

\* collect_settlements
Collect ==
    {s \in {SettlementOf(i) : i \in {j \in Items :
                /\ item[j].status = "active"
                /\ item[j].run # 0 \/ ~item[j].agent}} :
        s.outcome # "running" \/ s.adopted # 0}

\* settlement_patch on the row of s.
Patched(s) ==
    LET row == item[s.item] IN
    CASE s.outcome = "running"   -> [row EXCEPT !.run = s.adopted]
      [] s.outcome = "in_review" -> [row EXCEPT !.status = "in_review", !.pr = s.pr]
      [] s.outcome = "done"      -> [row EXCEPT !.status = "done"]
      [] s.outcome = "released"  -> [row EXCEPT !.status = "open", !.run = 0]

Idle == [at |-> "idle", todo |-> {}, left |-> 0, item |-> 0, run |-> 0]

\* The rows still to settle, in the order of the list; then the claims of the
\* tick, at most Cap of them.
Settling(d, todo) ==
    [d EXCEPT !.todo = todo, !.at = IF todo = {} THEN "claim" ELSE "settle"]

First(todo) == CHOOSE s \in todo : \A t \in todo :
    \E a, b \in DOMAIN order : order[a] = s.item /\ order[b] = t.item /\ a <= b

\* A tick, by the timer or a nudge: nothing is done for a project without
\* queued or active items.
TickStarts ==
    /\ drainer.at = "idle"
    /\ \E i \in Items : item[i].status \in {"queued", "active"}
    /\ drainer' = Settling([Idle EXCEPT !.left = Cap], Collect)
    /\ UNCHANGED <<boardVars, run, sweepVars, merging, events, ruledDone>>

\* settle_project, one row: the write, whatever the row has become since it
\* was read, and the nudge of the sweep.
TickSettles ==
    /\ drainer.at = "settle"
    /\ LET s == First(drainer.todo) IN
        /\ Update(s.item, Patched(s))
        /\ wake' = (wake \/ s.outcome = "in_review")
        /\ drainer' = Settling(drainer, drainer.todo \ {s})
    /\ UNCHANGED <<order, projectHeld, unrunnable, run, sweep, merging, events,
                   ruledDone>>

----------------------------------------------------------------------------
(* The drainer: claiming and dispatching                                   *)

\* dispatchable
Dispatchable == {i \in Items : /\ item[i].status = "queued"
                               /\ ~item[i].agent /\ ~item[i].held}

\* Mutant: the head of the queue, or nothing.
PickHead(i) ==
    /\ i \in Dispatchable /\ Cardinality(Live) < Cap
    /\ Unsatisfied(i) = {}
    /\ \A j \in Dispatchable : \E a, b \in DOMAIN order :
           order[a] = i /\ order[b] = j /\ a <= b

\* Mutant: the runs of rows are counted, not the runs.
PickByRows(i) ==
    /\ i \in Dispatchable
    /\ Cardinality({j \in Items : item[j].status = "active" /\ item[j].run # 0})
           < Cap
    /\ Unsatisfied(i) = {}

\* pick_next: the first dispatchable item by rank whose dependencies landed,
\* while fewer than Cap runs are live (live_run_count).
PickNext(i) ==
    /\ i \in Dispatchable /\ Cardinality(Live) < Cap
    /\ Unsatisfied(i) = {}
    /\ \A j \in Dispatchable : Unsatisfied(j) = {} =>
           \E a, b \in DOMAIN order : order[a] = i /\ order[b] = j /\ a <= b

\* plan_and_claim finds an item with a workflow to run under (resolve_for_
\* dispatch) and claims it, in one hold of the lock.
TickClaims(i) ==
    /\ drainer.at = "claim" /\ drainer.left > 0
    /\ ~projectHeld /\ PickNext(i) /\ i \notin unrunnable
    /\ Write(i, [item[i] EXCEPT !.status = "active"])
    /\ drainer' = [drainer EXCEPT !.at = "launch", !.item = i]
    /\ UNCHANGED <<order, projectHeld, unrunnable, run, sweepVars, merging,
                   events, ruledDone>>

\* It claims nothing: the board is held, the queue is empty, blocked or at
\* capacity, or the item picked is wedged; or all claims of the tick are used.
TickEnds ==
    /\ drainer.at = "claim"
    /\ \/ drainer.left = 0 \/ projectHeld
       \/ \A i \in Items : PickNext(i) => i \in unrunnable
    /\ drainer' = Idle
    /\ UNCHANGED <<boardVars, run, sweepVars, merging, events, ruledDone>>

\* launch returns: the row of the run is there and its driver was spawned.
LaunchReturns ==
    /\ drainer.at = "launch"
    /\ \E r \in Runs :
        /\ run[r] = NoRun /\ \A q \in Runs : q < r => run[q] # NoRun
        /\ run' = [run EXCEPT ![r] = [NoRun EXCEPT
                       !.item = drainer.item, !.state = "live", !.row = TRUE]]
        /\ drainer' = [drainer EXCEPT !.at = "stamp", !.run = r]
    /\ UNCHANGED <<boardVars, sweepVars, merging, events, ruledDone>>

Dispatched == [Idle EXCEPT !.at = "claim", !.left = drainer.left - 1]

\* dispatch writes the run onto the row.
TickStamps ==
    /\ drainer.at = "stamp"
    /\ Update(drainer.item, [item[drainer.item] EXCEPT !.run = drainer.run])
    /\ drainer' = Dispatched
    /\ UNCHANGED <<order, projectHeld, unrunnable, run, sweepVars, merging,
                   events, ruledDone>>

\* launch fails before it inserts a row, and the item is released.
LaunchFails ==
    /\ drainer.at = "launch"
    /\ Event
    /\ Update(drainer.item,
              [item[drainer.item] EXCEPT !.status = "open", !.run = 0])
    /\ drainer' = Dispatched
    /\ UNCHANGED <<order, projectHeld, unrunnable, run, sweepVars, merging,
                   ruledDone>>

----------------------------------------------------------------------------
(* Runs and pull requests (external: workflow/, GitHub)                    *)

\* A run ends; one that is done may have opened a pull request, whose number
\* is not always known.
RunEnds(r) ==
    /\ run[r].state = "live"
    /\ \E end \in {<<"failed", "none">>, <<"done", "none">>,
                   <<"done", "unnumbered">>, <<"done", "open">>} :
        run' = [run EXCEPT ![r].state = end[1], ![r].pr = end[2]]
    /\ UNCHANGED <<boardVars, drainer, sweepVars, merging, events, ruledDone>>

MayAct(what) == what \in Acts /\ Event

\* wf_delete_run, of a run that has ended.
RunDeleted(r) ==
    /\ MayAct("deleteRun")
    /\ run[r].state \in {"done", "failed"} /\ run[r].row
    /\ run' = [run EXCEPT ![r].row = FALSE]
    /\ UNCHANGED <<boardVars, drainer, sweepVars, merging, ruledDone>>

\* Somebody merges or closes a pull request on GitHub.
PrMoves(r) ==
    /\ run[r].pr = "open"
    /\ \E to \in {"merged", "closed"} : run' = [run EXCEPT ![r].pr = to]
    /\ UNCHANGED <<boardVars, drainer, sweepVars, merging, events, ruledDone>>

----------------------------------------------------------------------------
(* The merge sweep                                                         *)

Resting == [at |-> "resting", todo |-> {}, item |-> 0, verdict |-> "none"]

WatchList == {i \in Items : item[i].status = "in_review" /\ item[i].pr # 0}

\* A pass starts, by the timer or the signal; with an empty watch list the
\* sweep sleeps until it is signalled, whatever the time.
SweepStarts ==
    /\ \/ sweep.at = "resting" /\ wake' \in {wake, FALSE}
       \/ sweep.at = "asleep" /\ wake /\ wake' = FALSE
    /\ sweep' = IF WatchList = {} THEN [Resting EXCEPT !.at = "asleep"]
                ELSE [Resting EXCEPT !.at = "polling",
                                     !.todo = {<<i, item[i].pr>> : i \in WatchList}]
    /\ UNCHANGED <<boardVars, run, drainer, merging, events, ruledDone>>

Advance(todo) == [sweep EXCEPT !.todo = todo,
                             !.at = IF todo = {} THEN "resting" ELSE "polling",
                             !.item = 0, !.verdict = "none"]

\* The pass is at the row i, in the order of the watch list.
Polls(i) == /\ sweep.at = "polling"
            /\ i = Min({w[1] : w \in sweep.todo})
Rest(i) == {w \in sweep.todo : w[1] # i}

\* Nobody answers (record_miss), or the sweep gave up on i (still_watching).
SweepPasses(i) ==
    /\ Polls(i) /\ sweep' = Advance(Rest(i))
    /\ UNCHANGED <<boardVars, run, drainer, wake, merging, events, ruledDone>>

\* Nobody answers, UNANSWERED_LIMIT times in a row.
SweepGivesUp(i) ==
    /\ Polls(i) /\ i \notin deaf
    /\ deaf' = deaf \union {i} /\ sweep' = Advance(Rest(i))
    /\ UNCHANGED <<item, order, projectHeld, unrunnable, run, drainer, wake,
                   merging, events, ruledDone>>

\* The poll answers.  The verdict is acted upon in a later step; an open pull
\* request waits.
SweepHears(i) ==
    /\ Polls(i) /\ i \notin deaf
    /\ \E w \in sweep.todo :
        /\ w[1] = i
        /\ sweep' = IF run[w[2]].pr = "open" THEN Advance(Rest(i))
                    ELSE [sweep EXCEPT !.at = "verdict", !.item = i,
                              !.verdict = run[w[2]].pr, !.todo = Rest(i)]
    /\ UNCHANGED <<boardVars, run, drainer, wake, merging, events, ruledDone>>

\* Mutant: the verdict is written whatever the row says.
WriteVerdict(i, row) == Update(i, row)

\* write_item_where(InReview)
WriteVerdictWhere(i, row) == UpdateWhere(i, "in_review", row)

\* patch_for
PatchFor(row, verdict) ==
    IF verdict = "merged" THEN [row EXCEPT !.status = "done"]
    ELSE [row EXCEPT !.status = "open", !.run = 0]

\* held_now decides only the wording and whether the drainer is nudged.
SweepWrites ==
    /\ sweep.at = "verdict"
    /\ WriteVerdictWhere(sweep.item, PatchFor(item[sweep.item], sweep.verdict))
    /\ sweep' = Advance(sweep.todo)
    /\ UNCHANGED <<order, projectHeld, unrunnable, run, drainer, wake, merging,
                   events, ruledDone>>

----------------------------------------------------------------------------
(* Commands                                                                *)

UserWrites(i, row) ==
    /\ Write(i, row)
    /\ UNCHANGED <<order, projectHeld, unrunnable, run, drainer, sweepVars,
                   merging>>

\* update_and_record with an expected status: the edits of status clients send.
Accept(i, queue) ==
    /\ MayAct("accept") /\ item[i].status = "proposed"
    /\ UserWrites(i, [item[i] EXCEPT
           !.status = IF queue /\ ~Gated(i) THEN "queued" ELSE "open"])
    /\ UNCHANGED ruledDone

Queue(i) ==
    /\ MayAct("queue") /\ item[i].status = "open"
    /\ UserWrites(i, [item[i] EXCEPT !.status = "queued"])
    /\ UNCHANGED ruledDone

\* Mutant: a client takes the row off the queue as it saw it.
UnqueueBlindly(i) == item[i].status \in {"queued", "active"}

\* The row a client takes off the queue must still say queued.
MayUnqueue(i) == item[i].status = "queued"

Unqueue(i) ==
    /\ MayAct("unqueue") /\ MayUnqueue(i)
    /\ UserWrites(i, [item[i] EXCEPT !.status = "open"])
    /\ UNCHANGED ruledDone

MarkDone(i) ==
    /\ MayAct("done") /\ item[i].status = "in_review"
    /\ UserWrites(i, [item[i] EXCEPT !.status = "done"])
    /\ ruledDone' = ruledDone \union {i}

\* update_and_record with new dependencies, or a PM proposal accepted.
EditDeps(i, new) ==
    /\ MayAct("deps") /\ i \in Known /\ new # item[i].deps
    /\ CheckEdit(i, new)
    /\ UserWrites(i, [item[i] EXCEPT !.deps = new])
    /\ UNCHANGED ruledDone

\* hand_off and reclaim
HandOff(i, agent) ==
    /\ MayAct("agent") /\ item[i].status \in {"proposed", "open"}
    /\ agent \/ item[i].agent
    /\ UserWrites(i, [item[i] EXCEPT !.agent = agent])
    /\ UNCHANGED ruledDone

\* hold_item and release_item
Hold(i, held) ==
    /\ MayAct("hold") /\ i \in Known /\ held # item[i].held
    /\ UserWrites(i, [item[i] EXCEPT !.held = held])
    /\ UNCHANGED ruledDone

\* reject_item, or a PM proposal to discard accepted.
Reject(i) ==
    /\ MayAct("reject") /\ item[i].status \in {"proposed", "open", "queued"}
    /\ UserWrites(i, [item[i] EXCEPT !.status = "rejected", !.held = FALSE,
                                     !.agent = FALSE])
    /\ UNCHANGED ruledDone

Reopen(i) ==
    /\ MayAct("reject") /\ item[i].status = "rejected"
    /\ UserWrites(i, [item[i] EXCEPT !.status = "open", !.held = FALSE])
    /\ UNCHANGED ruledDone

\* delete_item, of a row in any status.
Delete(i) ==
    /\ MayAct("delete") /\ i \in Known
    /\ UserWrites(i, [item[i] EXCEPT !.status = "deleted"])
    /\ UNCHANGED ruledDone

\* roadmap_set_rank
SetRank(i) ==
    /\ MayAct("rank") /\ i \in Known
    /\ \E q, p \in DOMAIN order :
          order[q] = i /\ order' = InsertAt(RemoveAt(order, q), p, i)
    /\ order' # order /\ deaf' = deaf \ {i}
    /\ UNCHANGED <<item, projectHeld, unrunnable, run, drainer, sweepVars,
                   merging, ruledDone>>

\* hold_project and release_project
HoldProject ==
    /\ MayAct("project") /\ projectHeld' = ~projectHeld
    /\ UNCHANGED <<item, order, unrunnable, deaf, run, drainer, sweepVars,
                   merging, ruledDone>>

\* A workflow definition is deleted or becomes invalid, or the user picks
\* another.
PickWorkflow(i) ==
    /\ MayAct("workflow")
    /\ unrunnable' = IF i \in unrunnable THEN unrunnable \ {i}
                     ELSE unrunnable \union {i}
    /\ UNCHANGED <<item, order, projectHeld, deaf, run, drainer, sweepVars,
                   merging, ruledDone>>

\* roadmap_merge_item_pr: the hold is checked, the pull request looked up, and
\* then the merge is awaited.
AskMerge(i) ==
    /\ MayAct("merge") /\ ~Gated(i) /\ i \in WatchList
    /\ merging' = merging \union {item[i].pr}
    /\ UNCHANGED <<boardVars, run, drainer, sweepVars, ruledDone>>

MergeReturns(r) ==
    /\ r \in merging /\ merging' = merging \ {r}
    /\ \/ run[r].pr = "open" /\ run' = [run EXCEPT ![r].pr = "merged"]
          /\ wake' = TRUE
       \/ UNCHANGED <<run, wake>>
    /\ UNCHANGED <<boardVars, drainer, sweep, events, ruledDone>>

----------------------------------------------------------------------------
(* The host                                                                *)

\* The host exits and starts again: a tick, a pass and a merge end where they
\* are, and the sweep begins with a pass.
Restart ==
    /\ Event
    /\ drainer' = Idle /\ sweep' = Resting /\ wake' = FALSE /\ deaf' = {}
    /\ merging' = {}
    /\ UNCHANGED <<item, order, projectHeld, unrunnable, run, ruledDone>>

----------------------------------------------------------------------------
(* Specification                                                           *)

Init ==
    /\ item \in Boards
    /\ \A i \in Items : ~FindCycle(Deps(item), i)
    /\ order \in [1..Cardinality(Items) -> Items] /\ ToSet(order) = Items
    /\ \A a, b \in DOMAIN order : a < b => order[a] < order[b]
    /\ projectHeld = FALSE /\ unrunnable = {} /\ deaf = {}
    /\ run = [r \in Runs |-> NoRun]
    /\ drainer = Idle /\ sweep = Resting /\ wake = FALSE /\ merging = {}
    /\ events = 0 /\ ruledDone = {}

Tick == \/ TickStarts \/ TickSettles \/ TickEnds
        \/ \E i \in Items : TickClaims(i)
        \/ LaunchReturns \/ TickStamps \/ LaunchFails

Sweep == \/ SweepStarts \/ SweepWrites
         \/ \E i \in Items : SweepPasses(i) \/ SweepGivesUp(i) \/ SweepHears(i)

User == \/ \E i \in Items : \/ \E b \in BOOLEAN : Accept(i, b) \/ HandOff(i, b)
                                                  \/ Hold(i, b)
                            \/ Queue(i) \/ Unqueue(i) \/ MarkDone(i)
                            \/ \E new \in SUBSET Items : EditDeps(i, new)
                            \/ Reject(i) \/ Reopen(i) \/ Delete(i) \/ SetRank(i)
                            \/ PickWorkflow(i) \/ AskMerge(i)
        \/ HoldProject

Next == \/ Tick \/ Sweep \/ User \/ Restart
        \/ \E r \in Runs : RunEnds(r) \/ RunDeleted(r) \/ PrMoves(r)
                           \/ MergeReturns(r)

Spec == Init /\ [][Next]_vars

\* Drainer and sweep are polled; their timers fire; a launch returns; a run
\* ends (RunEnds of WorkflowRun); and unanswered polls end in giving up.
Fairness ==
    /\ WF_vars(Tick) /\ WF_vars(Sweep)
    /\ \A i \in Items : SF_vars(SweepHears(i) \/ SweepGivesUp(i))
    /\ \A r \in Runs : WF_vars(RunEnds(r))

FairSpec == Spec /\ Fairness

----------------------------------------------------------------------------
(* Properties                                                              *)

\* The types of the board and of the tasks.  A row in the queue names no run.
TypeOK ==
    /\ item \in [Items -> Row]
    /\ \A i \in Items : item[i].status \in {"proposed", "open", "queued", "rejected"}
                            => item[i].run = 0
    /\ ToSet(order) = Items /\ Len(order) = Cardinality(Items)
    /\ projectHeld \in BOOLEAN /\ wake \in BOOLEAN
    /\ unrunnable \subseteq Items /\ deaf \subseteq Items
    /\ merging \subseteq Runs /\ ruledDone \subseteq Items
    /\ drainer.at \in {"idle", "settle", "claim", "launch", "stamp"}
    /\ drainer.left \in 0..Cap
    /\ sweep.at \in {"resting", "asleep", "polling", "verdict"}

\* A live run belongs to a row that is active and that names no other run (or
\* to a row that was deleted): no command, no settlement decided earlier and no
\* restart between claim and stamp leaves a run that nobody will settle.
LiveRunIsWatched ==
    \A r \in Live : LET row == item[run[r].item] IN
        \/ row.status = "deleted"
        \/ row.status = "active" /\ row.run \in {0, r}

\* Never more live runs than the cap, whatever was deleted, released or claimed
\* anew while they ran.
CapHolds == Cardinality(Live) <= Cap

\* Its last run ended without a pull request, or that was merged, or a user
\* said that it is done.
HasLanded(i) ==
    \/ i \in ruledDone
    \/ /\ item[i].run # 0 /\ run[item[i].run].state = "done"
       /\ run[item[i].run].pr \in {"none", "merged"}

\* What is done has landed, and stays: nothing but a delete takes an item out
\* of done, no verdict of the sweep and no settlement decided before.
DoneStands ==
    /\ [](\A i \in Items : item[i].status = "done" => HasLanded(i))
    /\ [][\A i \in Items : item[i].status = "done"
                              => item'[i].status \in {"done", "deleted"}]_vars

\* An item does not stay where something should move it on.  An active one is
\* settled, through its run's end or because the launch was lost; one in review
\* ships once its pull request is merged, unless the sweep gave up on it (in
\* particular the sweep is awake).
StagesEnd ==
    \A i \in Items :
        /\ item[i].status = "active" ~> item[i].status # "active"
        /\ (i \in WatchList /\ run[item[i].pr].pr = "merged")
              ~> (item[i].status # "in_review" \/ i \in deaf)

\* Mutually waiting rows would never be built: no sequence of edits, deletions
\* and rulings closes a loop.
NoLoop == \A i \in Items : ~FindCycle(Deps(item), i)

\* Why an item may stay in the queue by itself: a brake, an agent, no workflow.
Stopped(i) == projectHeld \/ item[i].held \/ item[i].agent \/ i \in unrunnable
              \/ item[i].status \notin {"queued", "active"}

\* No item waits for ever without a reason: there is no loop of dependencies,
\* and an item leaves the queue unless itself or something it waits on is
\* stopped, or one that cannot be run is picked before it.
QueuedMoves ==
    /\ []NoLoop
    /\ \A i \in Items :
        []<>(\/ item[i].status # "queued"
             \/ \E d \in Reach(Deps(item), i) \intersect Known :
                    ~Landed(d) /\ Stopped(d)
             \/ \E j \in Dispatchable : j \in unrunnable)
=============================================================================
