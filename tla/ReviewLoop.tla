----------------------------- MODULE ReviewLoop -----------------------------
(***************************************************************************)
(* The local review loop (review/engine.rs) of one checkout: a hidden      *)
(* reviewer reads the coder's code and reports; the code the last review   *)
(* read is compared with every later read, and an open pull request is     *)
(* reviewed again when the code has moved.                                 *)
(*                                                                         *)
(* The memory of the checkout is one record under a lock.  Starts (the     *)
(* user's, a pull request's, the driver's own, a queued one), the driver   *)
(* (one status event or one tick at a time), the reviewer's report and the *)
(* looks of clients all work on it, each with awaits in between: a step is *)
(* what runs between two awaits.  A look reads the code in one step and    *)
(* records what it saw in another.                                         *)
(*                                                                         *)
(* A reviewer is set up and the setting is on; no move between sandboxes   *)
(* has the checkout.  The threads themselves are not modelled: the phase   *)
(* "reviewed" stands for findings and clean, which the open threads tell   *)
(* apart.  Nor are notes.                                                  *)
(***************************************************************************)
EXTENDS FiniteSets, Naturals, Sequences

CONSTANTS
    Codes,            \* states of the code: a cheap signature and a digest each
    Tasks,            \* bound: starts under way at once
    MaxRounds,        \* MAX_ROUNDS_PER_PR
    MaxActs,          \* bound: changes of the code, turns of the coder and
                      \* delegations
    MaxStarts,        \* bound: starts asked for by the user or by a PR
    Troubles,         \* what may go wrong: see Trouble
    MaxTroubles,      \* bound: troubles in a behaviour
    WallClock         \* whether a turn may exceed WALL_TIMEOUT_MS

ASSUME ReviewLoopAssumption ==
    /\ Codes # {}
    /\ \A c \in Codes : /\ c = [cheap |-> c.cheap, content |-> c.content]
                        /\ c.cheap \in Nat \ {0}
                        /\ c.content \notin {"none", "unverified", "skipped"}
    /\ Tasks \subseteq Nat
    /\ MaxRounds \in Nat \ {0}
    /\ {MaxActs, MaxStarts, MaxTroubles} \subseteq Nat
    /\ Troubles \subseteq {"fault", "look", "stop", "lag", "restart", "gone", "asleep"}
    /\ WallClock \in BOOLEAN

VARIABLES
    code,     \* the code in the checkout
    pr,       \* its pull request: "none" or "open"
    t,        \* the checkout's review memory (Tracked)
    saved,    \* its row of review_state
    task,     \* starts under way
    driver,   \* the driver
    client,   \* a client's look under way
    report,   \* a report whose look is under way
    stopper,  \* a stop under way: "rest", "interrupt" or "clear"
    events,   \* status events the driver has not taken
    coder,    \* the coder: "idle", "running" or "gone"
    deleg,    \* whether a delegation is live on the checkout
    reviewer, \* the reviewer agent
    used,     \* what of the bounds is used up
    credited, \* observer: every report came from a turn of the round it ended
    tried,    \* observer: the code of the last automatic round, until a read
              \* has shown another
    autos     \* observer: the automatic rounds the pull request has had

world == <<code, pr, coder, deleg>>
observers == <<credited, tried, autos>>
vars == <<world, t, saved, task, driver, client, report, stopper, events, reviewer,
          used, observers>>

----------------------------------------------------------------------------
(* Reads of the code                                                       *)

None == [cheap |-> 0, content |-> "none"]
Unverified == {[c EXCEPT !.content = "unverified"] : c \in Codes}
Skipped == {[c EXCEPT !.content = "skipped"] : c \in Codes}

\* identity(read, stored), with reasons left out.
Identity(read, stored) ==
    CASE read.cheap # stored.cheap -> "different"
      [] read.cheap = stored.cheap /\ read.content = "skipped" -> "unknown"
      [] OTHER -> IF read.content = stored.content THEN "same" ELSE "different"

\* CodeRead::state.
State(read) == IF read.content = "skipped" THEN None ELSE read

NotScanned == [kind |-> "unscanned", read |-> None]
Unreadable == [kind |-> "unreadable", read |-> None]
Read(content) == [kind |-> "read", read |-> [code EXCEPT !.content = content]]

DigestNeeded(full, reviewed) == full \/ reviewed.cheap = code.cheap

Used(what) == used' = [used EXCEPT ![what] = @ + 1]

\* A read, a spawn or a send that fails; a look by a client beside everything
\* else; a stop by the user; a status stream that lags; a restart of the host;
\* the coder archived; a box asleep when its checkout is polled.
MayHappen(trouble) == trouble \in Troubles /\ used.troubles < MaxTroubles
Trouble(trouble) == MayHappen(trouble) /\ Used("troubles")

\* sight: what a read of the code may show.  The status or the digest may fail.
SightsNow(full) ==
    LET needed == DigestNeeded(full, t.reviewed) IN
    {Read(IF needed THEN code.content ELSE "skipped")} \union
    (IF ~MayHappen("fault") THEN {}
     ELSE {Unreadable} \union (IF needed THEN {Read("unverified")} ELSE {}))

Failed(s) == IF s.kind = "unreadable" \/ s.read.content = "unverified" THEN 1 ELSE 0
Saw(s) == used' = [used EXCEPT !.troubles = @ + Failed(s)]

----------------------------------------------------------------------------
(* The memory of a checkout                                                *)

NoFailure == [origin |-> "none", code |-> None]
NoFlight == [open |-> FALSE, named |-> FALSE, submitted |-> FALSE, saw |-> FALSE]

Fresh == [exists |-> TRUE, reviewer |-> FALSE, round |-> 0, prNumber |-> 0,
          prRounds |-> 0, reviewed |-> None, roundCode |-> None,
          failure |-> NoFailure, lastRead |-> None, phase |-> "idle",
          pending |-> "none", flight |-> NoFlight, starting |-> FALSE,
          rescan |-> FALSE]
Untracked == [Fresh EXCEPT !.exists = FALSE]

\* update creates the entry on first touch.
Touched == [t EXCEPT !.exists = TRUE]

InRound(x) == x.flight.open \/ x.starting

Stale(x) == IF x.lastRead = None THEN x.phase = "stale"
            ELSE Identity(x.lastRead, x.reviewed) # "same"

Derive(x) ==
    CASE InRound(x) -> "reviewing"
      [] ~InRound(x) /\ x.pending # "none" -> "queued"
      [] OTHER -> CASE x.failure.origin = "scan" -> "stale"
                    [] x.failure.origin \notin {"scan", "none"} -> "failed"
                    [] OTHER -> IF x.reviewed = None THEN "idle"
                                ELSE IF Stale(x) THEN "stale" ELSE "reviewed"

RecordFailure(x, origin, failed) ==
    LET y == [x EXCEPT !.failure = [origin |-> origin, code |-> failed]]
    IN  IF origin = "scan" THEN y
        ELSE [y EXCEPT !.flight = NoFlight, !.starting = FALSE]

RoundFailed(x) == RecordFailure(x, "round", x.roundCode)

\* A scan failure lasts until the code is shown to be another state.
Cleared(x, read) ==
    IF /\ x.failure.origin = "scan"
       /\ x.failure.code = None \/ Identity(read, x.failure.code) = "different"
    THEN [x EXCEPT !.failure = NoFailure] ELSE x

\* Mutant: a read that skipped its digest says nothing.
SkippedSaysNothing(x, s) ==
    IF s.kind # "read" \/ s.read.content = "skipped" THEN [x EXCEPT !.rescan = FALSE]
    ELSE [x EXCEPT !.rescan = FALSE, !.lastRead = s.read]

RecordSighting(x, s) ==
    CASE s.kind = "unscanned" -> x
      [] s.kind = "unreadable" -> [x EXCEPT !.rescan = FALSE]
      [] OTHER ->
           LET y == [x EXCEPT !.rescan = FALSE]
               z == IF s.read.content = "unverified"
                    THEN RecordFailure(y, "scan", s.read) ELSE Cleared(y, s.read)
           IN  [z EXCEPT !.lastRead = s.read]

\* Mutant: the failed state is tried again.
GateForgetsFailure(x) ==
    IF x.lastRead = None \/ Identity(x.lastRead, x.reviewed) = "same"
    THEN "block" ELSE "allow"

\* automatic_review: one attempt per code state.
AutomaticReview(x) ==
    IF \/ x.lastRead = None
       \/ IF x.reviewed = None THEN x.failure = NoFailure
          ELSE Identity(x.lastRead, x.reviewed) = "same"
    THEN "block"
    ELSE IF x.failure.code = None THEN "allow"
    ELSE CASE Identity(x.lastRead, x.failure.code) = "same" -> "block"
           [] Identity(x.lastRead, x.failure.code) = "different" -> "allow"
           [] OTHER -> "read"

PrNumber == IF pr = "none" THEN 0 ELSE 1

\* Mutant: one automatic round too many.
OneMoreLeft(x) == x.prNumber # PrNumber \/ x.prRounds <= MaxRounds

AutoBudgetLeft(x) == x.prNumber # PrNumber \/ x.prRounds < MaxRounds

\* begin: the round opens on what was just read.
Begun(x, trigger, read) ==
    LET rounds == (IF x.prNumber = PrNumber THEN x.prRounds ELSE 0)
                  + (IF trigger = "re-review" THEN 1 ELSE 0)
    IN  [x EXCEPT !.starting = FALSE, !.prNumber = PrNumber, !.prRounds = rounds,
                  !.round = @ + 1, !.failure = NoFailure, !.roundCode = read,
                  !.flight = [NoFlight EXCEPT !.open = TRUE, !.named = x.reviewer]]

\* turn_ended: without a report that is a failure.
TurnEnded(x) ==
    IF ~x.flight.open THEN x
    ELSE IF x.flight.submitted THEN [x EXCEPT !.flight = NoFlight]
    ELSE RoundFailed(x)

\* loaded: the row as a restart finds it.
Loaded(x) ==
    IF ~x.exists THEN Untracked
    ELSE LET y == [x EXCEPT !.rescan = TRUE]
         IN  IF x.phase = "reviewing" THEN RecordFailure(y, "restart", x.roundCode)
             ELSE y

\* look, without its read: derive the phase and persist the memory.
Settle(x) ==
    IF x.exists
    THEN /\ t' = [x EXCEPT !.phase = Derive(x)]
         /\ saved' = [t' EXCEPT !.flight = NoFlight, !.starting = FALSE,
                                !.rescan = FALSE]
    ELSE t' = x /\ UNCHANGED saved

\* What a recorded sighting does to the observer of automatic rounds.
Shown(s) ==
    tried' = IF s.kind = "read" /\ t.exists /\ Identity(s.read, tried) = "different"
             THEN None ELSE tried

----------------------------------------------------------------------------
(* Starts and rounds                                                       *)

Free == [at |-> "none", trigger |-> "none", before |-> "none", sight |-> NotScanned,
         round |-> 0]
Claimed(trigger, before) ==
    [Free EXCEPT !.at = "look", !.trigger = trigger, !.before = before]

CoderIdle == coder # "running" /\ ~deleg

\* start, up to its claim: nothing while one is queued, refused while a round
\* holds the checkout, queued while the coder has it.
Start(k, trigger) ==
    IF coder = "gone" \/ InRound(t) \/ t.pending # "none"
    THEN /\ task' = [task EXCEPT ![k] = Free]
         /\ Settle(t)
    ELSE IF CoderIdle
    THEN /\ task' = [task EXCEPT ![k] = Claimed(trigger, "start")]
         /\ Settle([Touched EXCEPT !.starting = TRUE])
    ELSE /\ task' = [task EXCEPT ![k] = Free]
         /\ Settle([Touched EXCEPT !.pending = trigger])

\* drain: the queued start, claimed once the coder is free.  Gives the memory
\* and the tasks that follow from x.
Drains(x) == /\ x.exists /\ CoderIdle /\ x.pending # "none" /\ ~InRound(x)
             /\ \E k \in Tasks : task[k].at = "none"
Drained(x) ==
    IF Drains(x) THEN [x EXCEPT !.starting = TRUE, !.pending = "none"] ELSE x
DrainTasks(x) ==
    LET k == CHOOSE k \in Tasks : task[k].at = "none"
    IN  IF Drains(x) THEN [task EXCEPT ![k] = Claimed(x.pending, "queued")] ELSE task

UserStarts(k) ==
    /\ task[k].at = "none" /\ coder # "gone"
    /\ used.starts < MaxStarts /\ Used("starts")
    /\ Start(k, "manual")
    /\ UNCHANGED <<world, driver, client, report, stopper, events, reviewer,
                   observers>>

\* The pull request opens, or is seen open again; on_pr_opened reads the code
\* of a checkout that was reviewed before.
PrOpens(k) ==
    /\ task[k].at = "none" /\ coder # "gone" /\ used.starts < MaxStarts
    /\ pr' = "open"
    /\ IF InRound(t) \/ (pr = "open" /\ t.round > 0 /\ t.prNumber = 1)
       THEN Used("starts") /\ UNCHANGED <<t, saved, task>>
       ELSE IF t.reviewed = None
       THEN Used("starts") /\ Start(k, "pr-open")
       ELSE \E s \in SightsNow(FALSE) :
               /\ used' = [used EXCEPT !.starts = @ + 1,
                                       !.troubles = @ + Failed(s)]
               /\ task' = [task EXCEPT ![k].at = "pr", ![k].sight = s]
               /\ UNCHANGED <<t, saved>>
    /\ UNCHANGED <<code, coder, deleg, driver, client, report, stopper, events,
                   reviewer, observers>>

PrLooked(k) ==
    LET x == IF t.exists THEN RecordSighting(t, task[k].sight) ELSE t
        current == /\ x.lastRead # None /\ x.reviewed # None
                   /\ Identity(x.lastRead, x.reviewed) = "same"
    IN
    /\ task[k].at = "pr"
    /\ Settle(x)
    /\ task' = [task EXCEPT ![k] = IF current THEN Free
                                   ELSE [Free EXCEPT !.at = "start",
                                                     !.trigger = "pr-open"]]
    /\ Shown(task[k].sight)
    /\ UNCHANGED <<world, driver, client, report, stopper, events, reviewer, used,
                   credited, autos>>

StartRuns(k) ==
    /\ task[k].at = "start"
    /\ Start(k, task[k].trigger)
    /\ UNCHANGED <<world, driver, client, report, stopper, events, reviewer, used,
                   observers>>

\* begin_round reads the code.
RoundLooks(k) ==
    /\ task[k].at = "look"
    /\ \E s \in SightsNow(TRUE) :
          /\ Saw(s)
          /\ task' = [task EXCEPT ![k].at = "begin", ![k].sight = s]
    /\ UNCHANGED <<world, t, saved, driver, client, report, stopper, events,
                   reviewer, observers>>

\* A start that fails records what it failed on; begin refuses a second flight.
RoundBegins(k) ==
    LET s == task[k].sight
        x == RecordSighting(t, s)
        ok == /\ t.exists /\ coder # "gone" /\ s.kind = "read"
              /\ s.read.content # "unverified" /\ ~x.flight.open
        failed == IF s.kind = "read" THEN State(s.read) ELSE None
    IN
    /\ task[k].at = "begin"
    /\ IF ok
       THEN /\ Settle(Begun(x, task[k].trigger, s.read))
            /\ task' = [task EXCEPT ![k].at = "ensure", ![k].sight = NotScanned,
                                    ![k].round = t.round + 1]
            /\ IF task[k].trigger = "re-review"
               THEN tried' = s.read /\ autos' = autos + 1
               ELSE Shown(s) /\ UNCHANGED autos
       ELSE /\ Settle(IF t.exists THEN RecordFailure(x, task[k].before, failed) ELSE t)
            /\ task' = [task EXCEPT ![k] = Free]
            /\ Shown(s) /\ UNCHANGED autos
    /\ UNCHANGED <<world, driver, client, report, stopper, events, reviewer, used,
                   credited>>

\* A round that began and could not be delivered.
RoundFails(k) ==
    /\ task' = [task EXCEPT ![k] = Free]
    /\ Settle(IF t.exists THEN RoundFailed(t) ELSE t)
    /\ UNCHANGED <<events, reviewer>>

\* ensure_reviewer: the reviewer is resumed or spawned, and named.
RoundEnsures(k) ==
    /\ task[k].at = "ensure"
    /\ \/ ~t.exists /\ RoundFails(k) /\ UNCHANGED used
       \/ Trouble("fault") /\ RoundFails(k)
       \/ /\ reviewer' = [reviewer EXCEPT !.status = IF @ = "down" THEN "idle" ELSE @]
          /\ events' = IF reviewer.status = "down"
                       THEN Append(events, <<"reviewer", "idle">>) ELSE events
          /\ t' = [Touched EXCEPT !.reviewer = TRUE, !.flight.named = t.flight.open]
          /\ task' = [task EXCEPT ![k].at = "send"]
          /\ UNCHANGED <<saved, used>>
    /\ UNCHANGED <<world, driver, client, report, stopper, observers>>

\* send_user_message: the prompt opens a turn, or waits behind or joins the
\* one that runs.
RoundSends(k) ==
    /\ task[k].at = "send"
    /\ \/ reviewer.status = "down" /\ RoundFails(k) /\ UNCHANGED used
       \/ Trouble("fault") /\ RoundFails(k)
       \/ /\ task' = [task EXCEPT ![k] = Free]
          /\ Settle(t)
          /\ UNCHANGED used
          /\ \/ /\ reviewer.status = "idle"
                /\ reviewer' = [status |-> "running", inbox |-> {},
                                turn |-> reviewer.inbox \union {task[k].round},
                                interrupted |-> FALSE]
                /\ events' = Append(events, <<"reviewer", "running">>)
             \/ /\ reviewer.status = "running" /\ UNCHANGED events
                /\ \/ reviewer' = [reviewer EXCEPT !.inbox = @ \union {task[k].round}]
                   \/ reviewer' = [reviewer EXCEPT !.turn = @ \union {task[k].round}]
    /\ UNCHANGED <<world, driver, client, report, stopper, observers>>

----------------------------------------------------------------------------
(* The driver                                                              *)

Resting == [at |-> "rest", sight |-> NotScanned]

\* Mutant: any idle ends the turn in flight.
OnAnyIdle(x, status) ==
    CASE status = "running" -> [x EXCEPT !.flight.saw = TRUE]
      [] status = "idle" -> TurnEnded(x)
      [] OTHER -> RoundFailed(x)

\* on_status for the reviewer in flight: an idle that no running went before
\* (a spawn, an earlier turn's end) is not the end of the turn.
OnReviewerStatus(x, status) ==
    CASE status = "running" -> [x EXCEPT !.flight.saw = TRUE]
      [] status = "idle" -> IF x.flight.saw THEN TurnEnded(x) ELSE x
      [] OTHER -> RoundFailed(x)

\* What a look of the driver reads, until it is recorded.
DriverReads(at, full) ==
    \E s \in SightsNow(full) : Saw(s) /\ driver' = [at |-> at, sight |-> s]

\* One status event.  A coder that settled has its checkout scanned.
DriverHears ==
    LET who == Head(events)[1]
        status == Head(events)[2]
    IN
    /\ driver.at = "rest" /\ events # <<>>
    /\ events' = Tail(events)
    /\ IF who = "coder"
       THEN /\ IF t.exists THEN DriverReads("scanned", FALSE)
                           ELSE UNCHANGED <<driver, used>>
            /\ UNCHANGED <<t, saved>>
       ELSE /\ UNCHANGED <<driver, used>>
            /\ IF ~t.flight.named THEN UNCHANGED <<t, saved>>
               ELSE LET x == OnReviewerStatus(t, status)
                    IN  IF x.flight.open THEN t' = x /\ UNCHANGED saved
                                         ELSE Settle(x)
    /\ UNCHANGED <<world, task, client, report, stopper, reviewer, observers>>

\* resync: the stream lagged, and the reviewer's status is read instead.
DriverResyncs ==
    LET ended == (t.flight.submitted \/ t.flight.saw) /\ reviewer.status = "idle" IN
    /\ driver.at = "rest" /\ events # <<>>
    /\ Trouble("lag")
    /\ events' = <<>>
    /\ IF ~t.flight.named THEN UNCHANGED <<t, saved>>
       ELSE IF ended THEN Settle(TurnEnded(t))
       ELSE IF reviewer.status = "down" THEN Settle(RoundFailed(t))
       ELSE UNCHANGED <<t, saved>>
    /\ UNCHANGED <<world, task, driver, client, report, stopper, reviewer,
                   observers>>

\* The scan is recorded, and a start queued behind the coder's turn runs.
DriverScanned ==
    LET x == IF t.exists THEN RecordSighting(t, driver.sight) ELSE t IN
    /\ driver.at = "scanned"
    /\ Settle(Drained(x))
    /\ task' = DrainTasks(x)
    /\ driver' = Resting
    /\ Shown(driver.sight)
    /\ UNCHANGED <<world, client, report, stopper, events, reviewer, used, credited,
                   autos>>

\* A prompt on its way has not reached the reviewer: the twenty minutes are
\* longer than a spawn.
Delivered == \A k \in Tasks : task[k].at \notin {"ensure", "send"}

Interrupt == reviewer' = [reviewer EXCEPT !.interrupted = @ \/ reviewer.status = "running"]

\* The wall clock: a reported turn is over, another has failed.
Expired(x) == IF x.flight.submitted THEN TurnEnded(x) ELSE RoundFailed(x)

\* poll_unless_asleep: the tick wakes no box, and one asleep is not read.
DriverPolls ==
    \/ DriverReads("polled", FALSE)
    \/ Trouble("asleep") /\ driver' = [at |-> "polled", sight |-> NotScanned]

\* Mutant: the tick leaves queued starts to the status events.
TickWithoutDrain(x) ==
    /\ driver.at = "rest" /\ t.exists
    /\ \/ /\ ~InRound(x) /\ DriverPolls
          /\ t' = x /\ UNCHANGED saved
       \/ /\ InRound(x) \/ ~(x.rescan \/ pr = "open")
          /\ Settle(x) /\ UNCHANGED <<driver, used>>
    /\ UNCHANGED task

\* A tick: the wall clock, the queued start, then a look at the code when the
\* pull request is open, after a restart, or while the coder was active.
TickStarts(x) ==
    /\ driver.at = "rest" /\ t.exists
    /\ LET y == Drained(x) IN
       /\ task' = DrainTasks(x)
       /\ \/ /\ ~InRound(y) /\ DriverPolls
             /\ t' = y /\ UNCHANGED saved
          \/ /\ InRound(y) \/ ~(y.rescan \/ pr = "open")
             /\ Settle(y) /\ UNCHANGED <<driver, used>>

DriverTicks ==
    /\ TickStarts(t)
    /\ UNCHANGED <<world, client, report, stopper, events, reviewer, observers>>

TickTimesOut ==
    /\ WallClock /\ t.flight.open /\ Delivered
    /\ TickStarts(Expired(t))
    /\ IF t.flight.named /\ ~t.flight.submitted THEN Interrupt ELSE UNCHANGED reviewer
    /\ UNCHANGED <<world, client, report, stopper, events, observers>>

TickReadsFull ==
    /\ driver.at = "full"
    /\ DriverReads("gated", TRUE)
    /\ UNCHANGED <<world, t, saved, task, client, report, stopper, events, reviewer,
                   observers>>

\* The automatic re-review of an open pull request.  A start it spawned runs
\* before the next tick.
TickGates ==
    LET x == IF t.exists THEN RecordSighting(t, driver.sight) ELSE t
        wants == /\ x.exists /\ pr = "open" /\ ~InRound(x) /\ x.pending = "none"
                 /\ CoderIdle /\ coder # "gone"
                 /\ \A k \in Tasks : task[k].at # "start"
        gate == AutomaticReview(x)
    IN
    /\ driver.at \in {"polled", "gated"}
    /\ Settle(x)
    /\ Shown(driver.sight)
    /\ IF wants /\ gate = "read" /\ driver.at = "polled"
       THEN driver' = [Resting EXCEPT !.at = "full"] /\ UNCHANGED task
       ELSE /\ driver' = Resting
            /\ IF wants /\ gate = "allow" /\ AutoBudgetLeft(x)
               THEN \E k \in Tasks :
                       /\ task[k].at = "none"
                       /\ \A j \in Tasks : j < k => task[j].at # "none"
                       /\ task' = [task EXCEPT ![k] = [Free EXCEPT !.at = "start",
                                                         !.trigger = "re-review"]]
               ELSE UNCHANGED task
    /\ UNCHANGED <<world, client, report, stopper, events, reviewer, used, credited,
                   autos>>

----------------------------------------------------------------------------
(* Reports, stops and clients                                              *)

\* review_submit, from the turn that runs: once per flight.
ReviewerSubmits ==
    /\ reviewer.status = "running" /\ report.at = "none"
    /\ t.flight.named /\ ~t.flight.submitted
    /\ t' = [t EXCEPT !.flight.submitted = TRUE, !.reviewed = t.roundCode]
    /\ report' = [report EXCEPT !.at = "look"]
    /\ credited' = (credited /\ t.round \in reviewer.turn)
    /\ UNCHANGED <<world, saved, task, driver, client, stopper, events, reviewer,
                   used, tried, autos>>

ReportLooks ==
    /\ report.at = "look"
    /\ \E s \in SightsNow(TRUE) :
          /\ Saw(s)
          /\ report' = [at |-> "seen", sight |-> s]
    /\ UNCHANGED <<world, t, saved, task, driver, client, stopper, events, reviewer,
                   observers>>

ReportLooked ==
    /\ report.at = "seen"
    /\ Settle(IF t.exists THEN RecordSighting(t, report.sight) ELSE t)
    /\ Shown(report.sight)
    /\ report' = [at |-> "none", sight |-> NotScanned]
    /\ UNCHANGED <<world, task, driver, client, stopper, events, reviewer, used,
                   credited, autos>>

\* stop reads the turn in flight and the queued start, interrupts the reviewer
\* it read, and then ends whatever round the checkout has by then.
UserStops ==
    /\ stopper = "rest" /\ coder # "gone" /\ Trouble("stop")
    /\ t.flight.open \/ t.pending # "none"
    /\ stopper' = IF t.flight.named THEN "interrupt" ELSE "clear"
    /\ UNCHANGED <<world, t, saved, task, driver, client, report, events, reviewer,
                   observers>>

StopInterrupts ==
    /\ stopper = "interrupt" /\ stopper' = "clear"
    /\ Interrupt
    /\ UNCHANGED <<world, t, saved, task, driver, client, report, events, used,
                   observers>>

StopClears ==
    /\ stopper = "clear" /\ stopper' = "rest"
    /\ Settle([Touched EXCEPT !.flight = NoFlight, !.pending = "none"])
    /\ UNCHANGED <<world, task, driver, client, report, events, reviewer, used,
                   observers>>

\* get: a client's look, beside everything else.
ClientLooks ==
    /\ client.at = "none" /\ t.exists /\ coder # "gone"
    /\ Trouble("look")
    /\ \E s \in SightsNow(FALSE) : client' = [at |-> "seen", sight |-> s]
    /\ UNCHANGED <<world, t, saved, task, driver, report, stopper, events, reviewer,
                   observers>>

ClientLooked ==
    /\ client.at = "seen"
    /\ Settle(IF t.exists THEN RecordSighting(t, client.sight) ELSE t)
    /\ Shown(client.sight)
    /\ client' = [at |-> "none", sight |-> NotScanned]
    /\ UNCHANGED <<world, task, driver, report, stopper, events, reviewer, used,
                   credited, autos>>

----------------------------------------------------------------------------
(* The reviewer, the coder and the host                                    *)

\* The reviewer's turn ends; what it holds goes out unless it was interrupted.
ReviewerTurnEnds(status) ==
    LET next == reviewer.inbox # {} /\ ~reviewer.interrupted IN
    /\ reviewer.status = "running"
    /\ reviewer' = [status |-> IF next THEN "running" ELSE "idle",
                    turn |-> IF next THEN reviewer.inbox ELSE {},
                    inbox |-> IF next THEN {} ELSE reviewer.inbox,
                    interrupted |-> FALSE]
    /\ events' = events \o <<<<"reviewer", status>>>>
                        \o (IF next THEN <<<<"reviewer", "running">>>> ELSE <<>>)
    /\ UNCHANGED <<world, t, saved, task, driver, client, report, stopper, used,
                   observers>>

CodeMoves ==
    /\ coder # "gone" /\ used.acts < MaxActs /\ Used("acts")
    /\ code' \in Codes \ {code}
    /\ UNCHANGED <<pr, coder, deleg, t, saved, task, driver, client, report, stopper,
                   events, reviewer, observers>>

CoderTurnStarts ==
    /\ coder = "idle" /\ used.acts < MaxActs /\ Used("acts")
    /\ coder' = "running"
    /\ UNCHANGED <<code, pr, deleg, t, saved, task, driver, client, report, stopper,
                   events, reviewer, observers>>

CoderTurnEnds ==
    /\ coder = "running" /\ coder' = "idle"
    /\ events' = Append(events, <<"coder", "idle">>)
    /\ UNCHANGED <<code, pr, deleg, t, saved, task, driver, client, report, stopper,
                   reviewer, used, observers>>

\* record_unless_reviewed, under the admission lock; a delegation behind a
\* running turn is recorded too.
DelegationAdmitted ==
    /\ coder # "gone" /\ ~deleg /\ ~InRound(t)
    /\ used.acts < MaxActs /\ Used("acts")
    /\ deleg' = TRUE
    /\ UNCHANGED <<code, pr, coder, t, saved, task, driver, client, report, stopper,
                   events, reviewer, observers>>

DelegationEnds ==
    /\ deleg /\ deleg' = FALSE
    /\ UNCHANGED <<code, pr, coder, t, saved, task, driver, client, report, stopper,
                   events, reviewer, used, observers>>

\* on_coder_gone: the memory and the reviewer go with the coder.
CoderGoes ==
    /\ coder = "idle" /\ Trouble("gone")
    /\ coder' = "gone" /\ deleg' = FALSE
    /\ t' = Untracked /\ saved' = Untracked
    /\ reviewer' = [status |-> "down", inbox |-> {}, turn |-> {}, interrupted |-> FALSE]
    /\ UNCHANGED <<code, pr, task, driver, client, report, stopper, events,
                   observers>>

NoLook == [at |-> "none", sight |-> NotScanned]

\* The host goes down and comes back: no turn, start or delegation survives.
Restart ==
    /\ Trouble("restart")
    /\ t' = Loaded(saved)
    /\ task' = [k \in Tasks |-> Free]
    /\ driver' = Resting /\ client' = NoLook /\ report' = NoLook
    /\ stopper' = "rest"
    /\ events' = <<>>
    /\ coder' = (IF coder = "gone" THEN "gone" ELSE "idle") /\ deleg' = FALSE
    /\ reviewer' = [status |-> "down", inbox |-> {}, turn |-> {}, interrupted |-> FALSE]
    /\ UNCHANGED <<code, pr, saved, observers>>

----------------------------------------------------------------------------
Init ==
    /\ code = CHOOSE c \in Codes : TRUE
    /\ pr = "none" /\ t = Untracked /\ saved = Untracked
    /\ task = [k \in Tasks |-> Free]
    /\ driver = Resting /\ client = NoLook /\ report = NoLook
    /\ stopper = "rest"
    /\ events = <<>> /\ coder = "idle" /\ deleg = FALSE
    /\ reviewer = [status |-> "down", inbox |-> {}, turn |-> {}, interrupted |-> FALSE]
    /\ used = [acts |-> 0, starts |-> 0, troubles |-> 0]
    /\ credited = TRUE /\ tried = None /\ autos = 0

DriverStep ==
    \/ DriverHears \/ DriverResyncs \/ DriverScanned
    \/ DriverTicks \/ TickTimesOut \/ TickReadsFull \/ TickGates

TaskStep(k) ==
    \/ PrLooked(k) \/ StartRuns(k)
    \/ RoundLooks(k) \/ RoundBegins(k) \/ RoundEnsures(k) \/ RoundSends(k)

Next ==
    \/ DriverStep
    \/ \E k \in Tasks : TaskStep(k) \/ UserStarts(k) \/ PrOpens(k)
    \/ ReviewerSubmits \/ ReportLooks \/ ReportLooked
    \/ UserStops \/ StopInterrupts \/ StopClears \/ ClientLooks \/ ClientLooked
    \/ (\E status \in {"idle", "error"} : ReviewerTurnEnds(status))
    \/ CodeMoves \/ CoderTurnStarts \/ CoderTurnEnds
    \/ DelegationAdmitted \/ DelegationEnds \/ CoderGoes \/ Restart

Spec == Init /\ [][Next]_vars

\* The driver finishes what it began and takes events and ticks in turn (its
\* select! prefers neither), the clock passes the twenty minutes, and starts,
\* reports, turns of the coder and delegations, of which there are finitely
\* many, end.  Nothing is assumed of the reviewer.
TickIsDue == pr = "open" \/ t.rescan \/ t.pending # "none"

Fairness ==
    /\ WF_vars(DriverScanned \/ TickReadsFull \/ TickGates)
    /\ WF_vars(\/ \E k \in Tasks : TaskStep(k)
               \/ ReportLooks \/ ReportLooked \/ ClientLooked
               \/ StopInterrupts \/ StopClears
               \/ CoderTurnEnds \/ DelegationEnds)
    /\ SF_vars(DriverHears)
    /\ SF_vars(TickIsDue /\ DriverTicks) /\ SF_vars(TickTimesOut)

FairSpec == Spec /\ Fairness

----------------------------------------------------------------------------
(* Properties                                                              *)

\* The type of the memory: a stored state is never a read that skipped its
\* digest, and what is persisted has neither flight nor claim.
TypeOK ==
    /\ code \in Codes /\ pr \in {"none", "open"}
    /\ \A x \in {t, saved} :
          /\ x.reviewed \in Codes \union {None}
          /\ x.roundCode \in Codes \union {None}
          /\ x.failure.code \in Codes \union Unverified \union {None}
          /\ x.lastRead \in Codes \union Unverified \union Skipped \union {None}
          /\ x.prRounds \in Nat /\ x.round \in Nat
          /\ x.flight.submitted \/ x.flight.saw => x.flight.named
          /\ x.flight.named => x.flight.open
    /\ ~InRound(saved)

Working == {k \in Tasks : task[k].at \in {"look", "begin", "ensure", "send"}}

\* One round at a time: the start that runs holds the claim, or the flight it
\* opened, until its prompt is out (claim_if_free, claim_pending); and no round
\* has the checkout together with a delegation (the admission lock of
\* claim_if_free and record_unless_reviewed).
OneRound ==
    /\ ~(InRound(t) /\ deleg)
    /\ coder # "gone" =>
       \A k \in Working :
          /\ Working = {k}
          /\ task[k].at \in {"look", "begin"} => t.starting /\ ~t.flight.open
          /\ task[k].at \in {"ensure", "send"} =>
                t.flight.open /\ t.round = task[k].round

\* The code a report marks as reviewed is the code of the round whose prompt the
\* reporting turn answers: "The code the reviewer read was recorded when the
\* round began" (submit).
ReportIsOfItsRound == credited

\* "Automatic re-reviews one PR gets" (MAX_ROUNDS_PER_PR): the budget is read at
\* the gate and charged when the round begins, which is awaits later and, for a
\* start queued behind the coder's turn, after other rounds and failures.  A stop
\* leaves the start of the round it cleared under way; where that start then fails,
\* it ends the claim of the next one, and two allowed rounds begin.
AutoWithinBudget == autos <= MaxRounds

\* The automatic re-review allows one attempt per code state: a second one
\* begins only after a read has shown another state, across failures, restarts
\* and queued starts.
AutoOncePerCode ==
    [][\A k \in Tasks :
          /\ task[k].at = "begin" /\ task'[k].at = "ensure"
          /\ task[k].trigger = "re-review"
          => task[k].sight.read # tried]_vars

\* Every round ends, whatever became of its reviewer and its events (the wall
\* clock; every failure ends the claim), and a queued start runs, is cancelled
\* or goes with its coder (the tick takes it when no status event will).
RoundsEnd ==
    /\ InRound(t) ~> ~InRound(t)
    /\ t.pending # "none" ~> t.pending = "none"

\* Once the code rests, an open pull request does not stay reviewed on code
\* that no review has read, whatever order its looks were recorded in.
SettlesOnTruth ==
    <>[](t.exists /\ pr = "open" /\ t.phase = "reviewed" => t.reviewed = code)

\* Where the phase is judged on the code, the last read tells whether it is the
\* reviewed code: "against the reviewed state `Unknown` cannot arise" (derive).
UnknownCannotArise ==
    t.reviewed # None /\ ~InRound(t) /\ t.pending = "none" /\ t.failure = NoFailure =>
       Identity(t.lastRead, t.reviewed) # "unknown"
=============================================================================
