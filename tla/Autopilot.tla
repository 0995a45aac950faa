------------------------------ MODULE Autopilot ------------------------------
(***************************************************************************)
(* Autopilot (autopilot/step.rs, driver.rs, mod.rs, store.rs): the loop    *)
(* that nurses the open pull requests of one agent's checkouts.            *)
(*                                                                         *)
(* Three parties run concurrently: the driver's pass, which reads the      *)
(* switches, walks the checkouts and awaits git, GitHub and the agent in   *)
(* between; a client's autopilot_set; and the verification tasks a pass    *)
(* leaves behind.  A step of the model is what runs between two awaits or  *)
(* two lock acquisitions.  The agent, its delegations and local reviews    *)
(* are the environment, as the driver sees them.                           *)
(***************************************************************************)
EXTENDS Readiness

CONSTANTS
    Keys,        \* the agent's checkouts, numbered in the order of their keys
    Worlds,      \* for each checkout, the readings it can give
    MaxMoves,    \* bound: changes of the world
    MaxEvents    \* bound: switch writes, the user's own acts, local reviews,
                 \* and reads and sends that fail, together

ASSUME AutopilotAssumption ==
    /\ Keys # {} /\ Keys \subseteq Nat \ {0}
    /\ Keys \subseteq DOMAIN Worlds /\ \A k \in Keys : Worlds[k] # {}
    /\ {MaxMoves, MaxEvents} \subseteq Nat

VARIABLES
    off,         \* switched off in the database (project off or agent paused)
    generation,  \* bumped by every switch write
    setter,      \* where autopilot_set is: "idle", "written" or "bumped"
    table,       \* the tracked checkouts
    pass,        \* the driver's pass
    jobs,        \* verification tasks under way
    turn,        \* the agent is "idle" or "running"
    gone,        \* the agent was archived
    deleg,       \* delegations: "none", "queued", "recorded" or "sent"
    review,      \* checkouts a local review holds
    world,       \* what reading a checkout would show now
    moves, events,
    streak, dead \* observers: see BudgetHolds and BarrenStaysRefused

switchVars == <<off, generation, setter>>
agentVars == <<turn, gone, deleg, review>>
worldVars == <<world, moves, events>>
observers == <<streak, dead>>
vars == <<switchVars, table, pass, jobs, agentVars, worldVars, observers>>

----------------------------------------------------------------------------
(* The state kept per checkout                                             *)

\* AUTOPILOT_RUNGS
Mine == {"fix-checks", "resolve", "update-branch", "resolve-comments"}

Budget(rung) == IF rung = "fix-checks" THEN 3 ELSE 2

JudgedByVerify(rung) == rung = "fix-checks"

NoCycle == [rung |-> "none", attempt |-> 0, sig |-> <<>>, phase |-> "none"]

NoThreads == [theirs |-> {}, ours |-> {}, age |-> "none"]

\* AutopilotState and Tracked.  threads.age says whether the cached read is
\* from before or after the cycle began to await evidence; verdictOf is an
\* observer: whose verification the verdict came from.
Fresh == [enrolled |-> TRUE, cycle |-> NoCycle, attempts |-> [r \in Mine |-> 0],
          situation |-> {}, barren |-> {}, verdict |-> "none",
          verdictOf |-> "own", verifying |-> FALSE, threads |-> NoThreads]

Untracked == [Fresh EXCEPT !.enrolled = FALSE]

InCycle(t) == t.cycle.rung # "none"
Awaiting(t) == t.cycle.phase = "awaiting-evidence"

\* state_signature: a world is the same to autopilot when these are.
Signature(w) == <<w.head, w.failing, w.conflict, w.theirs, w.ours>>

\* blocker_fingerprint
Fingerprint(w) == DetectBlockers(w)

\* Mutant: the last cycle's verdict survives into the new one.
OpenCycleOldVerdict(t, rung, w) ==
    LET same == t.situation = Fingerprint(w)
        spent == IF same THEN t.attempts ELSE [r \in Mine |-> 0]
    IN  [t EXCEPT !.attempts = spent, !.situation = Fingerprint(w),
                  !.cycle = [NoCycle EXCEPT !.rung = rung,
                               !.attempt = spent[rung] + 1,
                               !.sig = Signature(w), !.phase = "working"]]

\* open_cycle, and the verdict cleared with it.
OpenCycle(t, rung, w) ==
    LET same == t.situation = Fingerprint(w)
        spent == IF same THEN t.attempts ELSE [r \in Mine |-> 0]
    IN  [t EXCEPT !.attempts = spent, !.situation = Fingerprint(w),
                  !.verdict = "none",
                  !.cycle = [NoCycle EXCEPT !.rung = rung,
                               !.attempt = spent[rung] + 1,
                               !.sig = Signature(w), !.phase = "working"]]

\* advance(AwaitingEvidence): the evidence clock starts, and a thread read
\* cached until now is from before.
Advance(t) ==
    [t EXCEPT !.cycle.phase = "awaiting-evidence",
              !.threads.age = IF @ = "none" THEN @ ELSE "before"]

Settle(t, rung) ==
    [t EXCEPT !.cycle = NoCycle, !.attempts[rung] = 0]

\* Mutant: the failed attempt is not counted.
RetryUncounted(t, rung, barren) ==
    [t EXCEPT !.cycle = NoCycle, !.barren = @ \union barren]

\* Mutant: the barren world is not remembered.
RetryForgets(t, rung, barren) ==
    [t EXCEPT !.cycle = NoCycle, !.attempts[rung] = @ + 1]

\* Mutant: a failed cycle leaves no trace.
RetryNoTrace(t, rung, barren) == [t EXCEPT !.cycle = NoCycle]

\* retry, which a give-up does too.
Retry(t, rung, barren) ==
    [t EXCEPT !.cycle = NoCycle, !.attempts[rung] = @ + 1,
              !.barren = @ \union barren]

----------------------------------------------------------------------------
(* autopilot_step: the effect for one checkout.  An effect is a record: what *)
(* to do, for which rung, and the barren signature it proves, if any.       *)

Effect(do, rung, barren) == [do |-> do, rung |-> rung, barren |-> barren]
Wait == Effect("wait", "none", {})

\* The two brakes on a dispatch: a world proven barren, a budget spent.
Braked(t, rung, w) ==
    \/ Signature(w) \in t.barren
    \/ t.situation = Fingerprint(w) /\ t.attempts[rung] >= Budget(rung)

\* judge_cycle, awaiting evidence; late once EVIDENCE_TIMEOUT_MS have passed.
JudgeEvidence(t, w, late) ==
    LET c == t.cycle
        moved == Signature(w) # c.sig
        barren == IF moved THEN {} ELSE {c.sig}
        failed == IF barren \intersect t.barren # {} \/ c.attempt >= Budget(c.rung)
                  THEN Effect("give-up", c.rung, barren)
                  ELSE Effect("retry", c.rung, barren)
    IN  IF JudgedByVerify(c.rung) /\ t.verdict = "fail" THEN failed
        ELSE IF NextRung(w) = "wait"
             THEN IF late THEN Effect("give-up", c.rung, barren) ELSE Wait
        ELSE IF NextRung(w) = c.rung \/ ~moved THEN failed
        ELSE Effect("settle", c.rung, {})

JudgeCycle(t, w, busy, inFlight, late) ==
    IF t.cycle.phase = "working"
    THEN IF busy \/ inFlight THEN Wait
         ELSE Effect(IF JudgedByVerify(t.cycle.rung) THEN "verify"
                                                     ELSE "await",
                     t.cycle.rung, {})
    ELSE JudgeEvidence(t, w, late)

AutopilotStep(t, w, busy, inFlight, late) ==
    IF InCycle(t) THEN JudgeCycle(t, w, busy, inFlight, late)
    ELSE LET rung == NextRung(w) IN
         IF \/ ~Open(w) \/ busy \/ inFlight
            \/ rung \notin Mine
            \/ rung = "resolve" /\ w.edits
            \/ Braked(t, rung, w)
         THEN Wait
         ELSE Effect("dispatch", rung, {})

----------------------------------------------------------------------------
(* The driver's pass                                                       *)

Readings == UNION {Worlds[k] : k \in Keys}

Asleep == [at |-> "sleep", gen |-> 0, on |-> FALSE, todo |-> {}, key |-> 0,
           t |-> Untracked, seen |-> Unread, busy |-> FALSE, inFlight |-> FALSE,
           do |-> Wait, sends |-> FALSE, handed |-> 0]

\* On to the next checkout.
NextKey == [Asleep EXCEPT !.at = "loop", !.gen = pass.gen, !.on = pass.on,
                          !.todo = pass.todo, !.handed = pass.handed]

Tracked(k) == table[k].enrolled

\* A read or a send that fails, a switch write, an act of the user.
Happens == events < MaxEvents /\ events' = events + 1

\* A cycle is over: the verifications begun for it are an old cycle's now.
Outdated(js, ks) == {[j EXCEPT !.of = IF j.key \in ks THEN "old" ELSE @] : j \in js}

\* run_pass: the generation first.
PassStart ==
    /\ pass.at = "sleep"
    /\ pass' = [Asleep EXCEPT !.at = "switches", !.gen = generation]
    /\ UNCHANGED <<switchVars, table, jobs, agentVars, worldVars, observers>>

\* The switches, the agents, and the checkouts to walk.  Switches that cannot
\* be read end the pass.
PassReadsSwitches ==
    /\ pass.at = "switches"
    /\ \/ /\ pass' = [pass EXCEPT !.at = "loop", !.on = ~off /\ ~gone,
                        !.todo = {k \in Keys : Tracked(k) \/ (~off /\ ~gone)}]
          /\ UNCHANGED events
       \/ pass' = Asleep /\ Happens
    /\ UNCHANGED <<switchVars, table, jobs, agentVars, world, moves, observers>>

PassEnds ==
    /\ pass.at = "loop"
    /\ pass.todo = {} \/ generation # pass.gen
    /\ pass' = Asleep
    /\ UNCHANGED <<switchVars, table, jobs, agentVars, worldVars, observers>>

\* The next checkout, unless a switch was written since the pass began.
PassPicks(k) ==
    /\ pass.at = "loop" /\ generation = pass.gen
    /\ k \in pass.todo /\ \A j \in pass.todo : k <= j
    /\ pass' = [pass EXCEPT !.at = "enroll", !.key = k, !.todo = @ \ {k}]
    /\ UNCHANGED <<switchVars, table, jobs, agentVars, worldVars, observers>>

\* Mutant: an unseen checkout is not enrolled, but a seen one is never dropped.
PassKeeps ==
    /\ pass.at = "enroll" /\ ~pass.on
    /\ pass' = NextKey
    /\ UNCHANGED <<switchVars, table, jobs, agentVars, worldVars, observers>>

\* Switched off or gone: forget it.
PassForgets ==
    /\ pass.at = "enroll" /\ ~pass.on
    /\ table' = [table EXCEPT ![pass.key] = Untracked]
    /\ jobs' = Outdated(jobs, {pass.key})
    /\ pass' = NextKey
    /\ UNCHANGED <<switchVars, agentVars, worldVars, observers>>

\* The agent is mid-turn, or was handed a rung earlier in this pass: the
\* running that a dispatch raises may come later.
Busy == turn = "running" \/ pass.handed > 0

\* Enroll an unseen checkout, then sample what the step needs: the tracked
\* state, the agent, the delegation.  The world is read only when it could
\* matter, and a checkout being verified is left alone.
PassEnrolls ==
    LET k == pass.key
        t == IF Tracked(k) THEN table[k] ELSE Fresh
        inFlight == deleg[k] # "none"
        needsWorld == IF InCycle(t) THEN Awaiting(t) ELSE ~Busy /\ ~inFlight
    IN
    /\ pass.at = "enroll" /\ pass.on
    /\ table' = [table EXCEPT ![k] = t]
    /\ streak' = [streak EXCEPT ![k] = IF Tracked(k) THEN @ ELSE 0]
    /\ dead' = [dead EXCEPT ![k] = IF Tracked(k) THEN @ ELSE {}]
    /\ pass' = IF t.verifying THEN NextKey
               ELSE [pass EXCEPT !.at = IF needsWorld THEN "git" ELSE "decide",
                       !.t = t, !.seen = Unread, !.busy = Busy,
                       !.inFlight = inFlight]
    /\ UNCHANGED <<switchVars, jobs, agentVars, worldVars>>

\* observe: git, then the pull request with its checks, then the threads, each
\* awaited on its own.  Any of them may come back unread.
PassReadsGit ==
    LET w == world[pass.key] IN
    /\ pass.at = "git"
    /\ \/ /\ pass' = [pass EXCEPT !.at = "pr",
                        !.seen = [@ EXCEPT !.git = w.git, !.head = w.head,
                          !.conflict = w.conflict, !.edits = w.edits, !.staged = w.staged,
                          !.unpushed = w.unpushed, !.ahead = w.ahead]]
          /\ UNCHANGED events
       \/ pass' = [pass EXCEPT !.at = "pr"] /\ Happens
    /\ UNCHANGED <<switchVars, table, jobs, agentVars, world, moves, observers>>

PassReadsPr ==
    LET w == world[pass.key]
        live == [pass EXCEPT !.at = IF Open(w) THEN "threads" ELSE "decide",
                   !.seen = [@ EXCEPT !.pr = w.pr, !.merge = w.merge,
                               !.mergeable = w.mergeable, !.failing = w.failing]]
    IN
    /\ pass.at = "pr"
    /\ \/ pass' = live /\ UNCHANGED events
       \/ pass' = [pass EXCEPT !.at = "decide"] /\ Happens
    /\ UNCHANGED <<switchVars, table, jobs, agentVars, world, moves, observers>>

\* The cached threads may serve for a minute, but not a cycle that began to
\* await evidence after they were read.
CacheMayServe(t) ==
    /\ t.threads.age # "none"
    /\ Awaiting(t) => t.threads.age = "after"

PassReadsThreads ==
    LET k == pass.key
        w == world[k]
        got == [theirs |-> w.theirs, ours |-> w.ours, age |-> "after"]
        none == [NoThreads EXCEPT !.age = "after"]
        see(r) == [pass EXCEPT !.at = "decide", !.seen.theirs = r.theirs,
                     !.seen.ours = r.ours, !.t.threads.age = r.age]
    IN
    /\ pass.at = "threads"
    /\ \/ /\ CacheMayServe(pass.t)
          /\ pass' = see(pass.t.threads)
          /\ UNCHANGED <<table, events>>
       \/ \E read \in {got, none} :
             /\ pass' = see(read)
             /\ table' = IF Tracked(k) THEN [table EXCEPT ![k].threads = read]
                                       ELSE table
             /\ IF read = got THEN UNCHANGED events ELSE Happens
    /\ UNCHANGED <<switchVars, jobs, agentVars, world, moves, observers>>

\* autopilot_step, and the generation once more before acting on it.  The
\* clock only counts while a cycle awaits evidence: late is free here, and
\* fairness says that it comes.
PassDecides(k, late) ==
    /\ pass.at = "decide" /\ pass.key = k
    /\ pass' = IF generation # pass.gen THEN Asleep
               ELSE LET do == AutopilotStep(pass.t, pass.seen, pass.busy,
                                            pass.inFlight, late)
                    IN  IF do.do = "wait" THEN NextKey
                        ELSE [pass EXCEPT !.do = do, !.at = do.do]
    /\ UNCHANGED <<switchVars, table, jobs, agentVars, worldVars, observers>>

----------------------------------------------------------------------------
(* apply                                                                   *)

\* world.admit, and the cycle that goes with it.  Refused, with nothing
\* recorded, while a review has the checkout; else the delegation is recorded,
\* held back behind a running turn, and the cycle opened if the checkout is
\* still tracked.  For an archived agent admit errs, and the cycle opens all the
\* same.
ApplyDispatch ==
    LET k == pass.key
        t == table[k]
        again == t.situation = Fingerprint(pass.seen)
    IN
    /\ pass.at = "dispatch"
    /\ IF k \in review /\ ~gone
       THEN pass' = NextKey /\ UNCHANGED <<table, deleg, streak>>
       ELSE /\ pass' = [pass EXCEPT !.at = "send", !.handed = @ + 1,
                                     !.sends = ~gone /\ turn = "idle"]
            /\ deleg' = [deleg EXCEPT ![k] = IF gone THEN @
                                             ELSE IF turn = "running"
                                             THEN "queued" ELSE "recorded"]
            /\ table' = IF Tracked(k)
                        THEN [table EXCEPT
                                ![k] = OpenCycle(t, pass.do.rung, pass.seen)]
                        ELSE table
            /\ streak' = [streak EXCEPT ![k] = IF ~Tracked(k) THEN @
                                               ELSE IF ~again THEN 1
                                               ELSE IF @ > 3 THEN @ ELSE @ + 1]
    /\ UNCHANGED <<switchVars, jobs, turn, gone, review, worldVars, dead>>

\* run_admitted: a held trigger is left for the delegation driver; a send that
\* fails takes the delegation back and leaves the cycle to be judged.
ApplySend ==
    LET k == pass.key IN
    /\ pass.at = "send"
    /\ pass' = NextKey
    /\ \/ ~pass.sends /\ UNCHANGED <<deleg, events>>
       \/ /\ pass.sends
          /\ deleg' = [deleg EXCEPT ![k] = IF @ = "recorded" THEN "sent" ELSE @]
          /\ UNCHANGED events
       \/ /\ pass.sends /\ Happens
          /\ deleg' = [deleg EXCEPT ![k] = IF @ = "recorded" THEN "none" ELSE @]
    /\ UNCHANGED <<switchVars, table, jobs, turn, gone, review, world, moves, observers>>

\* AwaitEvidence, and Verify, which also leaves a verification running.
ApplyAwait ==
    LET k == pass.key
        t == table[k]
        job == [key |-> k, rung |-> t.cycle.rung, attempt |-> t.cycle.attempt,
                of |-> IF Tracked(k) THEN "own" ELSE "old"]
    IN
    /\ pass.at \in {"await", "verify"}
    /\ table' = IF Tracked(k)
                THEN [table EXCEPT ![k] = [Advance(t) EXCEPT
                                             !.verifying = pass.at = "verify"]]
                ELSE table
    /\ jobs' = IF pass.at = "verify" THEN jobs \union {job} ELSE jobs
    /\ pass' = NextKey
    /\ UNCHANGED <<switchVars, agentVars, worldVars, observers>>

\* Settle, Retry and GiveUp close the cycle.
ApplyOutcome ==
    LET k == pass.key
        t == table[k]
        do == pass.do
    IN
    /\ pass.at \in {"settle", "retry", "give-up"}
    /\ table' = IF ~Tracked(k) THEN table
                ELSE [table EXCEPT
                        ![k] = IF pass.at = "settle" THEN Settle(t, do.rung)
                               ELSE Retry(t, do.rung, do.barren),
                        ![k].verdictOf = "old"]
    /\ streak' = [streak EXCEPT ![k] = IF pass.at = "settle" THEN 0 ELSE @]
    /\ dead' = [dead EXCEPT ![k] =
                  IF Tracked(k) /\ Signature(pass.seen) = t.cycle.sig
                  THEN @ \union {t.cycle.sig} ELSE @]
    /\ jobs' = Outdated(jobs, {k})
    /\ pass' = NextKey
    /\ UNCHANGED <<switchVars, agentVars, worldVars>>

\* Only evidence for the cycle it was produced for counts, and the cycle is
\* known by its rung and its attempt.
SameCycle(j) ==
    /\ table[j.key].cycle.rung = j.rung
    /\ table[j.key].cycle.attempt = j.attempt

\* The verification lands; it may not have been able to run at all.
VerifyLands(j) ==
    /\ j \in jobs
    /\ jobs' = jobs \ {j}
    /\ \E report \in {"none", "pass", "fail"} :
          table' = IF ~Tracked(j.key) THEN table
                   ELSE [table EXCEPT
                           ![j.key].verifying = FALSE,
                           ![j.key].verdict = IF SameCycle(j) THEN report ELSE @,
                           ![j.key].verdictOf = IF SameCycle(j) THEN j.of ELSE @]
    /\ UNCHANGED <<switchVars, pass, agentVars, worldVars, observers>>

----------------------------------------------------------------------------
(* autopilot_set: the switch is written, the generation bumped, and what is *)
(* now off forgotten, before it returns.                                    *)

SetWrites ==
    /\ setter = "idle" /\ Happens
    /\ off' = ~off /\ setter' = "written"
    /\ UNCHANGED <<generation, table, pass, jobs, agentVars, world, moves, observers>>

SetBumps ==
    /\ setter = "written"
    /\ generation' = generation + 1 /\ setter' = "bumped"
    /\ UNCHANGED <<off, table, pass, jobs, agentVars, worldVars, observers>>

SetRemoves ==
    /\ setter = "bumped"
    /\ setter' = "idle"
    /\ table' = [k \in Keys |-> IF off THEN Untracked ELSE table[k]]
    /\ jobs' = Outdated(jobs, IF off THEN Keys ELSE {})
    /\ UNCHANGED <<off, generation, pass, agentVars, worldVars, observers>>

----------------------------------------------------------------------------
(* The environment                                                         *)

\* The agent's work, a push, CI, a reviewer or the user changed the checkout
\* or its pull request.
WorldMoves(k) ==
    /\ moves < MaxMoves
    /\ \E w \in Worlds[k] \ {world[k]} : world' = [world EXCEPT ![k] = w]
    /\ moves' = moves + 1
    /\ UNCHANGED <<switchVars, table, pass, jobs, agentVars, events,
                   observers>>

\* A delivered trigger's turn starts at once, or when the agent's process is up.
TurnStarts ==
    /\ turn = "idle" /\ \E k \in Keys : deleg[k] = "sent"
    /\ turn' = "running"
    /\ UNCHANGED <<switchVars, table, pass, jobs, gone, deleg, review, worldVars,
                   observers>>

TurnEnds ==
    /\ turn = "running" /\ turn' = "idle"
    /\ UNCHANGED <<switchVars, table, pass, jobs, gone, deleg,
                   review, worldVars, observers>>

\* The delegation driver (Delegation): a held trigger is delivered to an idle
\* agent, and a delegation ends when its turn is over, when its target is seen
\* reached, or when its turn was not seen to start in time.
DelegationMoves(k) ==
    /\ \/ /\ deleg[k] = "queued" /\ turn = "idle"
          /\ deleg' = [deleg EXCEPT ![k] = "sent"]
       \/ /\ deleg[k] \in {"recorded", "sent"} \/ (gone /\ deleg[k] # "none")
          /\ deleg' = [deleg EXCEPT ![k] = "none"]
    /\ UNCHANGED <<switchVars, table, pass, jobs, turn, gone, review, worldVars,
                   observers>>

\* The user writes to the agent, delegates by hand (over whatever delegation
\* is there) or archives the agent; a local review takes the checkout.
UserActs(k) ==
    /\ Happens /\ ~gone
    /\ \/ /\ turn = "idle" /\ turn' = "running"
          /\ UNCHANGED <<gone, deleg, review>>
       \/ /\ k \notin review
          /\ deleg' = [deleg EXCEPT ![k] = IF turn = "running" THEN "queued"
                                                               ELSE "sent"]
          /\ UNCHANGED <<turn, gone, review>>
       \/ /\ turn = "idle" /\ deleg[k] = "none" /\ k \notin review
          /\ review' = review \union {k}
          /\ UNCHANGED <<turn, gone, deleg>>
       \/ /\ turn = "idle" /\ gone' = TRUE
          /\ UNCHANGED <<turn, deleg, review>>
    /\ UNCHANGED <<switchVars, table, pass, jobs, world, moves, observers>>

ReviewEnds(k) ==
    /\ k \in review /\ review' = review \ {k}
    /\ UNCHANGED <<switchVars, table, pass, jobs, turn, gone, deleg,
                   worldVars, observers>>

----------------------------------------------------------------------------
Init ==
    /\ off = FALSE /\ generation = 0 /\ setter = "idle"
    /\ table = [k \in Keys |-> Untracked]
    /\ pass = Asleep /\ jobs = {}
    /\ turn = "idle" /\ gone = FALSE /\ review = {}
    /\ deleg = [k \in Keys |-> "none"]
    /\ world \in {f \in [Keys -> Readings] : \A k \in Keys : f[k] \in Worlds[k]}
    /\ moves = 0 /\ events = 0
    /\ streak = [k \in Keys |-> 0] /\ dead = [k \in Keys |-> {}]

PassStep ==
    \/ PassStart \/ PassReadsSwitches \/ PassEnds \/ PassForgets \/ PassEnrolls
    \/ PassReadsGit \/ PassReadsPr \/ PassReadsThreads
    \/ ApplyDispatch \/ ApplySend \/ ApplyAwait \/ ApplyOutcome
    \/ \E k \in Keys : \/ PassPicks(k)
                       \/ \E late \in BOOLEAN : PassDecides(k, late)

SetStep == SetWrites \/ SetBumps \/ SetRemoves

Next ==
    \/ PassStep \/ SetStep
    \/ \E j \in jobs : VerifyLands(j)
    \/ TurnStarts \/ TurnEnds
    \/ \E k \in Keys : \/ WorldMoves(k)
                       \/ DelegationMoves(k) \/ UserActs(k) \/ ReviewEnds(k)

Spec == Init /\ [][Next]_vars

\* What others have begun comes to its end.
Background ==
    \/ SetBumps \/ SetRemoves
    \/ \E j \in jobs : VerifyLands(j)
    \/ \E k \in Keys : ReviewEnds(k)

\* The driver loop and the tasks it spawns keep running, a switch write once
\* begun returns, turns, delegations and reviews end, and the clock advances.
Fairness ==
    /\ []<><<TRUE>>_pass /\ WF_vars(Background) /\ WF_vars(TurnEnds)
    /\ WF_vars(\E k \in Keys : DelegationMoves(k))
    /\ \A k \in Keys : SF_vars(PassDecides(k, TRUE))

FairSpec == Spec /\ Fairness

----------------------------------------------------------------------------
(* Properties                                                              *)

\* The type of the table and of the switches.
TypeOK ==
    /\ off \in BOOLEAN /\ gone \in BOOLEAN /\ generation \in 0..MaxEvents
    /\ setter \in {"idle", "written", "bumped"}
    /\ \A k \in Keys :
          /\ table[k].enrolled \in BOOLEAN /\ table[k].verifying \in BOOLEAN
          /\ \A r \in Mine : table[k].attempts[r] \in 0..Budget(r)
          /\ table[k].verdict \in {"none", "pass", "fail"}
    /\ review \subseteq Keys
    /\ deleg \in [Keys -> {"none", "queued", "recorded", "sent"}]
    /\ world \in [Keys -> Readings]

\* A cycle is judged on its own evidence: it ends on review threads read after
\* its work, never on cached ones from before; and as long as no switch was
\* written, a verdict on record while it is open was produced for it, never for
\* an earlier cycle (driver.rs Verify; the hold on `verifying`).  A switch write
\* lifts that hold, and (rung, attempt) does not tell cycles apart then.
JudgedOnOwnEvidence ==
    /\ pass.at \in {"settle", "retry", "give-up"} /\ Open(pass.seen) =>
          pass.t.threads.age = "after"
    /\ \A k \in Keys :
          generation = 0 /\ InCycle(table[k]) /\ table[k].verdict # "none" =>
             table[k].verdictOf = "own"

\* The budget brake: however the world moves in between, one situation never
\* gets more cycles in a row than its rung's budget (streak counts the cycles
\* opened since the situation changed or a cycle settled, up to one too many).
BudgetHolds ==
    \A k \in Keys : InCycle(table[k]) =>
                       streak[k] <= Budget(table[k].cycle.rung)

Opens(k) == ~InCycle(table[k]) /\ InCycle(table'[k])

\* The signature brake: no cycle is opened on a world in which a cycle of this
\* enrollment ended with nothing changed (dead collects those worlds).
BarrenStaysRefused ==
    [][\A k \in Keys : Opens(k) => table'[k].cycle.sig \notin dead[k]]_vars

\* The loop does not burn turns for ever: once the world stops changing and
\* reads stop failing, every cycle ends and none is opened again.
Quiesces == <>[](\A k \in Keys : ~InCycle(table[k]))

\* A checkout switched off, or whose agent was archived, is forgotten, and
\* its pushes are no longer pre-approved, even when a pass that was under way
\* enrolled it again.
OffIsForgotten ==
    (off \/ gone) ~> ((~off /\ ~gone) \/ \A k \in Keys : ~Tracked(k))

\* A cycle is settled on evidence: only when its pull request was read
\* (readiness.rs: "`None` is "not read" - never "nothing wrong"").
SettledOnEvidence == pass.at = "settle" => pass.seen.pr # "none"
=============================================================================
