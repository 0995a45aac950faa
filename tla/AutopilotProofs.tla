-------------------------- MODULE AutopilotProofs --------------------------
(***************************************************************************)
(* Theorems about Autopilot, for every set of checkouts and every set of   *)
(* readings they can give: the two brakes hold, and a cycle is judged on   *)
(* its own evidence.                                                       *)
(***************************************************************************)
EXTENDS Autopilot, TLAPS

(***************************************************************************)
(* 1. Types.  A reading is what a checkout gave, field by field, or unread. *)
(***************************************************************************)
Seen == [git : {Unread.git} \union {w.git : w \in Readings},
         head : {Unread.head} \union {w.head : w \in Readings},
         conflict : {Unread.conflict} \union {w.conflict : w \in Readings},
         edits : {Unread.edits} \union {w.edits : w \in Readings},
         staged : {Unread.staged} \union {w.staged : w \in Readings},
         unpushed : {Unread.unpushed} \union {w.unpushed : w \in Readings},
         ahead : {Unread.ahead} \union {w.ahead : w \in Readings},
         pr : {Unread.pr} \union {w.pr : w \in Readings},
         merge : {Unread.merge} \union {w.merge : w \in Readings},
         mergeable : {Unread.mergeable} \union {w.mergeable : w \in Readings},
         failing : {Unread.failing} \union {w.failing : w \in Readings},
         theirs : {{}} \union {w.theirs : w \in Readings},
         ours : {{}} \union {w.ours : w \in Readings}]

Sigs == {<<>>} \union {Signature(w) : w \in Seen}
Rungs == Mine \union {"none"}
Ages == {"none", "before", "after"}

Threads == [theirs : {{}} \union {w.theirs : w \in Readings},
            ours : {{}} \union {w.ours : w \in Readings}, age : Ages]

Cycle == [rung : Rungs, attempt : Nat, sig : Sigs,
          phase : {"none", "working", "awaiting-evidence"}]

Record == [enrolled : BOOLEAN, cycle : Cycle, attempts : [Mine -> Nat],
           situation : {{}} \union {Fingerprint(w) : w \in Seen},
           barren : SUBSET Sigs, verdict : {"none", "pass", "fail"},
           verdictOf : {"own", "old"}, verifying : BOOLEAN, threads : Threads]

Outcomes == {"settle", "retry", "give-up"}
AtApply == {"dispatch", "await", "verify"} \union Outcomes
Sampled == {"git", "pr", "threads", "decide"} \union AtApply
PassAt == {"sleep", "switches", "loop", "enroll", "send"} \union Sampled

Effects == [do : AtApply \union {"wait"}, rung : Rungs, barren : SUBSET Sigs]

Pass == [at : PassAt, gen : Nat, on : BOOLEAN, todo : SUBSET Keys,
         key : Keys \union {0}, t : Record, seen : Seen, busy : BOOLEAN,
         inFlight : BOOLEAN, do : Effects, sends : BOOLEAN, handed : Nat]

Jobs == [key : Keys, rung : Rungs, attempt : Nat, of : {"own", "old"}]

SwitchTypes ==
    /\ off \in BOOLEAN /\ gone \in BOOLEAN
    /\ setter \in {"idle", "written", "bumped"}
    /\ events \in 0..MaxEvents /\ generation \in Nat
    /\ generation + (IF setter = "written" THEN 1 ELSE 0) <= events
EnvTypes ==
    /\ review \subseteq Keys
    /\ deleg \in [Keys -> {"none", "queued", "recorded", "sent"}]
    /\ world \in [Keys -> Readings]
TableTypes ==
    /\ table \in [Keys -> Record]
    /\ pass \in Pass
    /\ jobs \subseteq Jobs
ObserverTypes ==
    /\ streak \in [Keys -> Nat]
    /\ dead \in [Keys -> SUBSET Sigs]
TypeInv == SwitchTypes /\ EnvTypes /\ TableTypes /\ ObserverTypes

(***************************************************************************)
(* 2. What the pass sampled is still so when it acts on it, unless a switch *)
(* write made the driver forget the checkout; what it applies is what      *)
(* autopilot_step decided.                                                 *)
(***************************************************************************)
Agrees(t, s) ==
    /\ t.cycle = s.cycle
    /\ t.attempts = s.attempts
    /\ t.situation = s.situation
    /\ t.barren = s.barren

Decided == \E late \in BOOLEAN :
              pass.do = AutopilotStep(pass.t, pass.seen, pass.busy, pass.inFlight, late)

SampleInv ==
    /\ pass.at \in {"enroll", "send"} \union Sampled => pass.key \in Keys
    /\ pass.at \in Sampled /\ Tracked(pass.key) =>
         Agrees(table[pass.key], pass.t) /\ ~table[pass.key].verifying
    /\ pass.at \in AtApply => Decided /\ pass.do.do = pass.at

(***************************************************************************)
(* 3. The brakes.  A rung of autopilot's own is a function of the situation *)
(* (RungOf), so the cycles of one situation draw on one budget.            *)
(***************************************************************************)
Kinds(f) == {b[1] : b \in f}

RungOf(f) ==
    IF "conflicted" \in Kinds(f) THEN "resolve"
    ELSE IF "diverged" \in Kinds(f) THEN "update-branch"
    ELSE IF "checks-failing" \in Kinds(f) THEN "fix-checks"
    ELSE "resolve-comments"

\* The record t of a checkout, n cycles in a row in its situation, and d the
\* worlds in which a cycle ended with nothing changed.
Brakes(t, n, d) ==
    /\ ~t.enrolled => ~InCycle(t)
    /\ InCycle(t) => /\ t.cycle.rung = RungOf(t.situation)
                     /\ t.cycle.attempt = t.attempts[t.cycle.rung] + 1
                     /\ t.cycle.attempt <= Budget(t.cycle.rung)
                     /\ t.cycle.phase # "none"
                     /\ n <= t.cycle.attempt
    /\ ~InCycle(t) => t.cycle = NoCycle
    /\ t.enrolled /\ ~InCycle(t) => n <= t.attempts[RungOf(t.situation)]
    /\ \A r \in Mine : t.attempts[r] <= Budget(r)
    /\ t.enrolled => d \subseteq t.barren
BrakeInv == \A k \in Keys : Brakes(table[k], streak[k], dead[k])

(***************************************************************************)
(* 4. The evidence.  Until a switch is written, a verification under way   *)
(* belongs to the cycle in hand.                                           *)
(***************************************************************************)
ThreadsOK ==
    /\ pass.at \in {"git", "pr"} => ~Open(pass.seen)
    /\ pass.at \in {"decide"} \union AtApply /\ Open(pass.seen) /\ Awaiting(pass.t) =>
         pass.t.threads.age = "after"
    /\ pass.at \in Sampled /\ InCycle(pass.t) => pass.t.cycle.phase # "none"

Unswitched ==
    /\ setter # "bumped"
    /\ off => setter = "written"
    /\ pass.at \notin {"sleep", "switches"} /\ ~pass.on => off \/ gone
    /\ pass.at \in Sampled => Tracked(pass.key) /\ pass.on

JobsOK ==
    \A j \in jobs :
      IF Tracked(j.key)
      THEN /\ j.of = "own"
           /\ table[j.key].verifying
           /\ \A i \in jobs : i.key = j.key => i = j
      ELSE /\ off \/ gone
           /\ pass.at \notin {"sleep", "switches"} => ~pass.on

VerdictOK ==
    \A k \in Keys :
      InCycle(table[k]) /\ table[k].verdict # "none" => table[k].verdictOf = "own"

EvidenceInv == ThreadsOK /\ (generation = 0 => Unswitched /\ JobsOK /\ VerdictOK)

ApInv == TypeInv /\ SampleInv /\ BrakeInv /\ EvidenceInv


-----------------------------------------------------------------------------
(* Lemmas about the operators                                              *)

\* A reading nothing was read for is a reading.
LEMMA UnreadIsSeen == Unread \in Seen /\ ~Open(Unread)
  BY DEF Unread, Seen, Open

\* No cycle, as a record.
LEMMA NoCycleType == NoCycle \in Cycle /\ NoCycle.rung = "none" /\ NoCycle.phase = "none"
<1>1. <<>> \in Sigs  BY DEF Sigs
<1>. QED  BY <1>1 DEF NoCycle, Cycle, Rungs

\* What a checkout starts from.
LEMMA FreshRecord ==
    /\ Fresh \in Record /\ Untracked \in Record
    /\ Fresh.enrolled /\ Fresh.cycle = NoCycle /\ Fresh.situation = {} /\ ~Fresh.verifying
    /\ Fresh.barren = {} /\ Fresh.attempts = [r \in Mine |-> 0] /\ Fresh.verdict = "none"
    /\ ~Untracked.enrolled /\ Untracked.cycle = NoCycle /\ ~Untracked.verifying
    /\ Untracked.attempts = [r \in Mine |-> 0] /\ Untracked.verdict = "none"
<1>1. NoThreads \in Threads  BY DEF NoThreads, Threads, Ages
<1>2. Fresh \in Record
  BY <1>1, NoCycleType DEF Fresh, Record
<1>3. /\ Fresh.enrolled /\ Fresh.cycle = NoCycle /\ Fresh.situation = {} /\ ~Fresh.verifying
      /\ Fresh.barren = {} /\ Fresh.attempts = [r \in Mine |-> 0] /\ Fresh.verdict = "none"
  BY DEF Fresh
<1>4. /\ Untracked \in Record /\ ~Untracked.enrolled
      /\ Untracked.cycle = Fresh.cycle /\ Untracked.verifying = Fresh.verifying
      /\ Untracked.attempts = Fresh.attempts /\ Untracked.verdict = Fresh.verdict
  BY <1>2 DEF Untracked, Record
<1>. QED  BY <1>2, <1>3, <1>4

\* Doing nothing, as an effect.
LEMMA WaitType == Wait \in Effects /\ Wait.do = "wait"
  BY DEF Wait, Effect, Effects, Rungs

\* A pass that has not begun.
LEMMA AsleepType == Asleep \in Pass /\ Asleep.at = "sleep"
<1> DEFINE u == Untracked
           s == Unread
           e == Wait
<1>1. u \in Record /\ s \in Seen /\ e \in Effects
  BY FreshRecord, UnreadIsSeen, WaitType
<1>2. Asleep = [at |-> "sleep", gen |-> 0, on |-> FALSE, todo |-> {}, key |-> 0,
                t |-> u, seen |-> s, busy |-> FALSE, inFlight |-> FALSE,
                do |-> e, sends |-> FALSE, handed |-> 0]
  BY DEF Asleep
<1> HIDE DEF u, s, e
<1>. QED  BY <1>1, <1>2 DEF Pass, PassAt


\* The answer of the ladder is the one next to its first condition that holds.
LEMMA LadderAnswers ==
  ASSUME NEW w
  PROVE  \E n \in 1..17 : /\ Ladder(w)[n][1]
                          /\ \A m \in 1..(n - 1) : ~Ladder(w)[m][1]
                          /\ NextRung(w) = Ladder(w)[n][2]
<1> DEFINE ladder == Ladder(w)
           first(n) == ladder[n][1] /\ \A m \in 1..(n - 1) : ~ladder[m][1]
<1>1. DOMAIN ladder = 1..17 /\ ladder[17][1]  BY DEF Ladder
<1>2. NextRung(w) = ladder[CHOOSE n \in DOMAIN ladder : first(n)][2]
  BY DEF NextRung
<1> HIDE DEF ladder
<1>3. \E n \in 1..17 : first(n)
  <2> SUFFICES ASSUME \A n \in 1..17 : ~first(n) PROVE FALSE
    OBVIOUS
  <2>1. ~ladder[1][1]  OBVIOUS
  <2>2. ~ladder[2][1]  BY <2>1
  <2>3. ~ladder[3][1]  BY <2>1, <2>2
  <2>4. ~ladder[4][1]  BY <2>1, <2>2, <2>3
  <2>5. ~ladder[5][1]  BY <2>1, <2>2, <2>3, <2>4
  <2>6. ~ladder[6][1]  BY <2>1, <2>2, <2>3, <2>4, <2>5
  <2>7. ~ladder[7][1]  BY <2>1, <2>2, <2>3, <2>4, <2>5, <2>6
  <2>8. \A m \in 1..7 : ~ladder[m][1]
    BY <2>1, <2>2, <2>3, <2>4, <2>5, <2>6, <2>7
  <2>9. \A m \in 1..8 : ~ladder[m][1]  BY <2>8
  <2>10. \A m \in 1..9 : ~ladder[m][1]  BY <2>9
  <2>11. \A m \in 1..10 : ~ladder[m][1]  BY <2>10
  <2>12. \A m \in 1..11 : ~ladder[m][1]  BY <2>11
  <2>13. \A m \in 1..12 : ~ladder[m][1]  BY <2>12
  <2>14. \A m \in 1..13 : ~ladder[m][1]  BY <2>13
  <2>15. \A m \in 1..14 : ~ladder[m][1]  BY <2>14
  <2>16. \A m \in 1..15 : ~ladder[m][1]  BY <2>15
  <2>17. \A m \in 1..16 : ~ladder[m][1]  BY <2>16
  <2>. QED  BY <1>1, <2>17
<1> DEFINE n == CHOOSE x \in 1..17 : first(x)
<1>4. n \in 1..17 /\ first(n)  BY <1>3
<1>5. NextRung(w) = ladder[n][2]  BY <1>1, <1>2
<1> HIDE DEF n
<1>. QED  BY <1>4, <1>5 DEF ladder

\* Which rung of its own autopilot takes is read off the situation alone.
LEMMA RungOfSituation ==
  ASSUME NEW w, Open(w), NextRung(w) \in Mine
  PROVE  NextRung(w) = RungOf(Fingerprint(w))
<1> DEFINE ladder == Ladder(w)
           kinds == {b[1] : b \in DetectBlockers(w)}
<1>1. PICK n \in 1..17 : /\ ladder[n][1]
                         /\ \A m \in 1..(n - 1) : ~ladder[m][1]
                         /\ NextRung(w) = ladder[n][2]
  BY LadderAnswers
<1>2. /\ ladder[1][2] = "wait" /\ ladder[2][2] = "landed" /\ ladder[3][2] = "resolve"
      /\ ladder[4][2] = "commit-push" /\ ladder[5][2] = "commit-pr"
      /\ ladder[6][2] = "resolve-comments" /\ ladder[7][2] = "open-pr"
      /\ ladder[8][2] = "push" /\ ladder[9][2] = "update-branch"
      /\ ladder[10][2] = "fix-checks" /\ ladder[11][2] = "escalate"
      /\ ladder[12][2] = "resolve-comments" /\ ladder[13][2] = "escalate"
      /\ ladder[14][2] = "ready" /\ ladder[15][2] = "wait" /\ ladder[16][2] = "merge"
      /\ ladder[17][2] = "ready"
  BY DEF Ladder
<1>3. /\ ladder[3][1] = ("conflicted" \in kinds)
      /\ ladder[6][1] = (~Open(w) /\ "review-unaddressed" \in kinds)
      /\ ladder[9][1] = ("diverged" \in kinds)
      /\ ladder[10][1] = ("checks-failing" \in kinds)
  BY DEF Ladder
<1>4. Kinds(Fingerprint(w)) = kinds  BY DEF Kinds, Fingerprint
<1> HIDE DEF ladder, kinds
<1>5. n \in {3, 6, 9, 10, 12}
  BY <1>1, <1>2 DEF Mine
<1>6. n # 6  BY <1>1, <1>3
<1>7. CASE n = 3  BY <1>1, <1>2, <1>3, <1>4, <1>7 DEF RungOf
<1>8. CASE n = 9
  <2>1. ~ladder[3][1]  BY <1>1, <1>8
  <2>. QED  BY <1>1, <1>2, <1>3, <1>4, <1>8, <2>1 DEF RungOf
<1>9. CASE n = 10
  <2>1. ~ladder[3][1] /\ ~ladder[9][1]  BY <1>1, <1>9
  <2>. QED  BY <1>1, <1>2, <1>3, <1>4, <1>9, <2>1 DEF RungOf
<1>10. CASE n = 12
  <2>1. ~ladder[3][1] /\ ~ladder[9][1] /\ ~ladder[10][1]  BY <1>1, <1>10
  <2>. QED  BY <1>1, <1>2, <1>3, <1>4, <1>10, <2>1 DEF RungOf
<1>. QED  BY <1>5, <1>6, <1>7, <1>8, <1>9, <1>10


\* What autopilot_step can answer, and when.
LEMMA StepMeans ==
  ASSUME NEW t \in Record, NEW w \in Seen, NEW busy \in BOOLEAN, NEW inFlight \in BOOLEAN,
         NEW late \in BOOLEAN, NEW do, do = AutopilotStep(t, w, busy, inFlight, late)
  PROVE  /\ do \in Effects
         /\ do.do = "dispatch" => /\ ~InCycle(t) /\ Open(w) /\ do.rung \in Mine
                                  /\ do.rung = RungOf(Fingerprint(w))
                                  /\ Signature(w) \notin t.barren
                                  /\ t.situation = Fingerprint(w) =>
                                       ~(t.attempts[do.rung] >= Budget(do.rung))
         /\ do.do \in {"await", "verify"} =>
              InCycle(t) /\ t.cycle.phase = "working"
         /\ do.do \in Outcomes =>
              /\ InCycle(t) /\ t.cycle.phase # "working" /\ do.rung = t.cycle.rung
              /\ IF Signature(w) = t.cycle.sig
                 THEN do.do # "settle" /\ do.barren = {t.cycle.sig}
                 ELSE do.barren = {}
         /\ do.do = "retry" => ~(t.cycle.attempt >= Budget(t.cycle.rung))
<1> DEFINE c == t.cycle
           barren == IF Signature(w) # c.sig THEN {} ELSE {c.sig}
<1>0. c.rung \in Rungs /\ c.sig \in Sigs /\ barren \in SUBSET Sigs
  BY DEF Record, Cycle
<1>1. \A d \in AtApply \union {"wait"}, r \in Rungs, b \in SUBSET Sigs :
        Effect(d, r, b) \in Effects /\ Effect(d, r, b).do = d
          /\ Effect(d, r, b).rung = r /\ Effect(d, r, b).barren = b
  BY DEF Effect, Effects
<1>2. CASE ~InCycle(t)
  <2> DEFINE rung == NextRung(w)
  <2>1. \/ do = Wait
        \/ /\ do = Effect("dispatch", rung, {}) /\ Open(w) /\ rung \in Mine
           /\ ~Braked(t, rung, w)
    BY <1>2 DEF AutopilotStep
  <2>2. CASE do = Wait
    BY <2>2, WaitType DEF AtApply, Outcomes
  <2>3. CASE do = Effect("dispatch", rung, {}) /\ Open(w) /\ rung \in Mine
             /\ ~Braked(t, rung, w)
    <3>1. do \in Effects /\ do.do = "dispatch" /\ do.rung = rung
      BY <1>1, <2>3 DEF Rungs, AtApply
    <3>2. rung = RungOf(Fingerprint(w))  BY <2>3, RungOfSituation
    <3> HIDE DEF rung
    <3>. QED  BY <1>2, <2>3, <3>1, <3>2 DEF Braked, Outcomes
  <2>. QED  BY <2>1, <2>2, <2>3
<1>3. CASE InCycle(t) /\ c.phase = "working"
  <2>1. do = Wait \/ do = Effect(IF JudgedByVerify(c.rung) THEN "verify" ELSE "await", c.rung, {})
    BY <1>3 DEF AutopilotStep, JudgeCycle
  <2>2. do = Wait \/ (do \in Effects /\ do.do \in {"verify", "await"})
    BY <1>0, <1>1, <2>1 DEF AtApply
  <2>. QED  BY <1>3, <2>2, WaitType DEF Outcomes
<1>4. CASE InCycle(t) /\ c.phase # "working"
  <2>1. do = JudgeEvidence(t, w, late)  BY <1>4 DEF AutopilotStep, JudgeCycle
  <2>2. \/ do = Wait
        \/ do = Effect("give-up", c.rung, barren)
        \/ do = Effect("retry", c.rung, barren) /\ ~(c.attempt >= Budget(c.rung))
        \/ do = Effect("settle", c.rung, {}) /\ Signature(w) # c.sig
    BY <2>1 DEF JudgeEvidence
  <2>3. \/ do = Wait
        \/ /\ do \in Effects /\ do.do \in Outcomes /\ do.rung = c.rung /\ do.barren = barren
           /\ do.do = "settle" => Signature(w) # c.sig
           /\ do.do = "retry" => ~(c.attempt >= Budget(c.rung))
    BY <1>0, <1>1, <2>2 DEF AtApply, Outcomes
  <2>. QED  BY <1>4, <2>3, WaitType DEF Outcomes
<1>. QED  BY <1>2, <1>3, <1>4


\* A cycle opened for a rung of autopilot's own.
LEMMA OpenCycleIs ==
  ASSUME NEW t \in Record, NEW rung \in Mine, NEW w \in Seen, NEW u,
         u = OpenCycle(t, rung, w)
  PROVE  /\ u \in Record /\ u.enrolled = t.enrolled /\ u.verifying = t.verifying
         /\ u.barren = t.barren /\ u.verdict = "none" /\ u.situation = Fingerprint(w)
         /\ u.attempts = IF t.situation = Fingerprint(w) THEN t.attempts
                         ELSE [r \in Mine |-> 0]
         /\ u.cycle.rung = rung /\ u.cycle.attempt = u.attempts[rung] + 1
         /\ u.cycle.sig = Signature(w) /\ u.cycle.phase = "working"
<1> DEFINE spent == IF t.situation = Fingerprint(w) THEN t.attempts ELSE [r \in Mine |-> 0]
           f == Fingerprint(w)
           c == [NoCycle EXCEPT !.rung = rung, !.attempt = spent[rung] + 1,
                                !.sig = Signature(w), !.phase = "working"]
<1>2. spent \in [Mine -> Nat]  BY DEF Record
<1>3. /\ c \in Cycle /\ c.rung = rung /\ c.attempt = spent[rung] + 1
      /\ c.sig = Signature(w) /\ c.phase = "working"
  <2> DEFINE n == spent[rung] + 1
             s == Signature(w)
             z == NoCycle
  <2>1. s \in Sigs  BY DEF Sigs
  <2>2. n \in Nat  BY <1>2
  <2>3. z \in Cycle  BY NoCycleType
  <2>4. c = [z EXCEPT !.rung = rung, !.attempt = n, !.sig = s, !.phase = "working"]
    OBVIOUS
  <2> HIDE DEF n, s, z, c
  <2>5. c \in Cycle /\ c.rung = rung /\ c.attempt = n /\ c.sig = s /\ c.phase = "working"
    BY <2>1, <2>2, <2>3, <2>4 DEF Cycle, Rungs
  <2>. QED  BY <2>5 DEF n, s
<1>4. f \in {{}} \union {Fingerprint(v) : v \in Seen}  OBVIOUS
<1>5. u = [t EXCEPT !.attempts = spent, !.situation = f, !.verdict = "none", !.cycle = c]
  BY DEF OpenCycle
<1> HIDE DEF spent, c, f
<1>6. /\ u \in Record /\ u.enrolled = t.enrolled /\ u.verifying = t.verifying
      /\ u.barren = t.barren /\ u.verdict = "none" /\ u.situation = f
      /\ u.attempts = spent /\ u.cycle = c
  BY <1>2, <1>3, <1>4, <1>5 DEF Record
<1>. QED  BY <1>3, <1>6 DEF spent, f

\* The records a cycle goes through, as the driver writes them.
Awaits(t, b) == [Advance(t) EXCEPT !.verifying = b]
Settles(t, rung) == [Settle(t, rung) EXCEPT !.verdictOf = "old"]
Retries(t, rung, barren) == [Retry(t, rung, barren) EXCEPT !.verdictOf = "old"]

\* A cycle that awaits its evidence, verified or not.
LEMMA AdvanceIs ==
  ASSUME NEW t \in Record, NEW b \in BOOLEAN, NEW u,
         u = Awaits(t, b)
  PROVE  /\ u \in Record /\ u.enrolled = t.enrolled /\ u.verifying = b
         /\ u.barren = t.barren /\ u.verdict = t.verdict /\ u.verdictOf = t.verdictOf
         /\ u.situation = t.situation /\ u.attempts = t.attempts
         /\ u.cycle \in Cycle /\ u.cycle.rung = t.cycle.rung
         /\ u.cycle.attempt = t.cycle.attempt /\ u.cycle.sig = t.cycle.sig
         /\ u.cycle.phase = "awaiting-evidence"
<1> DEFINE c == [t.cycle EXCEPT !.phase = "awaiting-evidence"]
           th == [t.threads EXCEPT !.age = IF @ = "none" THEN @ ELSE "before"]
<1>1. /\ c \in Cycle /\ c.rung = t.cycle.rung /\ c.attempt = t.cycle.attempt
      /\ c.sig = t.cycle.sig /\ c.phase = "awaiting-evidence"
  <2>1. t.cycle \in Cycle  BY DEF Record
  <2>. QED  BY <2>1 DEF Cycle
<1>2. th \in Threads
  <2>1. t.threads \in Threads  BY DEF Record
  <2>. QED  BY <2>1 DEF Threads, Ages
<1>3. u = [t EXCEPT !.cycle = c, !.threads = th, !.verifying = b]
  BY DEF Awaits, Advance, Record
<1> HIDE DEF c, th
<1>. QED  BY <1>1, <1>2, <1>3 DEF Record

\* A cycle that ends, settled or failed.
LEMMA SettleIs ==
  ASSUME NEW t \in Record, NEW rung \in Mine, NEW u,
         u = Settles(t, rung)
  PROVE  /\ u \in Record /\ u.enrolled = t.enrolled /\ u.verifying = t.verifying
         /\ u.barren = t.barren /\ u.situation = t.situation
         /\ u.attempts = [t.attempts EXCEPT ![rung] = 0] /\ u.cycle = NoCycle
<1> DEFINE a == [t.attempts EXCEPT ![rung] = 0]
           c == NoCycle
<1>1. a \in [Mine -> Nat] /\ c \in Cycle  BY NoCycleType DEF Record
<1>2. u = [t EXCEPT !.cycle = c, !.attempts = a, !.verdictOf = "old"]
  BY DEF Settles, Settle, Record
<1> HIDE DEF a, c
<1>3. /\ u \in Record /\ u.enrolled = t.enrolled /\ u.verifying = t.verifying
      /\ u.barren = t.barren /\ u.situation = t.situation
      /\ u.attempts = a /\ u.cycle = c
  BY <1>1, <1>2 DEF Record
<1>. QED  BY <1>3 DEF a, c

\* The record of a cycle that failed.
LEMMA RetryIs ==
  ASSUME NEW t \in Record, NEW rung \in Mine, NEW barren \in SUBSET Sigs, NEW u,
         u = Retries(t, rung, barren)
  PROVE  /\ u \in Record /\ u.enrolled = t.enrolled /\ u.verifying = t.verifying
         /\ u.barren = t.barren \union barren /\ u.situation = t.situation
         /\ u.attempts = [t.attempts EXCEPT ![rung] = @ + 1] /\ u.cycle = NoCycle
<1> DEFINE a == [t.attempts EXCEPT ![rung] = @ + 1]
           c == NoCycle
           bs == t.barren \union barren
<1>1. a \in [Mine -> Nat] /\ c \in Cycle /\ bs \in SUBSET Sigs
  BY NoCycleType DEF Record
<1>2. u = [t EXCEPT !.cycle = c, !.attempts = a, !.barren = bs, !.verdictOf = "old"]
  BY DEF Retries, Retry, Record
<1> HIDE DEF a, c, bs
<1>3. /\ u \in Record /\ u.enrolled = t.enrolled /\ u.verifying = t.verifying
      /\ u.barren = bs /\ u.situation = t.situation
      /\ u.attempts = a /\ u.cycle = c
  BY <1>1, <1>2 DEF Record
<1>. QED  BY <1>3 DEF a, c, bs

\* The threads a read left in the cache.
LEMMA CachedIs ==
  ASSUME NEW t \in Record, NEW th \in Threads, NEW u, u = [t EXCEPT !.threads = th]
  PROVE  /\ u \in Record /\ u.enrolled = t.enrolled /\ u.verifying = t.verifying
         /\ u.verdict = t.verdict /\ u.verdictOf = t.verdictOf
         /\ u.cycle = t.cycle /\ u.attempts = t.attempts /\ u.situation = t.situation
         /\ u.barren = t.barren /\ u.threads = th
  BY DEF Record


\* Where the pass goes next: on to another checkout, back to sleep.
LEMMA MovesOn ==
  ASSUME pass \in Pass
  PROVE  NextKey \in Pass /\ NextKey.at = "loop" /\ NextKey.on = pass.on
<1> DEFINE a == Asleep
<1>1. NextKey = [a EXCEPT !.at = "loop", !.gen = pass.gen, !.on = pass.on,
                          !.todo = pass.todo, !.handed = pass.handed]
  BY DEF NextKey
<1>2. a \in Pass  BY AsleepType
<1> HIDE DEF a
<1>. QED  BY <1>1, <1>2 DEF Pass, PassAt

\* A pass begins with the read of the switches.
LEMMA Starts ==
  ASSUME TypeInv, PassStart
  PROVE  pass' \in Pass /\ pass'.at = "switches"
<1> DEFINE a == Asleep
<1>1. pass' = [a EXCEPT !.at = "switches", !.gen = generation]  BY DEF PassStart
<1>2. a \in Pass /\ generation \in Nat  BY AsleepType DEF TypeInv, SwitchTypes
<1> HIDE DEF a
<1>. QED  BY <1>1, <1>2 DEF Pass, PassAt

\* After the read of the switches the pass has the agents to look at, or ends.
LEMMA ReadsSwitches ==
  ASSUME TypeInv, PassReadsSwitches
  PROVE  /\ pass' \in Pass
         /\ pass'.at = "sleep" \/ (pass'.at = "loop" /\ pass'.on = (~off /\ ~gone))
<1> DEFINE b == ~off /\ ~gone
           ks == {k \in Keys : Tracked(k) \/ (~off /\ ~gone)}
<1>1. pass' = [pass EXCEPT !.at = "loop", !.on = b, !.todo = ks] \/ pass' = Asleep
  BY DEF PassReadsSwitches
<1>2. b \in BOOLEAN /\ ks \in SUBSET Keys  OBVIOUS
<1>3. pass \in Pass  BY DEF TypeInv, TableTypes
<1>4. CASE pass' = Asleep  BY <1>4, AsleepType
<1>5. CASE pass' = [pass EXCEPT !.at = "loop", !.on = b, !.todo = ks]
  <2> HIDE DEF b, ks
  <2>1. pass' \in Pass /\ pass'.at = "loop" /\ pass'.on = b
    BY <1>2, <1>3, <1>5 DEF Pass, PassAt
  <2>. QED  BY <2>1 DEF b
<1>. QED  BY <1>1, <1>4, <1>5

\* The choice of an agent, field by field.
LEMMA Picks ==
  ASSUME TypeInv, NEW k \in Keys, PassPicks(k)
  PROVE  /\ pass' \in Pass /\ pass'.at = "enroll" /\ pass'.key = k /\ pass'.on = pass.on
         /\ pass.at = "loop"
<1>1. pass \in Pass  BY DEF TypeInv, TableTypes
<1>2. pass' = [pass EXCEPT !.at = "enroll", !.key = k, !.todo = @ \ {k}] /\ pass.at = "loop"
  BY DEF PassPicks
<1>. QED  BY <1>1, <1>2 DEF Pass, PassAt

\* A pass that enrolled a checkout has read nothing of it yet.
LEMMA Enrolls ==
  ASSUME TypeInv, SampleInv, PassEnrolls, NEW t,
         t = IF Tracked(pass.key) THEN table[pass.key] ELSE Fresh
  PROVE  /\ pass' \in Pass /\ pass.key \in Keys /\ t \in Record /\ pass'.on = pass.on
         /\ table' = [table EXCEPT ![pass.key] = t]
         /\ \/ pass'.at = "loop"
            \/ /\ pass'.at \in {"git", "decide"} /\ pass'.key = pass.key
               /\ pass'.t = t /\ ~t.verifying /\ ~Open(pass'.seen)
<1> DEFINE b == Busy
           c == deleg[pass.key] # "none"
           needs == IF InCycle(t) THEN Awaiting(t) ELSE ~b /\ ~c
           at == IF needs THEN "git" ELSE "decide"
           s == Unread
<1>1. /\ table' = [table EXCEPT ![pass.key] = t]
      /\ pass' = IF t.verifying THEN NextKey
                 ELSE [pass EXCEPT !.at = at, !.t = t, !.seen = s, !.busy = b, !.inFlight = c]
  BY DEF PassEnrolls
<1>2. pass.key \in Keys  BY DEF PassEnrolls, SampleInv
<1>3. t \in Record /\ pass \in Pass
  BY <1>2, FreshRecord DEF TypeInv, TableTypes
<1>4. s \in Seen /\ ~Open(s)  BY UnreadIsSeen
<1>5. b \in BOOLEAN /\ c \in BOOLEAN /\ at \in {"git", "decide"}  BY DEF Busy
<1>6. CASE t.verifying  BY <1>1, <1>2, <1>3, <1>6, MovesOn
<1>7. CASE ~t.verifying
  <2>1. pass' = [pass EXCEPT !.at = at, !.t = t, !.seen = s, !.busy = b, !.inFlight = c]
    BY <1>1, <1>7
  <2>2. at \in PassAt  BY DEF PassAt, Sampled
  <2> HIDE DEF b, c, at, s
  <2>3. pass' \in Pass  BY <1>3, <1>4, <1>5, <2>1, <2>2 DEF Pass
  <2>4. /\ pass'.at = at /\ pass'.key = pass.key /\ pass'.on = pass.on
        /\ pass'.t = t /\ pass'.seen = s
    BY <1>3, <2>1 DEF Pass
  <2>. QED  BY <1>1, <1>2, <1>3, <1>4, <1>5, <1>7, <2>3, <2>4
<1>. QED  BY <1>6, <1>7

\* A read that came back, or did not.
LEMMA PassReads ==
  ASSUME pass \in Pass, NEW at \in PassAt, NEW s \in Seen, NEW q,
         q = [pass EXCEPT !.at = at, !.seen = s]
  PROVE  /\ q \in Pass /\ q.at = at /\ q.key = pass.key /\ q.on = pass.on /\ q.t = pass.t
         /\ q.seen = s
  BY DEF Pass

\* The read of the git facts, field by field.
LEMMA GitIsSeen ==
  ASSUME NEW s \in Seen, NEW w \in Readings, NEW r,
         r = [s EXCEPT !.git = w.git, !.head = w.head, !.conflict = w.conflict,
                       !.edits = w.edits, !.staged = w.staged, !.unpushed = w.unpushed,
                       !.ahead = w.ahead]
  PROVE  r \in Seen /\ r.pr = s.pr
  BY DEF Seen

\* The read of the PR facts, field by field.
LEMMA PrIsSeen ==
  ASSUME NEW s \in Seen, NEW w \in Readings, NEW r,
         r = [s EXCEPT !.pr = w.pr, !.merge = w.merge, !.mergeable = w.mergeable,
                       !.failing = w.failing]
  PROVE  r \in Seen /\ r.pr = w.pr
  BY DEF Seen

\* The threads a pass sees are the ones of a read, fresh or cached.
LEMMA ThreadsAreSeen ==
  ASSUME pass \in Pass, NEW th \in Threads, NEW q,
         q = [pass EXCEPT !.at = "decide", !.seen.theirs = th.theirs,
                          !.seen.ours = th.ours, !.t.threads.age = th.age]
  PROVE  /\ q \in Pass /\ q.at = "decide" /\ q.key = pass.key /\ q.on = pass.on
         /\ q.t.threads.age = th.age
         /\ Agrees(pass.t, q.t)
<1> DEFINE s == [pass.seen EXCEPT !.theirs = th.theirs, !.ours = th.ours]
           old == pass.t.threads
           c == [old EXCEPT !.age = th.age]
           t == [pass.t EXCEPT !.threads = c]
<1>1. pass.seen \in Seen /\ pass.t \in Record  BY DEF Pass
<1>2. s \in Seen
  <2> DEFINE r == pass.seen
             x == th.theirs
             y == th.ours
  <2>1. r \in Seen /\ x \in {{}} \union {w.theirs : w \in Readings}
        /\ y \in {{}} \union {w.ours : w \in Readings}
    BY <1>1 DEF Threads
  <2>2. s = [r EXCEPT !.theirs = x, !.ours = y]  OBVIOUS
  <2> HIDE DEF r, x, y, s
  <2>. QED  BY <2>1, <2>2 DEF Seen
<1>3. c \in Threads /\ c.age = th.age
  <2>1. old \in Threads  BY <1>1 DEF Record
  <2>. QED  BY <2>1 DEF Threads
<1>4. t \in Record /\ t.threads = c /\ Agrees(pass.t, t)
  <2> HIDE DEF c
  <2>. QED  BY <1>1, <1>3 DEF Record, Agrees
<1>5. q = [pass EXCEPT !.at = "decide", !.seen = s, !.t = t]
  BY DEF Pass, Record
<1> HIDE DEF s, c, t
<1>6. q \in Pass /\ q.at = "decide" /\ q.key = pass.key /\ q.on = pass.on /\ q.t = t
  BY <1>2, <1>4, <1>5 DEF Pass, PassAt, Sampled
<1>. QED  BY <1>3, <1>4, <1>6

\* What the pass is about to do.
LEMMA PassActs ==
  ASSUME pass \in Pass, NEW do \in Effects, do.do # "wait", NEW q,
         q = [pass EXCEPT !.do = do, !.at = do.do]
  PROVE  /\ q \in Pass /\ q.at = do.do /\ q.at \in AtApply /\ q.do = do
         /\ q.key = pass.key /\ q.on = pass.on /\ q.t = pass.t /\ q.seen = pass.seen
         /\ q.busy = pass.busy /\ q.inFlight = pass.inFlight
<1>1. do.do \in AtApply  BY DEF Effects
<1>. QED  BY <1>1 DEF Pass, PassAt, Sampled

\* A dispatch that applies goes on to the send, or to the next agent.
LEMMA Hands ==
  ASSUME TypeInv, ApplyDispatch
  PROVE  /\ pass' \in Pass /\ pass'.on = pass.on
         /\ pass'.at = "loop" \/ (pass'.at = "send" /\ pass'.key = pass.key)
<1> DEFINE n == pass.handed + 1
           b == ~gone /\ turn = "idle"
<1>1. pass \in Pass  BY DEF TypeInv, TableTypes
<1>2. n \in Nat /\ b \in BOOLEAN  BY <1>1 DEF Pass
<1>3. pass' = NextKey \/ pass' = [pass EXCEPT !.at = "send", !.handed = n, !.sends = b]
  BY DEF ApplyDispatch
<1> HIDE DEF n, b
<1>4. CASE pass' = NextKey  BY <1>1, <1>4, MovesOn
<1>5. CASE pass' = [pass EXCEPT !.at = "send", !.handed = n, !.sends = b]
  BY <1>1, <1>2, <1>5 DEF Pass, PassAt
<1>. QED  BY <1>3, <1>4, <1>5

\* What is known when a decision is applied.
LEMMA Acting ==
  ASSUME TableTypes, SampleInv, pass.at \in AtApply
  PROVE  /\ pass.key \in Keys /\ pass.t \in Record /\ pass.seen \in Seen
         /\ pass.do \in Effects
         /\ pass.at = "dispatch" =>
              /\ ~InCycle(pass.t) /\ Open(pass.seen) /\ pass.do.rung \in Mine
              /\ pass.do.rung = RungOf(Fingerprint(pass.seen))
              /\ Signature(pass.seen) \notin pass.t.barren
              /\ pass.t.situation = Fingerprint(pass.seen) =>
                   ~(pass.t.attempts[pass.do.rung] >= Budget(pass.do.rung))
         /\ pass.at \in {"await", "verify"} =>
              InCycle(pass.t) /\ pass.t.cycle.phase = "working"
         /\ pass.at \in Outcomes =>
              /\ InCycle(pass.t) /\ pass.t.cycle.phase # "working"
              /\ pass.do.rung = pass.t.cycle.rung /\ pass.do.rung \in Mine
              /\ IF Signature(pass.seen) = pass.t.cycle.sig
                 THEN pass.at # "settle" /\ pass.do.barren = {pass.t.cycle.sig}
                 ELSE pass.do.barren = {}
<1>1. /\ pass.t \in Record /\ pass.seen \in Seen /\ pass.busy \in BOOLEAN
      /\ pass.inFlight \in BOOLEAN /\ pass.t.cycle.rung \in Rungs
  BY DEF TableTypes, Pass, Record, Cycle
<1>2. pass.key \in Keys /\ pass.do.do = pass.at
  BY DEF SampleInv, Sampled
<1>3. PICK late \in BOOLEAN :
         pass.do = AutopilotStep(pass.t, pass.seen, pass.busy, pass.inFlight, late)
  BY DEF SampleInv, Decided
<1> DEFINE t == pass.t
           w == pass.seen
           do == pass.do
           b == pass.busy
           f == pass.inFlight
<1>4. t \in Record /\ w \in Seen /\ b \in BOOLEAN /\ f \in BOOLEAN
      /\ do = AutopilotStep(t, w, b, f, late)
  BY <1>1, <1>3
<1> HIDE DEF t, w, do, b, f
<1>5. /\ do \in Effects
      /\ do.do = "dispatch" => /\ ~InCycle(t) /\ Open(w) /\ do.rung \in Mine
                               /\ do.rung = RungOf(Fingerprint(w))
                               /\ Signature(w) \notin t.barren
                               /\ t.situation = Fingerprint(w) =>
                                    ~(t.attempts[do.rung] >= Budget(do.rung))
      /\ do.do \in {"await", "verify"} => InCycle(t) /\ t.cycle.phase = "working"
      /\ do.do \in Outcomes =>
           /\ InCycle(t) /\ t.cycle.phase # "working" /\ do.rung = t.cycle.rung
           /\ IF Signature(w) = t.cycle.sig
              THEN do.do # "settle" /\ do.barren = {t.cycle.sig}
              ELSE do.barren = {}
  BY <1>4, StepMeans
<1>. QED  BY <1>1, <1>2, <1>5 DEF t, w, do, InCycle, Rungs

\* The pass sees threads, of now or cached, and leaves the rest as it was.
LEMMA ThreadsRead ==
  ASSUME TypeInv, SampleInv, PassReadsThreads
  PROVE  LET k == pass.key IN
         /\ pass' \in Pass /\ pass'.at = "decide" /\ pass'.key = k /\ pass'.on = pass.on
         /\ Agrees(pass.t, pass'.t)
         /\ Awaiting(pass.t) => pass'.t.threads.age = "after"
         /\ table' \in [Keys -> Record]
         /\ \A j \in Keys : /\ table'[j].enrolled = table[j].enrolled
                            /\ table'[j].verifying = table[j].verifying
                            /\ table'[j].verdict = table[j].verdict
                            /\ table'[j].verdictOf = table[j].verdictOf
                            /\ Agrees(table'[j], table[j])
<1>0. /\ table \in [Keys -> Record] /\ pass \in Pass /\ world \in [Keys -> Readings]
  BY DEF TypeInv, TableTypes, EnvTypes
<1> DEFINE k == pass.key
           w == world[k]
           old == pass.t.threads
           got == [theirs |-> w.theirs, ours |-> w.ours, age |-> "after"]
           none == [NoThreads EXCEPT !.age = "after"]
           see(r) == [pass EXCEPT !.at = "decide", !.seen.theirs = r.theirs,
                                  !.seen.ours = r.ours, !.t.threads.age = r.age]
<1>1. k \in Keys /\ w \in Readings /\ table[k] \in Record /\ old \in Threads
  <2>1. k \in Keys  BY DEF PassReadsThreads, SampleInv, Sampled
  <2>2. pass.t \in Record  BY <1>0 DEF Pass
  <2>. QED  BY <1>0, <2>1, <2>2 DEF Record
<1>2. /\ got \in Threads /\ got.age = "after" /\ none \in Threads /\ none.age = "after"
      /\ (CacheMayServe(pass.t) /\ Awaiting(pass.t)) => old.age = "after"
  BY <1>1 DEF Threads, Ages, NoThreads, CacheMayServe
<1> DEFINE P(th) == /\ pass' = see(th)
                    /\ Awaiting(pass.t) => th.age = "after"
                    /\ \/ table' = table
                       \/ table' = [table EXCEPT ![k].threads = th]
<1>3. PICK th \in Threads : P(th)
  <2>1. \/ CacheMayServe(pass.t) /\ pass' = see(old) /\ table' = table
        \/ \E read \in {got, none} :
              /\ pass' = see(read)
              /\ table' = IF Tracked(k) THEN [table EXCEPT ![k].threads = read] ELSE table
    BY DEF PassReadsThreads
  <2> HIDE DEF got, none, see, k, old
  <2>2. CASE CacheMayServe(pass.t) /\ pass' = see(old) /\ table' = table
    BY <1>1, <1>2, <2>2
  <2>3. ASSUME NEW read \in {got, none}, pass' = see(read),
               table' = table \/ table' = [table EXCEPT ![k].threads = read]
        PROVE  \E th \in Threads : P(th)
    <3>1. read \in Threads /\ read.age = "after"  BY <1>2
    <3>. QED  BY <2>3, <3>1
  <2>. QED  BY <2>1, <2>2, <2>3
<1>4. /\ pass' \in Pass /\ pass'.at = "decide" /\ pass'.key = k /\ pass'.on = pass.on
      /\ pass'.t.threads.age = th.age /\ Agrees(pass.t, pass'.t)
  BY <1>0, <1>3, ThreadsAreSeen
<1>5. /\ table' \in [Keys -> Record]
      /\ \A j \in Keys : /\ table'[j].enrolled = table[j].enrolled
                         /\ table'[j].verifying = table[j].verifying
                         /\ table'[j].verdict = table[j].verdict
                         /\ table'[j].verdictOf = table[j].verdictOf
                         /\ Agrees(table'[j], table[j])
  <2> DEFINE u == [table[k] EXCEPT !.threads = th]
             t == table[k]
  <2>1. u \in Record /\ u.enrolled = t.enrolled /\ u.verifying = t.verifying
        /\ u.verdict = t.verdict /\ u.verdictOf = t.verdictOf /\ Agrees(u, t)
    BY <1>1 DEF Record, Agrees
  <2>2. table' = table \/ table' = [table EXCEPT ![k] = u]  BY <1>3
  <2> HIDE DEF u, k
  <2>. QED  BY <1>0, <1>1, <2>1, <2>2 DEF Agrees
<1>. QED  BY <1>3, <1>4, <1>5

\* A pass that read git or the pull request goes on to the next read or the
\* decision; only an open pull request has threads to read.
LEMMA WorldRead ==
  ASSUME TypeInv, SampleInv, PassReadsGit \/ PassReadsPr
  PROVE  /\ pass' \in Pass /\ pass'.at \in {"pr", "threads", "decide"}
         /\ pass'.key = pass.key /\ pass'.on = pass.on /\ pass'.t = pass.t
         /\ pass.at \in {"git", "pr"}
         /\ ~Open(pass.seen) => pass'.at = "threads" \/ ~Open(pass'.seen)
<1> DEFINE w == world[pass.key]
           r == pass.seen
           p == IF Open(w) THEN "threads" ELSE "decide"
<1>0. pass \in Pass /\ world \in [Keys -> Readings]
  BY DEF TypeInv, TableTypes, EnvTypes
<1>1. w \in Readings /\ pass.at \in {"git", "pr"}
  BY <1>0 DEF PassReadsGit, PassReadsPr, SampleInv, Sampled
<1>2. r \in Seen /\ "pr" \in PassAt /\ "decide" \in PassAt /\ "threads" \in PassAt
  BY <1>0 DEF Pass, PassAt, Sampled
<1>3. PICK s \in Seen, at \in {"pr", "threads", "decide"} :
         /\ pass' = [pass EXCEPT !.at = at, !.seen = s]
         /\ s.pr = r.pr \/ at = "threads" \/ ~Open(s)
  <2> DEFINE Goal == \E s \in Seen, at \in {"pr", "threads", "decide"} :
                        /\ pass' = [pass EXCEPT !.at = at, !.seen = s]
                        /\ s.pr = r.pr \/ at = "threads" \/ ~Open(s)
  <2>1. ASSUME pass' = [pass EXCEPT !.at = "pr"] \/ pass' = [pass EXCEPT !.at = "decide"]
        PROVE  Goal
    <3>1. \A at \in PassAt : [pass EXCEPT !.at = at] = [pass EXCEPT !.at = at, !.seen = r]
      BY <1>0 DEF Pass
    <3> HIDE DEF r
    <3>. QED  BY <1>2, <2>1, <3>1
  <2>2. CASE PassReadsGit
    <3> DEFINE s == [r EXCEPT !.git = w.git, !.head = w.head,
                       !.conflict = w.conflict, !.edits = w.edits, !.staged = w.staged,
                       !.unpushed = w.unpushed, !.ahead = w.ahead]
    <3>1. s \in Seen /\ s.pr = r.pr  BY <1>1, <1>2, GitIsSeen
    <3>2. pass' = [pass EXCEPT !.at = "pr", !.seen = s] \/ pass' = [pass EXCEPT !.at = "pr"]
      BY <2>2 DEF PassReadsGit
    <3> HIDE DEF s
    <3>. QED  BY <2>1, <3>1, <3>2
  <2>3. CASE PassReadsPr
    <3> DEFINE s == [r EXCEPT !.pr = w.pr, !.merge = w.merge,
                       !.mergeable = w.mergeable, !.failing = w.failing]
    <3>0. s = [r EXCEPT !.pr = w.pr, !.merge = w.merge,
                        !.mergeable = w.mergeable, !.failing = w.failing]
      OBVIOUS
    <3>1. s \in Seen /\ s.pr = w.pr
      <4> HIDE DEF s, r, w
      <4>. QED  BY <1>1, <1>2, <3>0, PrIsSeen
    <3>2. pass' = [pass EXCEPT !.at = p, !.seen = s] \/ pass' = [pass EXCEPT !.at = "decide"]
      BY <1>0, <2>3 DEF PassReadsPr, Pass
    <3>3. p \in {"pr", "threads", "decide"} /\ (p = "threads" \/ ~Open(s))
      BY <3>1 DEF Open
    <3> HIDE DEF s, p
    <3>. QED  BY <2>1, <3>1, <3>2, <3>3
  <2>. QED  BY <2>2, <2>3
<1>4. /\ pass' \in Pass /\ pass'.at = at /\ pass'.key = pass.key /\ pass'.on = pass.on
      /\ pass'.t = pass.t /\ pass'.seen = s
  <2>1. at \in PassAt  BY DEF PassAt, Sampled
  <2>2. pass' = [pass EXCEPT !.at = at, !.seen = s]  BY <1>3
  <2>. QED  BY <1>0, <2>1, <2>2 DEF Pass
<1>. QED  BY <1>1, <1>3, <1>4 DEF Open

\* What a decision makes of the pass: on to the next checkout, or to apply it.
LEMMA Decides ==
  ASSUME TypeInv, NEW x \in Keys, NEW late \in BOOLEAN, PassDecides(x, late)
  PROVE  /\ pass' \in Pass
         /\ \/ pass' = Asleep \/ pass' = NextKey
            \/ /\ Decided' /\ pass'.do.do = pass'.at /\ pass'.at \in AtApply
               /\ pass'.key = pass.key /\ pass'.on = pass.on
               /\ pass'.t = pass.t /\ pass'.seen = pass.seen
<1> DEFINE do == AutopilotStep(pass.t, pass.seen, pass.busy, pass.inFlight, late)
<1>0. pass \in Pass /\ generation \in Nat  BY DEF TypeInv, TableTypes, SwitchTypes
<1>1. do \in Effects
  <2>1. pass.t \in Record /\ pass.seen \in Seen /\ pass.busy \in BOOLEAN
        /\ pass.inFlight \in BOOLEAN
    BY <1>0 DEF Pass
  <2>. QED  BY <2>1, StepMeans
<1>2. \/ pass' = Asleep \/ pass' = NextKey
      \/ do.do # "wait" /\ pass' = [pass EXCEPT !.do = do, !.at = do.do]
  BY DEF PassDecides
<1>3. CASE pass' = Asleep  BY <1>3, AsleepType
<1>4. CASE pass' = NextKey  BY <1>0, <1>4, MovesOn
<1>5. CASE do.do # "wait" /\ pass' = [pass EXCEPT !.do = do, !.at = do.do]
  <2> DEFINE d == do
  <2>1. d = AutopilotStep(pass.t, pass.seen, pass.busy, pass.inFlight, late)  OBVIOUS
  <2>2. d \in Effects /\ d.do # "wait" /\ pass' = [pass EXCEPT !.do = d, !.at = d.do]
    BY <1>1, <1>5
  <2> HIDE DEF d, do
  <2>3. /\ pass' \in Pass /\ pass'.at = d.do /\ pass'.at \in AtApply /\ pass'.do = d
        /\ pass'.key = pass.key /\ pass'.on = pass.on
        /\ pass'.t = pass.t /\ pass'.seen = pass.seen
        /\ pass'.busy = pass.busy /\ pass'.inFlight = pass.inFlight
    BY <1>0, <2>2, PassActs
  <2>4. Decided'
    <3>1. pass'.do = AutopilotStep(pass'.t, pass'.seen, pass'.busy, pass'.inFlight, late)
      BY <2>1, <2>3
    <3>. QED  BY <3>1 DEF Decided
  <2>. QED  BY <2>3, <2>4
<1>. QED  BY <1>2, <1>3, <1>4, <1>5

-----------------------------------------------------------------------------
(* Layer 1: types                                                          *)

\* The types hold initially.
LEMMA TypeInit == Init => TypeInv
<1> SUFFICES ASSUME Init PROVE TypeInv
  OBVIOUS
<1>1. SwitchTypes
  <2>1. MaxEvents \in Nat  BY AutopilotAssumption
  <2>2. off \in BOOLEAN /\ gone \in BOOLEAN /\ setter = "idle" /\ events = 0 /\ generation = 0
    BY DEF Init
  <2>. QED  BY <2>1, <2>2 DEF SwitchTypes
<1>2. EnvTypes  BY DEF Init, EnvTypes
<1>3. TableTypes  BY FreshRecord, AsleepType DEF Init, TableTypes
<1>4. ObserverTypes  BY DEF Init, ObserverTypes
<1>. QED  BY <1>1, <1>2, <1>3, <1>4 DEF TypeInv

\* A failed read, a failed send or an act of the user is counted.
LEMMA Counted ==
  ASSUME SwitchTypes, Happens \/ UNCHANGED events, UNCHANGED <<generation, setter, off>>,
         gone' \in BOOLEAN
  PROVE  SwitchTypes'
  BY AutopilotAssumption DEF SwitchTypes, Happens

\* Marking samples as outdated keeps their type.
LEMMA OutdatedType ==
  ASSUME NEW js \in SUBSET Jobs, NEW ks
  PROVE  Outdated(js, ks) \in SUBSET Jobs
<1> SUFFICES ASSUME NEW j \in js
             PROVE  [j EXCEPT !.of = IF j.key \in ks THEN "old" ELSE @] \in Jobs
  BY DEF Outdated
<1>1. j \in Jobs  OBVIOUS
<1>. QED  BY <1>1 DEF Jobs

\* The effects a pass has on what it is about.
LEMMA PassTypes ==
  ASSUME TypeInv, SampleInv, PassStep
  PROVE  TableTypes' /\ ObserverTypes'
<1>0. /\ table \in [Keys -> Record] /\ pass \in Pass /\ jobs \in SUBSET Jobs
      /\ generation \in Nat /\ streak \in [Keys -> Nat] /\ dead \in [Keys -> SUBSET Sigs]
      /\ world \in [Keys -> Readings] /\ off \in BOOLEAN /\ gone \in BOOLEAN
  BY DEF TypeInv, TableTypes, ObserverTypes, SwitchTypes, EnvTypes
<1> USE DEF observers, worldVars, agentVars, switchVars
<1>1. ASSUME PassStart \/ PassReadsSwitches \/ PassEnds
             \/ \E k \in Keys : PassPicks(k)
      PROVE  TableTypes' /\ ObserverTypes'
  <2>1. UNCHANGED <<table, jobs, streak, dead>>
    BY <1>1 DEF PassStart, PassReadsSwitches, PassEnds, PassPicks
  <2>2. pass' \in Pass
    <3>1. CASE PassStart  BY <3>1, Starts
    <3>2. CASE PassReadsSwitches  BY <3>2, ReadsSwitches
    <3>3. CASE PassEnds  BY <3>3, AsleepType DEF PassEnds
    <3>4. ASSUME NEW k \in Keys, PassPicks(k) PROVE pass' \in Pass
      BY <3>4, Picks
    <3>. QED  BY <1>1, <3>1, <3>2, <3>3, <3>4
  <2>. QED  BY <1>0, <2>1, <2>2 DEF TableTypes, ObserverTypes
<1>2. ASSUME PassForgets PROVE TableTypes' /\ ObserverTypes'
  <2>1. table' \in [Keys -> Record]
    BY <1>0, <1>2, FreshRecord DEF PassForgets
  <2>2. jobs' \in SUBSET Jobs  BY <1>0, <1>2, OutdatedType DEF PassForgets
  <2>3. pass' \in Pass /\ UNCHANGED <<streak, dead>>
    BY <1>0, <1>2, MovesOn DEF PassForgets
  <2>. QED  BY <1>0, <2>1, <2>2, <2>3 DEF TableTypes, ObserverTypes
<1>3. ASSUME PassEnrolls PROVE TableTypes' /\ ObserverTypes'
  <2> DEFINE k == pass.key
             t == IF Tracked(k) THEN table[k] ELSE Fresh
  <2>1. k \in Keys /\ t \in Record /\ pass' \in Pass /\ table' = [table EXCEPT ![k] = t]
    BY <1>3, Enrolls
  <2>2. /\ jobs' = jobs
        /\ streak' = [streak EXCEPT ![k] = IF Tracked(k) THEN @ ELSE 0]
        /\ dead' = [dead EXCEPT ![k] = IF Tracked(k) THEN @ ELSE {}]
    BY <1>3 DEF PassEnrolls
  <2> HIDE DEF k, t
  <2>. QED  BY <1>0, <2>1, <2>2 DEF TableTypes, ObserverTypes
<1>4. ASSUME PassReadsGit \/ PassReadsPr PROVE TableTypes' /\ ObserverTypes'
  <2>1. UNCHANGED <<table, jobs, streak, dead>>
    BY <1>4 DEF PassReadsGit, PassReadsPr
  <2>2. pass' \in Pass  BY <1>4, WorldRead
  <2>. QED  BY <1>0, <2>1, <2>2 DEF TableTypes, ObserverTypes
<1>5. ASSUME PassReadsThreads PROVE TableTypes' /\ ObserverTypes'
  <2>1. pass' \in Pass /\ table' \in [Keys -> Record]  BY <1>5, ThreadsRead
  <2>2. UNCHANGED <<jobs, streak, dead>>  BY <1>5 DEF PassReadsThreads
  <2>. QED  BY <1>0, <2>1, <2>2 DEF TableTypes, ObserverTypes
<1>6. ASSUME NEW k \in Keys, NEW late \in BOOLEAN, PassDecides(k, late)
      PROVE  TableTypes' /\ ObserverTypes'
  <2>1. pass' \in Pass  BY <1>6, Decides
  <2>2. UNCHANGED <<table, jobs, streak, dead>>  BY <1>6 DEF PassDecides
  <2>. QED  BY <1>0, <2>1, <2>2 DEF TableTypes, ObserverTypes
<1>7. ASSUME ApplyDispatch PROVE TableTypes' /\ ObserverTypes'
  <2> DEFINE k == pass.key
             t == table[k]
             rung == pass.do.rung
             w == pass.seen
  <2>1. /\ k \in Keys /\ t \in Record /\ rung \in Mine /\ w \in Seen
    BY <1>0, <1>7, Acting DEF ApplyDispatch, AtApply, TypeInv
  <2>2. /\ table' = table \/ table' = [table EXCEPT ![k] = OpenCycle(t, rung, w)]
        /\ streak' = streak \/ streak' = [streak EXCEPT ![k] = 1]
              \/ streak' = [streak EXCEPT ![k] = @ + 1]
        /\ UNCHANGED <<jobs, dead>>
    <3>1. streak = [streak EXCEPT ![k] = @]  BY <1>0, <2>1
    <3>. QED  BY <1>7, <3>1 DEF ApplyDispatch
  <2>3. OpenCycle(t, rung, w) \in Record  BY <2>1, OpenCycleIs
  <2> HIDE DEF k, t, rung, w
  <2>4. pass' \in Pass  BY <1>7, Hands
  <2>5. table' \in [Keys -> Record]  BY <1>0, <2>1, <2>2, <2>3
  <2>6. streak' \in [Keys -> Nat]  BY <1>0, <2>1, <2>2
  <2>. QED  BY <1>0, <2>2, <2>4, <2>5, <2>6 DEF TableTypes, ObserverTypes
<1>8. ASSUME ApplySend PROVE TableTypes' /\ ObserverTypes'
  <2>1. pass' \in Pass /\ UNCHANGED <<table, jobs, streak, dead>>
    BY <1>0, <1>8, MovesOn DEF ApplySend
  <2>. QED  BY <1>0, <2>1 DEF TableTypes, ObserverTypes
<1>9. ASSUME ApplyAwait PROVE TableTypes' /\ ObserverTypes'
  <2> DEFINE k == pass.key
             t == table[k]
             b == pass.at = "verify"
             job == [key |-> k, rung |-> t.cycle.rung, attempt |-> t.cycle.attempt,
                     of |-> IF Tracked(k) THEN "own" ELSE "old"]
             u == Awaits(t, b)
  <2>1. k \in Keys /\ t \in Record /\ b \in BOOLEAN
    BY <1>0, <1>9, Acting DEF ApplyAwait, AtApply, TypeInv
  <2>2. /\ table' = table \/ table' = [table EXCEPT ![k] = u]
        /\ jobs' = jobs \/ jobs' = jobs \union {job}
        /\ pass' = NextKey /\ UNCHANGED <<streak, dead>>
    BY <1>9 DEF ApplyAwait, Awaits
  <2>3. u \in Record
    <3> HIDE DEF b
    <3>. QED  BY <2>1, AdvanceIs
  <2>4. job \in Jobs
    <3>1. t.cycle.rung \in Rungs /\ t.cycle.attempt \in Nat  BY <2>1 DEF Record, Cycle
    <3>. QED  BY <2>1, <3>1 DEF Jobs
  <2> HIDE DEF k, t, b, job, u
  <2>5. table' \in [Keys -> Record]  BY <1>0, <2>1, <2>2, <2>3
  <2>6. jobs' \in SUBSET Jobs  BY <1>0, <2>2, <2>4
  <2>7. pass' \in Pass  BY <1>0, <2>2, MovesOn
  <2>. QED  BY <1>0, <2>2, <2>5, <2>6, <2>7 DEF TableTypes, ObserverTypes
<1>10. ASSUME ApplyOutcome PROVE TableTypes' /\ ObserverTypes'
  <2> DEFINE k == pass.key
             t == table[k]
             rung == pass.do.rung
             bs == pass.do.barren
             u == Settles(t, rung)
             v == Retries(t, rung, bs)
             sig == t.cycle.sig
             n == IF pass.at = "settle" THEN 0 ELSE streak[k]
             d == IF Tracked(k) /\ Signature(pass.seen) = t.cycle.sig
                  THEN dead[k] \union {sig} ELSE dead[k]
  <2>1. /\ k \in Keys /\ t \in Record /\ rung \in Mine /\ bs \in SUBSET Sigs /\ sig \in Sigs
    <3>1. k \in Keys /\ rung \in Mine /\ pass.do \in Effects
      BY <1>10, Acting DEF ApplyOutcome, AtApply, Outcomes, TypeInv
    <3>2. t \in Record  BY <1>0, <3>1
    <3>. QED  BY <3>1, <3>2 DEF Effects, Record, Cycle
  <2>2. /\ table' = table \/ table' = [table EXCEPT ![k] = u] \/ table' = [table EXCEPT ![k] = v]
        /\ streak' = [streak EXCEPT ![k] = n]
        /\ dead' = [dead EXCEPT ![k] = d]
        /\ jobs' = Outdated(jobs, {k}) /\ pass' = NextKey
    BY <1>0, <1>10, <2>1 DEF ApplyOutcome, Settles, Retries
  <2>3. u \in Record /\ v \in Record  BY <2>1, SettleIs, RetryIs
  <2>4. n \in Nat /\ d \in SUBSET Sigs  BY <1>0, <2>1
  <2> HIDE DEF k, t, u, v, n, d
  <2>5. table' \in [Keys -> Record]  BY <1>0, <2>1, <2>2, <2>3
  <2>6. jobs' \in SUBSET Jobs  BY <1>0, <2>2, OutdatedType
  <2>7. pass' \in Pass  BY <1>0, <2>2, MovesOn
  <2>8. streak' \in [Keys -> Nat] /\ dead' \in [Keys -> SUBSET Sigs]
    BY <1>0, <2>1, <2>2, <2>4
  <2>. QED  BY <2>5, <2>6, <2>7, <2>8 DEF TableTypes, ObserverTypes
<1>. QED
  BY <1>1, <1>2, <1>3, <1>4, <1>5, <1>6, <1>7, <1>8, <1>9, <1>10 DEF PassStep


\* A verification, as it lands: what it may change of the record t.
Lands(t, u, j) ==
    IF ~t.enrolled THEN u = t
    ELSE /\ u.enrolled = t.enrolled /\ ~u.verifying
         /\ u.cycle = t.cycle /\ u.attempts = t.attempts
         /\ u.situation = t.situation /\ u.barren = t.barren
         /\ \/ u.verdict = t.verdict /\ u.verdictOf = t.verdictOf
            \/ u.verdictOf = j.of

\* A verification that lands changes the record of its own agent only.
LEMMA Landing ==
  ASSUME TableTypes, NEW j \in jobs, VerifyLands(j)
  PROVE  /\ jobs' = jobs \ {j} /\ j \in Jobs
         /\ \A k \in Keys : k # j.key => table'[k] = table[k]
         /\ Lands(table[j.key], table'[j.key], j)
         /\ table' \in [Keys -> Record]
<1> DEFINE k == j.key
           t == table[k]
<1>0. table \in [Keys -> Record] /\ j \in Jobs /\ k \in Keys /\ t \in Record /\ j.of \in {"own", "old"}
  BY DEF TableTypes, Jobs
<1>1. jobs' = jobs \ {j}  BY DEF VerifyLands
<1>2. CASE ~t.enrolled
  <2>1. table' = table  BY <1>2 DEF VerifyLands, Tracked
  <2>. QED  BY <1>0, <1>1, <1>2, <2>1 DEF Lands
<1>3. CASE t.enrolled
  <2>1. PICK report \in {"none", "pass", "fail"} :
           table' = [table EXCEPT
                       ![j.key].verifying = FALSE,
                       ![j.key].verdict = IF SameCycle(j) THEN report ELSE @,
                       ![j.key].verdictOf = IF SameCycle(j) THEN j.of ELSE @]
    BY <1>3 DEF VerifyLands, Tracked
  <2> DEFINE v == IF SameCycle(j) THEN report ELSE t.verdict
             o == IF SameCycle(j) THEN j.of ELSE t.verdictOf
             u == [t EXCEPT !.verifying = FALSE, !.verdict = v, !.verdictOf = o]
  <2>2. table' = [table EXCEPT ![k] = u]
    BY <1>0, <2>1 DEF Record
  <2>3. v \in {"none", "pass", "fail"} /\ o \in {"own", "old"}  BY <1>0 DEF Record
  <2>4. /\ u \in Record /\ u.enrolled = t.enrolled /\ ~u.verifying
        /\ u.verdict = v /\ u.verdictOf = o
        /\ u.cycle = t.cycle /\ u.attempts = t.attempts /\ u.situation = t.situation
        /\ u.barren = t.barren
    <3> HIDE DEF v, o, t
    <3>. QED  BY <1>0, <2>3 DEF Record
  <2>5. table'[k] = u /\ table' \in [Keys -> Record]
        /\ \A x \in Keys : x # k => table'[x] = table[x]
    <3> HIDE DEF u
    <3>. QED  BY <1>0, <2>2, <2>4
  <2>6. (v = t.verdict /\ o = t.verdictOf) \/ o = j.of  OBVIOUS
  <2> HIDE DEF u, v, o
  <2>. QED  BY <1>0, <1>1, <1>3, <2>4, <2>5, <2>6 DEF Lands
<1>. QED  BY <1>2, <1>3

\* Every step keeps the types.
LEMMA TypeStep ==
  ASSUME TypeInv, SampleInv, [Next]_vars
  PROVE  TypeInv'
<1> USE DEF observers, worldVars, agentVars, switchVars
<1>0. /\ table \in [Keys -> Record] /\ pass \in Pass /\ jobs \in SUBSET Jobs
      /\ streak \in [Keys -> Nat] /\ dead \in [Keys -> SUBSET Sigs]
      /\ world \in [Keys -> Readings] /\ off \in BOOLEAN /\ gone \in BOOLEAN
      /\ deleg \in [Keys -> {"none", "queued", "recorded", "sent"}]
      /\ review \in SUBSET Keys /\ MaxEvents \in Nat /\ events \in 0..MaxEvents
      /\ generation \in Nat /\ setter \in {"idle", "written", "bumped"}
  BY AutopilotAssumption DEF TypeInv, TableTypes, ObserverTypes, SwitchTypes, EnvTypes
<1>1. ASSUME PassStep PROVE TypeInv'
  <2>1. SwitchTypes'
    <3>1. /\ Happens \/ UNCHANGED events
          /\ UNCHANGED <<generation, setter, off, gone>>
      BY <1>1 DEF PassStep, PassStart, PassReadsSwitches, PassEnds, PassPicks, PassForgets,
         PassEnrolls, PassReadsGit, PassReadsPr, PassReadsThreads, PassDecides,
         ApplyDispatch, ApplySend, ApplyAwait, ApplyOutcome
    <3>. QED  BY <1>0, <3>1, Counted DEF TypeInv
  <2>2. EnvTypes'
    <3>1. UNCHANGED <<review, world>>
      BY <1>1 DEF PassStep, PassStart, PassReadsSwitches, PassEnds, PassPicks, PassForgets,
         PassEnrolls, PassReadsGit, PassReadsPr, PassReadsThreads, PassDecides,
         ApplyDispatch, ApplySend, ApplyAwait, ApplyOutcome
    <3>2. deleg' \in [Keys -> {"none", "queued", "recorded", "sent"}]
      <4>1. CASE ApplyDispatch  BY <1>0, <4>1 DEF ApplyDispatch
      <4>2. CASE ApplySend  BY <1>0, <4>2 DEF ApplySend
      <4>3. CASE UNCHANGED deleg  BY <1>0, <4>3
      <4>. QED
        BY <1>1, <4>1, <4>2, <4>3 DEF PassStep, PassStart, PassReadsSwitches, PassEnds,
           PassPicks, PassForgets, PassEnrolls, PassReadsGit, PassReadsPr, PassReadsThreads,
           PassDecides, ApplyAwait, ApplyOutcome
    <3>. QED  BY <1>0, <3>1, <3>2 DEF EnvTypes
  <2>. QED  BY <1>1, <2>1, <2>2, PassTypes DEF TypeInv
<1>2. ASSUME NEW j \in jobs, VerifyLands(j) PROVE TypeInv'
  <2>1. table' \in [Keys -> Record] /\ jobs' \in SUBSET Jobs
    BY <1>0, <1>2, Landing DEF TypeInv
  <2>2. UNCHANGED <<switchVars, pass, agentVars, worldVars, observers>>
    BY <1>2 DEF VerifyLands
  <2>3. TableTypes'  BY <1>0, <2>1, <2>2 DEF TableTypes
  <2>. QED  BY <2>2, <2>3 DEF TypeInv, SwitchTypes, EnvTypes, ObserverTypes
<1>3. ASSUME SetStep PROVE TypeInv'
  <2>1. SwitchTypes'
    <3>1. CASE SetWrites
      BY <1>0, <3>1 DEF SetWrites, Happens, SwitchTypes, TypeInv
    <3>2. CASE SetBumps
      BY <1>0, <3>2 DEF SetBumps, SwitchTypes, TypeInv
    <3>3. CASE SetRemoves
      BY <1>0, <3>3 DEF SetRemoves, SwitchTypes, TypeInv
    <3>. QED  BY <1>3, <3>1, <3>2, <3>3 DEF SetStep
  <2>2. TableTypes'
    <3>1. CASE SetRemoves
      <4>1. table' \in [Keys -> Record]  BY <1>0, <3>1, FreshRecord DEF SetRemoves
      <4>2. jobs' \in SUBSET Jobs  BY <1>0, <3>1, OutdatedType DEF SetRemoves
      <4>. QED  BY <1>0, <3>1, <4>1, <4>2 DEF SetRemoves, TableTypes
    <3>2. CASE UNCHANGED <<table, pass, jobs>>  BY <1>0, <3>2 DEF TableTypes
    <3>. QED  BY <1>3, <3>1, <3>2 DEF SetStep, SetWrites, SetBumps
  <2>3. EnvTypes' /\ ObserverTypes'
    BY <1>3 DEF SetStep, SetWrites, SetBumps, SetRemoves, TypeInv, EnvTypes, ObserverTypes
  <2>. QED  BY <2>1, <2>2, <2>3 DEF TypeInv
<1>4. ASSUME \/ TurnStarts \/ TurnEnds
             \/ \E k \in Keys : WorldMoves(k) \/ DelegationMoves(k) \/ UserActs(k) \/ ReviewEnds(k)
      PROVE  TypeInv'
  <2>1. UNCHANGED <<generation, setter, off, table, pass, jobs, streak, dead>>
    BY <1>4 DEF TurnStarts, TurnEnds, WorldMoves, DelegationMoves, UserActs, ReviewEnds
  <2>2. SwitchTypes'
    <3>1. (Happens \/ UNCHANGED events) /\ gone' \in BOOLEAN
      BY <1>0, <1>4 DEF TurnStarts, TurnEnds, WorldMoves, DelegationMoves, UserActs, ReviewEnds
    <3>. QED  BY <2>1, <3>1, Counted DEF TypeInv
  <2>3. EnvTypes'
    <3>1. ASSUME NEW k \in Keys, WorldMoves(k) PROVE EnvTypes'
      <4>1. PICK w \in Worlds[k] : world' = [world EXCEPT ![k] = w]  BY <3>1 DEF WorldMoves
      <4>2. w \in Readings  BY DEF Readings
      <4>. QED  BY <1>0, <3>1, <4>1, <4>2 DEF WorldMoves, EnvTypes
    <3>2. ASSUME NEW k \in Keys, DelegationMoves(k) PROVE EnvTypes'
      BY <1>0, <3>2 DEF DelegationMoves, EnvTypes
    <3>3. ASSUME NEW k \in Keys, UserActs(k) PROVE EnvTypes'
      BY <1>0, <3>3 DEF UserActs, EnvTypes
    <3>4. ASSUME TurnStarts \/ TurnEnds \/ \E k \in Keys : ReviewEnds(k) PROVE EnvTypes'
      BY <1>0, <3>4 DEF TurnStarts, TurnEnds, ReviewEnds, EnvTypes
    <3>. QED  BY <1>4, <3>1, <3>2, <3>3, <3>4
  <2>. QED  BY <1>0, <2>1, <2>2, <2>3 DEF TypeInv, TableTypes, ObserverTypes
<1>5. ASSUME UNCHANGED vars PROVE TypeInv'
  BY <1>5 DEF vars, TypeInv, SwitchTypes, EnvTypes, TableTypes, ObserverTypes
<1>. QED  BY <1>1, <1>2, <1>3, <1>4, <1>5 DEF Next


-----------------------------------------------------------------------------
(* Layer 2: what the pass sampled                                          *)

\* No cycle is sampled initially.
LEMMA SampleInit == Init => SampleInv
  BY AsleepType DEF Init, SampleInv, Sampled, AtApply, Outcomes

\* Between two samples, a checkout is forgotten or stays as it is.
LEMMA KeepSample ==
  ASSUME SampleInv, UNCHANGED pass,
         \A k \in Keys : table'[k].enrolled =>
            /\ table[k].enrolled /\ Agrees(table'[k], table[k])
            /\ ~table[k].verifying => ~table'[k].verifying
  PROVE  SampleInv'
<1>1. (pass.at \in AtApply => Decided)' <=> (pass.at \in AtApply => Decided)
  BY DEF Decided
<1>2. pass.at \in Sampled => pass.key \in Keys  BY DEF SampleInv
<1>. QED  BY <1>1, <1>2 DEF SampleInv, Tracked, Agrees

\* A pass that is not in the middle of a checkout has sampled nothing.
LEMMA NoSample ==
  ASSUME pass'.at \in {"sleep", "switches", "loop"}
  PROVE  SampleInv'
  BY DEF SampleInv, Sampled, AtApply, Outcomes

\* Every step keeps the relation of samples and cycles.
LEMMA SampleStep ==
  ASSUME TypeInv, SampleInv, [Next]_vars
  PROVE  SampleInv'
<1> USE DEF observers, worldVars, agentVars, switchVars
<1>0. /\ table \in [Keys -> Record] /\ pass \in Pass /\ generation \in Nat
      /\ world \in [Keys -> Readings]
  BY DEF TypeInv, TableTypes, SwitchTypes, EnvTypes
<1>1. NextKey.at = "loop" /\ Asleep.at = "sleep"
  BY <1>0, MovesOn, AsleepType
<1>2. ASSUME PassStart \/ PassReadsSwitches \/ PassEnds \/ PassForgets \/ ApplySend
             \/ ApplyAwait \/ ApplyOutcome
      PROVE  SampleInv'
  <2>1. CASE PassStart  BY <2>1, Starts, NoSample
  <2>2. CASE PassReadsSwitches  BY <2>2, ReadsSwitches, NoSample
  <2>3. CASE pass' = NextKey \/ pass' = Asleep  BY <1>1, <2>3, NoSample
  <2>. QED
    BY <1>2, <2>1, <2>2, <2>3 DEF PassEnds, PassForgets, ApplySend, ApplyAwait, ApplyOutcome
<1>3. ASSUME NEW k \in Keys, PassPicks(k) PROVE SampleInv'
  <2>1. pass'.at = "enroll" /\ pass'.key = k  BY <1>3, Picks
  <2>. QED  BY <2>1 DEF SampleInv, Sampled, AtApply, Outcomes
<1>4. ASSUME PassEnrolls PROVE SampleInv'
  <2> DEFINE k == pass.key
             t == IF Tracked(k) THEN table[k] ELSE Fresh
  <2>1. /\ k \in Keys /\ table' = [table EXCEPT ![k] = t]
        /\ \/ pass'.at = "loop"
           \/ pass'.at \in {"git", "decide"} /\ pass'.key = k /\ pass'.t = t /\ ~t.verifying
    BY <1>4, Enrolls
  <2> HIDE DEF k, t
  <2>2. table'[k] = t  BY <1>0, <2>1
  <2>3. CASE pass'.at = "loop"  BY <2>3, NoSample
  <2>4. CASE pass'.at \in {"git", "decide"} /\ pass'.key = k /\ pass'.t = t /\ ~t.verifying
    BY <2>1, <2>2, <2>4 DEF SampleInv, Tracked, Sampled, AtApply, Outcomes, Agrees
  <2>. QED  BY <2>1, <2>3, <2>4
<1>5. ASSUME PassReadsGit \/ PassReadsPr PROVE SampleInv'
  <2>1. /\ pass'.at \in {"pr", "threads", "decide"} /\ pass'.key = pass.key
        /\ pass'.t = pass.t /\ pass.at \in Sampled
    BY <1>5, WorldRead DEF Sampled
  <2>2. table' = table  BY <1>5 DEF PassReadsGit, PassReadsPr
  <2>. QED  BY <2>1, <2>2 DEF SampleInv, Sampled, AtApply, Outcomes, Tracked
<1>6. ASSUME PassReadsThreads PROVE SampleInv'
  <2>1. /\ pass'.at = "decide" /\ pass'.key = pass.key /\ Agrees(pass.t, pass'.t)
        /\ \A j \in Keys : /\ table'[j].enrolled = table[j].enrolled
                           /\ table'[j].verifying = table[j].verifying
                           /\ Agrees(table'[j], table[j])
    BY <1>6, ThreadsRead
  <2>2. pass.key \in Keys /\ pass.at \in Sampled
    BY <1>6 DEF PassReadsThreads, SampleInv, Sampled
  <2>3. Tracked(pass.key) => Agrees(table[pass.key], pass.t) /\ ~table[pass.key].verifying
    BY <2>2 DEF SampleInv
  <2>4. pass'.at \notin AtApply /\ pass'.at \in Sampled  BY <2>1 DEF Sampled, AtApply, Outcomes
  <2>5. table'[pass.key].enrolled =>
          Agrees(table'[pass.key], pass'.t) /\ ~table'[pass.key].verifying
    BY <2>1, <2>2, <2>3 DEF Agrees, Tracked
  <2>. QED  BY <2>1, <2>2, <2>4, <2>5 DEF SampleInv, Tracked
<1>7. ASSUME NEW x \in Keys, NEW late \in BOOLEAN, PassDecides(x, late) PROVE SampleInv'
  <2>1. table' = table /\ pass.at \in Sampled  BY <1>7 DEF PassDecides, Sampled
  <2>2. CASE pass' = Asleep \/ pass' = NextKey  BY <1>1, <2>2, NoSample
  <2>3. CASE /\ Decided' /\ pass'.do.do = pass'.at /\ pass'.at \in AtApply
             /\ pass'.key = pass.key /\ pass'.on = pass.on
             /\ pass'.t = pass.t /\ pass'.seen = pass.seen
    BY <2>1, <2>3 DEF SampleInv, Tracked
  <2>. QED  BY <1>7, <2>2, <2>3, Decides
<1>8. ASSUME ApplyDispatch PROVE SampleInv'
  <2>1. pass.key \in Keys  BY <1>8 DEF ApplyDispatch, SampleInv, Sampled, AtApply
  <2>2. CASE pass'.at = "loop"  BY <2>2, NoSample
  <2>3. CASE pass'.at = "send" /\ pass'.key = pass.key
    BY <2>1, <2>3 DEF SampleInv, Sampled, AtApply, Outcomes
  <2>. QED  BY <1>8, <2>2, <2>3, Hands
<1>9. ASSUME NEW j \in jobs, VerifyLands(j) PROVE SampleInv'
  <2>1. \A k \in Keys : table'[k].enrolled =>
            /\ table[k].enrolled /\ Agrees(table'[k], table[k])
            /\ ~table[k].verifying => ~table'[k].verifying
    <3>1. /\ \A k \in Keys : k # j.key => table'[k] = table[k]
          /\ Lands(table[j.key], table'[j.key], j)
      BY <1>9, Landing DEF TypeInv
    <3>. QED  BY <3>1 DEF Lands, Agrees
  <2>. QED  BY <1>9, <2>1, KeepSample DEF VerifyLands
<1>10. ASSUME SetStep PROVE SampleInv'
  <2>1. UNCHANGED pass
        /\ \A k \in Keys : table'[k] = table[k] \/ table'[k] = Untracked
    BY <1>0, <1>10 DEF SetStep, SetWrites, SetBumps, SetRemoves
  <2>2. ~Untracked.enrolled  BY FreshRecord
  <2>. QED  BY <2>1, <2>2, KeepSample DEF Agrees
<1>11. ASSUME UNCHANGED <<table, pass>> PROVE SampleInv'
  BY <1>11, KeepSample DEF Agrees
<1>12. CASE PassStep
  BY <1>2, <1>3, <1>4, <1>5, <1>6, <1>7, <1>8, <1>12 DEF PassStep
<1>. QED
  BY <1>9, <1>10, <1>11, <1>12 DEF Next, TurnStarts, TurnEnds, WorldMoves, DelegationMoves,
     UserActs, ReviewEnds, vars


-----------------------------------------------------------------------------
(* Layer 3: the brakes                                                     *)

\* Every set of facts has its rung.
LEMMA RungOfIsMine == \A f : RungOf(f) \in Mine
  BY DEF RungOf, Mine

\* The budget of a rung is two or three attempts.
LEMMA BudgetIs == \A r \in Mine : Budget(r) \in {2, 3}
  BY DEF Budget

\* Only the cycle, what was spent on it, and the enrollment matter.
LEMMA BrakesSame ==
  ASSUME NEW t, NEW u, NEW n, NEW d, Brakes(t, n, d), u.enrolled = t.enrolled, Agrees(u, t)
  PROVE  Brakes(u, n, d)
  BY DEF Brakes, Agrees, InCycle

\* A checkout that is not followed has no streak to keep.
LEMMA BrakesOff ==
  ASSUME NEW t, NEW n, NEW d, NEW m, NEW e, Brakes(t, n, d), ~t.enrolled
  PROVE  Brakes(t, m, e)
  BY DEF Brakes

\* A fresh or an untracked agent is within its budget.
LEMMA BrakesNew == Brakes(Fresh, 0, {}) /\ \A n, d : Brakes(Untracked, n, d)
<1>1. \A r \in Mine : 0 <= Budget(r)  BY BudgetIs
<1>2. ~InCycle(Fresh) /\ ~InCycle(Untracked)  BY FreshRecord, NoCycleType DEF InCycle
<1>3. Brakes(Fresh, 0, {})
  BY <1>1, <1>2, FreshRecord, RungOfIsMine DEF Brakes
<1>4. \A n, d : Brakes(Untracked, n, d)
  BY <1>1, <1>2, FreshRecord DEF Brakes
<1>. QED  BY <1>3, <1>4

\* A cycle opened within its budget.
LEMMA BrakesOpen ==
  ASSUME NEW t \in Record, NEW w \in Seen, NEW rung \in Mine, NEW n \in Nat, NEW d,
         Brakes(t, n, d), t.enrolled, ~InCycle(t), rung = RungOf(Fingerprint(w)),
         t.situation = Fingerprint(w) => ~(t.attempts[rung] >= Budget(rung)),
         NEW u, u = OpenCycle(t, rung, w), NEW m,
         m = IF t.situation # Fingerprint(w) THEN 1 ELSE IF n > 3 THEN n ELSE n + 1
  PROVE  Brakes(u, m, d) /\ InCycle(u)
<1>1. /\ u.enrolled /\ u.barren = t.barren /\ u.situation = Fingerprint(w)
      /\ u.attempts = IF t.situation = Fingerprint(w) THEN t.attempts ELSE [r \in Mine |-> 0]
      /\ u.cycle.rung = rung /\ u.cycle.attempt = u.attempts[rung] + 1
      /\ u.cycle.phase = "working"
  BY OpenCycleIs
<1>2. InCycle(u)  BY <1>1 DEF InCycle, Mine
<1>3. t.attempts \in [Mine -> Nat] /\ Budget(rung) \in {2, 3}  BY BudgetIs DEF Record
<1>4. /\ \A r \in Mine : u.attempts[r] <= Budget(r)
      /\ u.attempts[rung] < Budget(rung) /\ u.attempts[rung] \in Nat
      /\ m <= u.attempts[rung] + 1
  <2>1. CASE t.situation = Fingerprint(w)
    <3>1. u.attempts = t.attempts /\ t.attempts[rung] < Budget(rung) /\ t.attempts[rung] \in Nat
      BY <1>1, <1>3, <2>1
    <3>2. n <= t.attempts[rung] /\ \A r \in Mine : t.attempts[r] <= Budget(r)
      BY <2>1 DEF Brakes
    <3>3. m = n + 1  BY <1>3, <2>1, <3>1, <3>2
    <3>. QED  BY <3>1, <3>2, <3>3
  <2>2. CASE t.situation # Fingerprint(w)
    BY <1>1, <1>3, <2>2, BudgetIs
  <2>. QED  BY <2>1, <2>2
<1>5. u.cycle.attempt <= Budget(rung) /\ m <= u.cycle.attempt  BY <1>1, <1>3, <1>4
<1>6. d \subseteq u.barren  BY <1>1 DEF Brakes
<1>. QED  BY <1>1, <1>2, <1>4, <1>5, <1>6 DEF Brakes

\* A cycle that goes on to await its evidence.
LEMMA BrakesAdvance ==
  ASSUME NEW t \in Record, NEW b \in BOOLEAN, NEW n, NEW d, Brakes(t, n, d), InCycle(t),
         NEW u, u = Awaits(t, b)
  PROVE  Brakes(u, n, d) /\ InCycle(u)
<1>1. /\ u.enrolled = t.enrolled /\ u.barren = t.barren
      /\ u.situation = t.situation /\ u.attempts = t.attempts
      /\ u.cycle.rung = t.cycle.rung /\ u.cycle.attempt = t.cycle.attempt
      /\ u.cycle.phase = "awaiting-evidence"
  BY AdvanceIs
<1>. QED  BY <1>1 DEF Brakes, InCycle

\* A cycle that settles gives its rung's budget back.
LEMMA BrakesSettle ==
  ASSUME NEW t \in Record, NEW n, NEW d, Brakes(t, n, d), InCycle(t),
         NEW u, u = Settles(t, t.cycle.rung)
  PROVE  Brakes(u, 0, d) /\ ~InCycle(u)
<1> DEFINE rung == t.cycle.rung
<1>1. rung \in Mine  BY RungOfIsMine DEF Brakes
<1>2. /\ u.enrolled = t.enrolled /\ u.barren = t.barren /\ u.situation = t.situation
      /\ u.attempts = [t.attempts EXCEPT ![rung] = 0] /\ u.cycle = NoCycle
  BY <1>1, SettleIs
<1>3. ~InCycle(u)  BY <1>2, NoCycleType DEF InCycle
<1>4. t.attempts \in [Mine -> Nat] /\ rung = RungOf(t.situation)  BY DEF Record, Brakes
<1>5. u.attempts[rung] = 0 /\ \A r \in Mine : u.attempts[r] <= Budget(r)
  <2>1. \A r \in Mine : t.attempts[r] <= Budget(r) /\ 0 <= Budget(r)  BY BudgetIs DEF Brakes
  <2> HIDE DEF rung
  <2>. QED  BY <1>1, <1>2, <1>4, <2>1
<1>6. t.enrolled => d \subseteq t.barren  BY DEF Brakes
<1> HIDE DEF rung
<1>. QED  BY <1>2, <1>3, <1>4, <1>5, <1>6 DEF Brakes

\* A cycle that fails is counted, and the world it changed nothing in is barren.
LEMMA BrakesRetry ==
  ASSUME NEW t \in Record, NEW n \in Nat, NEW d, Brakes(t, n, d), InCycle(t),
         NEW bs \in SUBSET Sigs, NEW u, u = Retries(t, t.cycle.rung, bs),
         NEW e, e \subseteq d \union bs
  PROVE  Brakes(u, n, e) /\ ~InCycle(u)
<1> DEFINE rung == t.cycle.rung
<1>1. rung \in Mine  BY RungOfIsMine DEF Brakes
<1>2. /\ u.enrolled = t.enrolled /\ u.barren = t.barren \union bs /\ u.situation = t.situation
      /\ u.attempts = [t.attempts EXCEPT ![rung] = @ + 1] /\ u.cycle = NoCycle
  BY <1>1, RetryIs
<1>3. ~InCycle(u)  BY <1>2, NoCycleType DEF InCycle
<1>4. t.attempts \in [Mine -> Nat] /\ rung = RungOf(t.situation)  BY DEF Record, Brakes
<1>5. n <= u.attempts[rung] /\ \A r \in Mine : u.attempts[r] <= Budget(r)
  <2>1. /\ \A r \in Mine : t.attempts[r] <= Budget(r)
        /\ n <= t.attempts[rung] + 1 /\ t.attempts[rung] + 1 <= Budget(rung)
    BY DEF Brakes
  <2> HIDE DEF rung
  <2>. QED  BY <1>1, <1>2, <1>4, <2>1
<1>6. t.enrolled => e \subseteq u.barren  BY <1>2 DEF Brakes
<1> HIDE DEF rung
<1>. QED  BY <1>2, <1>3, <1>4, <1>5, <1>6 DEF Brakes


\* Nobody has attempted anything initially.
LEMMA BrakeInit == Init => BrakeInv
  BY BrakesNew DEF Init, BrakeInv

\* The brakes of the other checkouts are untouched.
LEMMA BrakeOne ==
  ASSUME TableTypes, ObserverTypes, BrakeInv, NEW k \in Keys, NEW u, NEW n, NEW d,
         Brakes(u, n, d), table' = [table EXCEPT ![k] = u],
         streak' = [streak EXCEPT ![k] = n], dead' = [dead EXCEPT ![k] = d]
  PROVE  BrakeInv'
<1>1. table \in [Keys -> Record] /\ streak \in [Keys -> Nat] /\ dead \in [Keys -> SUBSET Sigs]
  BY DEF TableTypes, ObserverTypes
<1>. QED  BY <1>1 DEF BrakeInv

\* A dispatch is applied to the record it was decided on.
LEMMA BrakeDispatch ==
  ASSUME TypeInv, SampleInv, BrakeInv, ApplyDispatch
  PROVE  /\ BrakeInv'
         /\ \A k \in Keys : Opens(k) => table'[k].cycle.sig \notin dead[k]
<1> DEFINE k == pass.key
           t == table[k]
           w == pass.seen
           rung == pass.do.rung
           u == OpenCycle(t, rung, w)
           n == streak[k]
           d == dead[k]
           m == IF t.situation # Fingerprint(w) THEN 1 ELSE IF n > 3 THEN n ELSE n + 1
<1>0. /\ table \in [Keys -> Record] /\ streak \in [Keys -> Nat] /\ dead \in [Keys -> SUBSET Sigs]
  BY DEF TypeInv, TableTypes, ObserverTypes
<1>1. /\ k \in Keys /\ w \in Seen /\ rung \in Mine /\ rung = RungOf(Fingerprint(w))
      /\ ~InCycle(pass.t) /\ Signature(w) \notin pass.t.barren
      /\ pass.t.situation = Fingerprint(w) => ~(pass.t.attempts[rung] >= Budget(rung))
      /\ pass.at = "dispatch"
  BY Acting DEF ApplyDispatch, AtApply, TypeInv
<1>2. Tracked(k) => Agrees(t, pass.t)
  BY <1>1 DEF SampleInv, Sampled, AtApply
<1>3. dead' = dead  BY DEF ApplyDispatch
<1>4. CASE table' = table /\ (streak' = streak \/ ~Tracked(k))
  <2>1. \A x \in Keys : ~Opens(x)  BY <1>4 DEF Opens
  <2>2. CASE streak' = streak  BY <1>3, <1>4, <2>1, <2>2 DEF BrakeInv
  <2>3. CASE streak' # streak
    <3>1. \A x \in Keys \ {k} : streak'[x] = streak[x]
      BY <1>0 DEF ApplyDispatch
    <3>2. ~t.enrolled  BY <1>4, <2>3 DEF Tracked
    <3>3. Brakes(t, streak'[k], dead[k])
      BY <1>1, <3>2, BrakesOff DEF BrakeInv
    <3>. QED  BY <1>3, <1>4, <2>1, <3>1, <3>3 DEF BrakeInv
  <2>. QED  BY <2>2, <2>3
<1>5. CASE Tracked(k) /\ table' = [table EXCEPT ![k] = u] /\ streak' = [streak EXCEPT ![k] = m]
  <2>1. t \in Record /\ n \in Nat /\ d \in SUBSET Sigs /\ Brakes(t, n, d)
    BY <1>0, <1>1 DEF BrakeInv
  <2>2. /\ t.enrolled /\ ~InCycle(t)
        /\ t.situation = Fingerprint(w) => ~(t.attempts[rung] >= Budget(rung))
        /\ Signature(w) \notin t.barren
    BY <1>1, <1>2, <1>5 DEF Tracked, Agrees, InCycle
  <2>3. Brakes(u, m, d) /\ InCycle(u)
    BY <1>1, <2>1, <2>2, BrakesOpen
  <2>4. u.cycle.sig = Signature(w)  BY <1>1, <2>1, OpenCycleIs
  <2>5. Signature(w) \notin d  BY <2>1, <2>2 DEF Brakes
  <2>6. dead' = [dead EXCEPT ![k] = d]  BY <1>0, <1>3
  <2>7. BrakeInv'
    <3>1. TableTypes /\ ObserverTypes  BY DEF TypeInv
    <3> HIDE DEF k, u, m, d
    <3>. QED  BY <1>1, <1>5, <2>3, <2>6, <3>1, BrakeOne
  <2>8. \A x \in Keys : Opens(x) => table'[x].cycle.sig \notin dead[x]
    <3>1. table'[k] = u /\ \A x \in Keys \ {k} : table'[x] = table[x]
      BY <1>0, <1>1, <1>5
    <3>. QED  BY <2>4, <2>5, <3>1 DEF Opens
  <2>. QED  BY <2>7, <2>8
<1>. QED
  <2>1. CASE k \in review /\ ~gone  BY <1>4, <2>1 DEF ApplyDispatch
  <2>2. CASE ~(k \in review /\ ~gone)
    <3>1. /\ table' = IF Tracked(k) THEN [table EXCEPT ![k] = u] ELSE table
          /\ streak' = [streak EXCEPT ![k] = IF ~Tracked(k) THEN @
                                               ELSE IF ~(t.situation = Fingerprint(w)) THEN 1
                                               ELSE IF @ > 3 THEN @ ELSE @ + 1]
      BY <2>2 DEF ApplyDispatch
    <3>2. CASE ~Tracked(k)  BY <1>4, <3>1, <3>2
    <3>3. CASE Tracked(k)
      <4>1. streak' = [streak EXCEPT ![k] = m]  BY <3>1, <3>3
      <4>. QED  BY <1>5, <3>1, <3>3, <4>1
    <3>. QED  BY <3>2, <3>3
  <2>. QED  BY <2>1, <2>2


\* A settle, a retry or a give-up is applied to the cycle it judged.
LEMMA BrakeOutcome ==
  ASSUME TypeInv, SampleInv, BrakeInv, ApplyOutcome
  PROVE  BrakeInv' /\ \A k \in Keys : ~Opens(k)
<1> DEFINE k == pass.key
           t == table[k]
           c == t.cycle
           w == pass.seen
           rung == c.rung
           bs == pass.do.barren
           u == Settles(t, rung)
           v == Retries(t, rung, bs)
           n == IF pass.at = "settle" THEN 0 ELSE streak[k]
           d == IF Tracked(k) /\ Signature(w) = c.sig THEN dead[k] \union {c.sig} ELSE dead[k]
<1>0. /\ table \in [Keys -> Record] /\ streak \in [Keys -> Nat] /\ dead \in [Keys -> SUBSET Sigs]
      /\ TableTypes /\ ObserverTypes
  BY DEF TypeInv, TableTypes, ObserverTypes
<1>1. pass.at \in AtApply /\ pass.at \in Outcomes /\ pass.at \in Sampled
  BY DEF ApplyOutcome, AtApply, Outcomes, Sampled
<1>2. /\ k \in Keys /\ InCycle(pass.t) /\ pass.do.rung = pass.t.cycle.rung
      /\ IF Signature(w) = pass.t.cycle.sig
         THEN pass.at # "settle" /\ bs = {pass.t.cycle.sig} ELSE bs = {}
      /\ pass.do \in Effects
  BY <1>0, <1>1, Acting
<1>3. Tracked(k) => c = pass.t.cycle  BY <1>1 DEF SampleInv, Agrees
<1>4. bs \in SUBSET Sigs  BY <1>2 DEF Effects
<1>5. streak' = [streak EXCEPT ![k] = n] /\ dead' = [dead EXCEPT ![k] = d]
  BY <1>0, <1>2 DEF ApplyOutcome, Settles, Retries
<1>6. CASE ~Tracked(k)
  <2>1. table' = table  BY <1>6 DEF ApplyOutcome, Settles, Retries
  <2>2. Brakes(t, n, d)  BY <1>2, <1>6, BrakesOff DEF BrakeInv, Tracked
  <2>3. table' = [table EXCEPT ![k] = t]  BY <1>0, <1>2, <2>1
  <2>4. BrakeInv'
    <3> HIDE DEF k, t, n, d
    <3>. QED  BY <1>0, <1>2, <1>5, <2>2, <2>3, BrakeOne
  <2>. QED  BY <2>1, <2>4 DEF Opens
<1>7. CASE Tracked(k)
  <2>1. /\ pass.do.rung = rung /\ InCycle(t) /\ t \in Record /\ Brakes(t, streak[k], dead[k])
        /\ streak[k] \in Nat
    BY <1>0, <1>2, <1>3, <1>7 DEF InCycle, BrakeInv
  <2>2. table' = IF pass.at = "settle" THEN [table EXCEPT ![k] = u]
                                       ELSE [table EXCEPT ![k] = v]
    BY <1>0, <1>2, <1>7, <2>1 DEF ApplyOutcome, Settles, Retries
  <2>3. ASSUME NEW x, table' = [table EXCEPT ![k] = x], ~InCycle(x)
        PROVE  \A y \in Keys : ~Opens(y)
    BY <1>0, <1>2, <2>3 DEF Opens
  <2>4. CASE pass.at = "settle"
    <3>1. n = 0 /\ d = dead[k]  BY <1>2, <1>3, <1>7, <2>4
    <3>2. Brakes(u, n, d) /\ ~InCycle(u)  BY <2>1, <3>1, BrakesSettle
    <3>3. table' = [table EXCEPT ![k] = u]  BY <2>2, <2>4
    <3>4. \A y \in Keys : ~Opens(y)  BY <2>3, <3>2, <3>3
    <3> HIDE DEF k, u, n, d
    <3>. QED  BY <1>0, <1>2, <1>5, <3>2, <3>3, <3>4, BrakeOne
  <2>5. CASE pass.at # "settle"
    <3>1. n = streak[k] /\ d \subseteq dead[k] \union bs  BY <1>2, <1>3, <1>7, <2>5
    <3>2. Brakes(v, n, d) /\ ~InCycle(v)
      <4> HIDE DEF n, d, k, bs, t
      <4>. QED  BY <1>4, <2>1, <3>1, BrakesRetry
    <3>3. table' = [table EXCEPT ![k] = v]  BY <2>2, <2>5
    <3>4. \A y \in Keys : ~Opens(y)  BY <2>3, <3>2, <3>3
    <3> HIDE DEF k, v, n, d
    <3>. QED  BY <1>0, <1>2, <1>5, <3>2, <3>3, <3>4, BrakeOne
  <2>. QED  BY <2>4, <2>5
<1>. QED  BY <1>6, <1>7

\* Every step keeps the brakes, and opens no cycle on a barren world.
LEMMA BrakeStep ==
  ASSUME TypeInv, SampleInv, BrakeInv, [Next]_vars
  PROVE  /\ BrakeInv'
         /\ \A k \in Keys : Opens(k) => table'[k].cycle.sig \notin dead[k]
<1> USE DEF observers, worldVars, agentVars, switchVars
<1>0. /\ table \in [Keys -> Record] /\ streak \in [Keys -> Nat] /\ dead \in [Keys -> SUBSET Sigs]
      /\ TableTypes /\ ObserverTypes
  BY DEF TypeInv, TableTypes, ObserverTypes
<1> DEFINE Goal == /\ BrakeInv'
                   /\ \A k \in Keys : Opens(k) => table'[k].cycle.sig \notin dead[k]
<1>1. ASSUME UNCHANGED <<table, streak, dead>> PROVE Goal
  BY <1>1 DEF BrakeInv, Opens
<1>2. ASSUME UNCHANGED <<streak, dead>>,
             \A k \in Keys : \/ table'[k].enrolled = table[k].enrolled /\ Agrees(table'[k], table[k])
                             \/ table'[k] = Untracked
      PROVE  Goal
  <2>1. \A k \in Keys : Brakes(table'[k], streak[k], dead[k])
    BY <1>2, BrakesSame, BrakesNew DEF BrakeInv
  <2>2. \A k \in Keys : ~Opens(k)
    BY <1>2, FreshRecord, NoCycleType DEF Opens, InCycle, Agrees
  <2>. QED  BY <1>2, <2>1, <2>2 DEF BrakeInv
<1>3. ASSUME PassForgets PROVE Goal
  <2>1. \A k \in Keys : table'[k] = table[k] \/ table'[k] = Untracked
    BY <1>0, <1>3 DEF PassForgets
  <2>. QED  BY <1>2, <1>3, <2>1 DEF PassForgets, Agrees
<1>4. ASSUME PassEnrolls PROVE Goal
  <2> DEFINE k == pass.key
             t == IF Tracked(k) THEN table[k] ELSE Fresh
             n == IF Tracked(k) THEN streak[k] ELSE 0
             d == IF Tracked(k) THEN dead[k] ELSE {}
  <2>1. k \in Keys  BY <1>4 DEF PassEnrolls, SampleInv
  <2>2. /\ table' = [table EXCEPT ![k] = t] /\ streak' = [streak EXCEPT ![k] = n]
        /\ dead' = [dead EXCEPT ![k] = d]
    BY <1>0, <1>4, <2>1 DEF PassEnrolls
  <2>3. Brakes(t, n, d) /\ (InCycle(t) => InCycle(table[k]))
    BY <2>1, BrakesNew, FreshRecord, NoCycleType DEF BrakeInv, InCycle
  <2> HIDE DEF k, t, n, d
  <2>4. BrakeInv'  BY <1>0, <2>1, <2>2, <2>3, BrakeOne
  <2>5. \A x \in Keys : ~Opens(x)  BY <1>0, <2>1, <2>2, <2>3 DEF Opens
  <2>. QED  BY <2>4, <2>5
<1>5. ASSUME PassReadsThreads PROVE Goal
  <2>1. \A k \in Keys : table'[k].enrolled = table[k].enrolled /\ Agrees(table'[k], table[k])
    BY <1>5, ThreadsRead
  <2>. QED  BY <1>2, <1>5, <2>1 DEF PassReadsThreads
<1>6. ASSUME ApplyAwait PROVE Goal
  <2> DEFINE k == pass.key
             t == table[k]
             b == pass.at = "verify"
             n == streak[k]
             d == dead[k]
             u == Awaits(t, b)
  <2>1. k \in Keys /\ InCycle(pass.t) /\ pass.at \in Sampled
    BY <1>0, <1>6, Acting DEF ApplyAwait, AtApply, Sampled
  <2>2. table' = IF Tracked(k) THEN [table EXCEPT ![k] = u] ELSE table
    BY <1>6 DEF ApplyAwait, Awaits
  <2>3. UNCHANGED <<streak, dead>>  BY <1>6 DEF ApplyAwait, Awaits
  <2>4. CASE ~Tracked(k)  BY <1>1, <2>2, <2>3, <2>4
  <2>5. CASE Tracked(k)
    <3>1. InCycle(t) /\ t \in Record /\ Brakes(t, n, d) /\ b \in BOOLEAN
      BY <1>0, <2>1, <2>5 DEF SampleInv, Agrees, InCycle, BrakeInv
    <3>2. Brakes(u, n, d)
      <4> HIDE DEF b, n, d, t
      <4>. QED  BY <3>1, BrakesAdvance
    <3>3. streak' = [streak EXCEPT ![k] = n] /\ dead' = [dead EXCEPT ![k] = d]
      BY <1>0, <2>3
    <3>4. table' = [table EXCEPT ![k] = u]  BY <2>2, <2>5
    <3>5. \A x \in Keys : ~Opens(x)
      <4> HIDE DEF u
      <4>. QED  BY <1>0, <2>1, <3>1, <3>4 DEF Opens
    <3> HIDE DEF k, u, n, d
    <3>6. BrakeInv'  BY <1>0, <2>1, <3>2, <3>3, <3>4, BrakeOne
    <3>. QED  BY <3>5, <3>6
  <2>. QED  BY <2>4, <2>5
<1>7. ASSUME NEW j \in jobs, VerifyLands(j) PROVE Goal
  <2>1. \A k \in Keys : table'[k].enrolled = table[k].enrolled /\ Agrees(table'[k], table[k])
    <3>1. /\ \A k \in Keys : k # j.key => table'[k] = table[k]
          /\ Lands(table[j.key], table'[j.key], j)
      BY <1>0, <1>7, Landing
    <3>2. ASSUME NEW k \in Keys, k = j.key
          PROVE  table'[k].enrolled = table[k].enrolled /\ Agrees(table'[k], table[k])
      BY <3>1, <3>2 DEF Lands, Agrees
    <3>. QED  BY <3>1, <3>2 DEF Agrees
  <2>. QED  BY <1>2, <1>7, <2>1 DEF VerifyLands
<1>8. ASSUME SetStep PROVE Goal
  <2>1. \A k \in Keys : table'[k] = table[k] \/ table'[k] = Untracked
    BY <1>0, <1>8 DEF SetStep, SetWrites, SetBumps, SetRemoves
  <2>. QED  BY <1>2, <1>8, <2>1 DEF SetStep, SetWrites, SetBumps, SetRemoves, Agrees
<1>9. ASSUME ApplyDispatch \/ ApplyOutcome PROVE Goal
  BY <1>9, BrakeDispatch, BrakeOutcome
<1>10. CASE PassStep
  BY <1>1, <1>3, <1>4, <1>5, <1>6, <1>9, <1>10
     DEF PassStep, PassStart, PassReadsSwitches, PassEnds, PassPicks, PassReadsGit,
         PassReadsPr, PassDecides, ApplySend
<1>. QED
  BY <1>1, <1>7, <1>8, <1>10 DEF Next, TurnStarts, TurnEnds, WorldMoves, DelegationMoves,
     UserActs, ReviewEnds, vars


-----------------------------------------------------------------------------
(* Layer 4: the evidence                                                   *)

\* No verdict has been reached initially.
LEMMA EvidenceInit == Init => EvidenceInv
<1> SUFFICES ASSUME Init PROVE EvidenceInv
  OBVIOUS
<1>1. pass.at = "sleep" /\ jobs = {} /\ off = FALSE /\ setter = "idle"
  BY AsleepType DEF Init
<1>2. \A k \in Keys : table[k].verdict = "none"  BY FreshRecord DEF Init
<1>. QED
  BY <1>1, <1>2 DEF EvidenceInv, ThreadsOK, Unswitched, JobsOK, VerdictOK, Sampled, AtApply,
     Outcomes

\* The threads a cycle is judged on are read after its work.
LEMMA ThreadsStep ==
  ASSUME TypeInv, SampleInv, BrakeInv, ThreadsOK, [Next]_vars
  PROVE  ThreadsOK'
<1>0. pass \in Pass /\ generation \in Nat  BY DEF TypeInv, TableTypes, SwitchTypes
<1>1. ASSUME pass'.at \notin Sampled PROVE ThreadsOK'
  BY <1>1 DEF ThreadsOK, Sampled
<1>2. NextKey.at = "loop" /\ Asleep.at = "sleep"
  BY <1>0, MovesOn, AsleepType
<1>3. ASSUME pass' = NextKey \/ pass' = Asleep PROVE ThreadsOK'
  BY <1>1, <1>2, <1>3 DEF Sampled, AtApply, Outcomes
<1>4. ASSUME UNCHANGED pass PROVE ThreadsOK'
  BY <1>4 DEF ThreadsOK, InCycle, Awaiting
<1>5. CASE PassStart \/ PassReadsSwitches
  <2>1. pass'.at \in {"switches", "sleep", "loop"}  BY <1>5, Starts, ReadsSwitches
  <2>. QED  BY <1>1, <2>1 DEF Sampled, AtApply, Outcomes
<1>6. ASSUME NEW k \in Keys, PassPicks(k) PROVE ThreadsOK'
  <2>1. pass'.at = "enroll"  BY <1>6, Picks
  <2>. QED  BY <1>1, <2>1 DEF Sampled, AtApply, Outcomes
<1>7. CASE PassEnrolls
  <2> DEFINE k == pass.key
             t == IF Tracked(k) THEN table[k] ELSE Fresh
  <2>1. /\ k \in Keys
        /\ \/ pass'.at = "loop"
           \/ pass'.at \in {"git", "decide"} /\ pass'.t = t /\ ~Open(pass'.seen)
    BY <1>7, Enrolls
  <2>2. InCycle(t) => t.cycle.phase # "none"
    <3>1. CASE Tracked(k)  BY <2>1, <3>1 DEF BrakeInv, Brakes
    <3>2. CASE ~Tracked(k)  BY <3>2, FreshRecord, NoCycleType DEF InCycle
    <3>. QED  BY <3>1, <3>2
  <2> HIDE DEF k, t
  <2>3. CASE pass'.at = "loop"  BY <1>1, <2>3 DEF Sampled, AtApply, Outcomes
  <2>4. CASE pass'.t = t /\ ~Open(pass'.seen)  BY <2>2, <2>4 DEF ThreadsOK, InCycle
  <2>. QED  BY <2>1, <2>3, <2>4
<1>8. CASE PassReadsGit \/ PassReadsPr
  <2>1. /\ pass'.at \in {"pr", "threads", "decide"} /\ pass.at \in {"git", "pr"}
        /\ ~Open(pass.seen) => pass'.at = "threads" \/ ~Open(pass'.seen)
        /\ pass'.t = pass.t
    BY <1>8, WorldRead
  <2>. QED  BY <2>1 DEF ThreadsOK, InCycle, Sampled, AtApply, Outcomes
<1>9. CASE PassReadsThreads
  <2>1. /\ pass'.at = "decide" /\ Agrees(pass.t, pass'.t)
        /\ Awaiting(pass.t) => pass'.t.threads.age = "after"
    BY <1>9, ThreadsRead
  <2>2. pass.at \in Sampled  BY <1>9 DEF PassReadsThreads, Sampled
  <2>. QED  BY <2>1, <2>2 DEF ThreadsOK, Agrees, Awaiting, InCycle, AtApply, Outcomes
<1>10. ASSUME NEW k \in Keys, NEW late \in BOOLEAN, PassDecides(k, late) PROVE ThreadsOK'
  <2>1. CASE pass' = Asleep \/ pass' = NextKey  BY <1>3, <2>1
  <2>2. CASE pass'.at \in AtApply /\ pass'.t = pass.t /\ pass'.seen = pass.seen
    <3>1. pass.at = "decide"  BY <1>10 DEF PassDecides
    <3>. QED  BY <2>2, <3>1 DEF ThreadsOK, Awaiting, InCycle, Sampled, AtApply, Outcomes
  <2>. QED  BY <1>10, <2>1, <2>2, Decides
<1>11. CASE ApplyDispatch
  <2>1. pass'.at \in {"loop", "send"}  BY <1>11, Hands
  <2>. QED  BY <1>1, <2>1 DEF Sampled, AtApply, Outcomes
<1>12. CASE PassEnds \/ PassForgets \/ ApplySend \/ ApplyAwait \/ ApplyOutcome
  BY <1>3, <1>12 DEF PassEnds, PassForgets, ApplySend, ApplyAwait, ApplyOutcome
<1>13. CASE PassStep
  BY <1>5, <1>6, <1>7, <1>8, <1>9, <1>10, <1>11, <1>12, <1>13 DEF PassStep
<1>. QED
  BY <1>4, <1>13 DEF Next, SetStep, SetWrites, SetBumps, SetRemoves, VerifyLands, TurnStarts,
     TurnEnds, WorldMoves, DelegationMoves, UserActs, ReviewEnds, vars

Own == Unswitched /\ JobsOK /\ VerdictOK

\* What leaves the verifications, and the checkouts they are of, alone.
LEMMA OwnKeep ==
  ASSUME TableTypes, Own, jobs' = jobs,
         off \/ gone => off' \/ gone',
         setter' # "bumped", off' => setter' = "written",
         pass'.at \notin {"sleep", "switches"} =>
           \/ pass.at \notin {"sleep", "switches"} /\ pass'.on = pass.on
           \/ pass'.on = (~off' /\ ~gone'),
         pass'.at \in Sampled => table'[pass'.key].enrolled /\ pass'.on,
         \A k \in Keys :
           /\ \/ \A j \in jobs : j.key # k
              \/ /\ table'[k].enrolled = table[k].enrolled
                 /\ table'[k].verifying = table[k].verifying
           /\ InCycle(table'[k]) /\ table'[k].verdict # "none" =>
                /\ InCycle(table[k]) /\ table'[k].verdict = table[k].verdict
                /\ table'[k].verdictOf = table[k].verdictOf
  PROVE  Own'
<1>1. Unswitched'  BY DEF Own, Unswitched, Tracked
<1>2. VerdictOK'  BY DEF Own, VerdictOK
<1>3. JobsOK'
  <2> SUFFICES ASSUME NEW j \in jobs
               PROVE  IF table'[j.key].enrolled
                      THEN /\ j.of = "own"
                           /\ table'[j.key].verifying
                           /\ \A i \in jobs : i.key = j.key => i = j
                      ELSE /\ off' \/ gone'
                           /\ pass'.at \notin {"sleep", "switches"} => ~pass'.on
    BY DEF JobsOK, Tracked
  <2>1. j.key \in Keys  BY DEF TableTypes, Jobs
  <2>2. table'[j.key].enrolled = table[j.key].enrolled
        /\ table'[j.key].verifying = table[j.key].verifying
    BY <2>1
  <2>. QED  BY <2>2 DEF Own, JobsOK, Tracked
<1>. QED  BY <1>1, <1>2, <1>3 DEF Own

\* A checkout a decision is applied to has no verification under way.
LEMMA NoneOfItsOwn ==
  ASSUME SampleInv, Own, pass.at \in Sampled
  PROVE  /\ pass.key \in Keys /\ Tracked(pass.key) /\ pass.on
         /\ \A j \in jobs : j.key # pass.key
<1>1. pass.key \in Keys /\ Tracked(pass.key) /\ pass.on /\ ~table[pass.key].verifying
  BY DEF SampleInv, Own, Unswitched
<1>. QED  BY <1>1 DEF Own, JobsOK, Tracked


\* The pass reads, decides and hands over: the verifications stay as they are.
LEMMA OwnReads ==
  ASSUME TypeInv, SampleInv, Own,
         \/ PassStart \/ PassReadsSwitches \/ PassEnds \/ PassReadsGit \/ PassReadsPr
         \/ PassReadsThreads \/ ApplySend
         \/ \E k \in Keys : PassPicks(k) \/ \E late \in BOOLEAN : PassDecides(k, late)
  PROVE  Own'
<1> USE DEF observers, worldVars, agentVars, switchVars
<1>0. /\ table \in [Keys -> Record] /\ pass \in Pass /\ TableTypes /\ generation \in Nat
  BY DEF TypeInv, TableTypes, SwitchTypes
<1>1. UNCHANGED <<jobs, off, gone, setter>>
  BY DEF PassStart, PassReadsSwitches, PassEnds, PassReadsGit, PassReadsPr, PassReadsThreads,
     ApplySend, PassPicks, PassDecides
<1>2. \A k \in Keys : /\ table'[k].enrolled = table[k].enrolled
                      /\ table'[k].verifying = table[k].verifying
                      /\ table'[k].verdict = table[k].verdict
                      /\ table'[k].verdictOf = table[k].verdictOf
                      /\ InCycle(table'[k]) <=> InCycle(table[k])
  <2>1. CASE PassReadsThreads  BY <2>1, ThreadsRead DEF Agrees, InCycle
  <2>2. CASE UNCHANGED table  BY <2>2
  <2>. QED
    BY <2>1, <2>2 DEF PassStart, PassReadsSwitches, PassEnds, PassReadsGit, PassReadsPr,
       ApplySend, PassPicks, PassDecides
<1>3. /\ pass'.at \notin {"sleep", "switches"} =>
           \/ pass.at \notin {"sleep", "switches"} /\ pass'.on = pass.on
           \/ pass'.on = (~off' /\ ~gone')
      /\ pass'.at \in Sampled => table'[pass'.key].enrolled /\ pass'.on
  <2> DEFINE Goal == /\ pass'.at \notin {"sleep", "switches"} =>
                          \/ pass.at \notin {"sleep", "switches"} /\ pass'.on = pass.on
                          \/ pass'.on = (~off' /\ ~gone')
                     /\ pass'.at \in Sampled => table'[pass'.key].enrolled /\ pass'.on
  <2>0. /\ NextKey.at = "loop" /\ NextKey.on = pass.on /\ Asleep.at = "sleep"
        /\ "loop" \notin Sampled /\ "sleep" \notin Sampled /\ "switches" \notin Sampled
        /\ "enroll" \notin Sampled
    BY <1>0, MovesOn, AsleepType DEF Sampled, AtApply, Outcomes
  <2>1. ASSUME pass' = Asleep PROVE Goal  BY <2>0, <2>1
  <2>2. ASSUME pass' = NextKey, pass.at \notin {"sleep", "switches"} PROVE Goal
    BY <2>0, <2>2
  <2>3. ASSUME pass.at \in Sampled, pass'.key = pass.key, pass'.on = pass.on PROVE Goal
    <3>1. pass.key \in Keys /\ Tracked(pass.key) /\ pass.on  BY <2>3, NoneOfItsOwn
    <3>2. pass.at \notin {"sleep", "switches"}  BY <2>0, <2>3
    <3>. QED  BY <1>2, <2>3, <3>1, <3>2 DEF Tracked
  <2>4. CASE PassStart
    <3>1. pass'.at = "switches"  BY <2>4, Starts
    <3>. QED  BY <2>0, <3>1
  <2>5. CASE PassReadsSwitches
    <3>1. pass'.at = "sleep" \/ (pass'.at = "loop" /\ pass'.on = (~off /\ ~gone))
      BY <2>5, ReadsSwitches
    <3>. QED  BY <1>1, <2>0, <3>1
  <2>6. CASE PassEnds  BY <2>1, <2>6 DEF PassEnds
  <2>7. CASE PassReadsGit \/ PassReadsPr
    <3>1. pass.at \in Sampled /\ pass'.key = pass.key /\ pass'.on = pass.on
      BY <2>7, WorldRead DEF Sampled
    <3>. QED  BY <2>3, <3>1
  <2>8. CASE PassReadsThreads
    <3>1. pass.at \in Sampled  BY <2>8 DEF PassReadsThreads, Sampled
    <3>2. pass'.key = pass.key /\ pass'.on = pass.on  BY <2>8, ThreadsRead
    <3>. QED  BY <2>3, <3>1, <3>2
  <2>9. CASE ApplySend  BY <2>2, <2>9 DEF ApplySend
  <2>10. ASSUME NEW k \in Keys, PassPicks(k) PROVE Goal
    <3>1. pass'.at = "enroll" /\ pass'.on = pass.on /\ pass.at = "loop"
      BY <2>10, Picks
    <3>. QED  BY <2>0, <3>1
  <2>11. ASSUME NEW k \in Keys, NEW late \in BOOLEAN, PassDecides(k, late) PROVE Goal
    <3>1. pass.at = "decide" /\ pass.at \in Sampled  BY <2>11 DEF PassDecides, Sampled
    <3>2. \/ pass' = Asleep \/ pass' = NextKey
          \/ pass'.key = pass.key /\ pass'.on = pass.on
      BY <2>11, Decides
    <3>. QED  BY <2>1, <2>2, <2>3, <3>1, <3>2
  <2>. QED  BY <2>4, <2>5, <2>6, <2>7, <2>8, <2>9, <2>10, <2>11
<1>4. setter # "bumped" /\ (off => setter = "written")  BY DEF Own, Unswitched
<1>. QED  BY <1>0, <1>1, <1>2, <1>3, <1>4, OwnKeep

\* A checkout that is enrolled, or forgotten.
LEMMA OwnEnrolls ==
  ASSUME TypeInv, SampleInv, Own, PassEnrolls
  PROVE  Own'
<1> USE DEF observers, worldVars, agentVars, switchVars
<1> DEFINE k == pass.key
           t == IF Tracked(k) THEN table[k] ELSE Fresh
<1>0. /\ table \in [Keys -> Record] /\ TableTypes  BY DEF TypeInv, TableTypes
<1>1. /\ k \in Keys /\ table' = [table EXCEPT ![k] = t] /\ pass'.on = pass.on
      /\ pass'.at = "loop" \/ (pass'.at \in {"git", "decide"} /\ pass'.key = k)
  BY Enrolls
<1>2. UNCHANGED <<jobs, off, gone, setter>> /\ pass.at = "enroll" /\ pass.on
  BY DEF PassEnrolls
<1>3. /\ t.enrolled /\ (Tracked(k) => t = table[k])
      /\ ~Tracked(k) => ~InCycle(t)
  BY FreshRecord, NoCycleType DEF Tracked, InCycle
<1>4. ~Tracked(k) => \A j \in jobs : j.key # k
  BY <1>2 DEF Own, JobsOK
<1> HIDE DEF t, k
<1>5. pass'.at \notin {"sleep", "switches"} =>
        pass.at \notin {"sleep", "switches"} /\ pass'.on = pass.on
  BY <1>1, <1>2
<1>6. pass'.at \in Sampled => table'[pass'.key].enrolled /\ pass'.on
  BY <1>0, <1>1, <1>2, <1>3, <1>5 DEF Sampled, AtApply, Outcomes
<1>7. \A x \in Keys :
        /\ \/ \A j \in jobs : j.key # x
           \/ /\ table'[x].enrolled = table[x].enrolled
              /\ table'[x].verifying = table[x].verifying
        /\ InCycle(table'[x]) /\ table'[x].verdict # "none" =>
             /\ InCycle(table[x]) /\ table'[x].verdict = table[x].verdict
             /\ table'[x].verdictOf = table[x].verdictOf
  BY <1>0, <1>1, <1>2, <1>3, <1>4
<1>8. setter # "bumped" /\ (off => setter = "written")  BY DEF Own, Unswitched
<1>. QED  BY <1>0, <1>2, <1>5, <1>6, <1>7, <1>8, OwnKeep

\* A pass that forgets an agent outdates the verifications it had under way.
LEMMA OwnForgets ==
  ASSUME TypeInv, SampleInv, Own, PassForgets
  PROVE  Own'
<1> USE DEF observers, worldVars, agentVars, switchVars
<1> DEFINE k == pass.key
<1>0. /\ table \in [Keys -> Record] /\ pass \in Pass /\ jobs \in SUBSET Jobs /\ generation \in Nat
  BY DEF TypeInv, TableTypes, SwitchTypes
<1>1. /\ k \in Keys /\ pass.at = "enroll" /\ ~pass.on /\ (off \/ gone)
      /\ table' = [table EXCEPT ![k] = Untracked] /\ jobs' = Outdated(jobs, {k})
      /\ UNCHANGED <<off, gone, setter>>
  BY DEF PassForgets, SampleInv, Own, Unswitched
<1>2. pass'.at = "loop" /\ ~pass'.on  BY <1>0, <1>1, MovesOn DEF PassForgets
<1>3. ~Untracked.enrolled /\ ~InCycle(Untracked)
  BY FreshRecord, NoCycleType DEF InCycle
<1>4. Unswitched'
  BY <1>1, <1>2 DEF Own, Unswitched, Sampled, AtApply, Outcomes
<1> HIDE DEF k
<1>5. VerdictOK'  BY <1>0, <1>1, <1>3 DEF Own, VerdictOK
<1>6. \A j \in jobs' : j.key = k \/ j \in jobs
  <2> SUFFICES ASSUME NEW j \in jobs', j.key # k PROVE j \in jobs
    OBVIOUS
  <2>1. PICK i \in jobs : j = [i EXCEPT !.of = IF i.key \in {k} THEN "old" ELSE @]
    BY <1>1 DEF Outdated
  <2>2. i \in Jobs  BY <1>0
  <2>3. j.key = i.key  BY <2>1, <2>2 DEF Jobs
  <2>4. j = i  BY <2>1, <2>2, <2>3 DEF Jobs
  <2>. QED  BY <2>4
<1>7. JobsOK'
  <2> SUFFICES ASSUME NEW j \in jobs'
               PROVE  IF table'[j.key].enrolled
                      THEN /\ j.of = "own"
                           /\ table'[j.key].verifying
                           /\ \A i \in jobs' : i.key = j.key => i = j
                      ELSE /\ off' \/ gone'
                           /\ pass'.at \notin {"sleep", "switches"} => ~pass'.on
    BY DEF JobsOK, Tracked
  <2>1. CASE j.key = k  BY <1>0, <1>1, <1>2, <1>3, <2>1
  <2>2. CASE j.key # k
    <3>1. j \in jobs /\ j.key \in Keys  BY <1>0, <1>6, <2>2 DEF Jobs
    <3>2. table'[j.key] = table[j.key]  BY <1>0, <1>1, <2>2, <3>1
    <3>. QED  BY <1>1, <1>2, <1>6, <2>2, <3>1, <3>2 DEF Own, JobsOK, Tracked
  <2>. QED  BY <2>1, <2>2
<1>. QED  BY <1>4, <1>5, <1>7 DEF Own


\* A decision that is applied: a cycle opens without a verdict and ends with
\* none of its verifications under way.
LEMMA OwnApplies ==
  ASSUME TypeInv, SampleInv, Own, ApplyDispatch \/ ApplyOutcome
  PROVE  Own'
<1> USE DEF observers, worldVars, agentVars, switchVars
<1> DEFINE k == pass.key
           t == table[k]
<1>0. /\ table \in [Keys -> Record] /\ pass \in Pass /\ jobs \in SUBSET Jobs
      /\ TableTypes /\ generation \in Nat
  BY DEF TypeInv, TableTypes, SwitchTypes
<1>1. pass.at \in AtApply /\ pass.at \in Sampled
  BY DEF ApplyDispatch, ApplyOutcome, AtApply, Outcomes, Sampled
<1>2. /\ k \in Keys /\ Tracked(k) /\ pass.on /\ \A j \in jobs : j.key # k
      /\ t \in Record
  BY <1>0, <1>1, NoneOfItsOwn
<1>3. UNCHANGED <<off, gone, setter>>  BY DEF ApplyDispatch, ApplyOutcome
<1>4. pass'.at \notin Sampled /\ pass'.on = pass.on
      /\ pass.at \notin {"sleep", "switches"}
  <2>1. /\ pass'.at \in {"loop", "send"} /\ pass'.on = pass.on
    <3>1. CASE ApplyDispatch  BY <3>1, Hands
    <3>2. CASE ApplyOutcome  BY <1>0, <3>2, MovesOn DEF ApplyOutcome
    <3>. QED  BY <3>1, <3>2
  <2>. QED  BY <1>1, <2>1 DEF Sampled, AtApply, Outcomes
<1>5. jobs' = jobs
  <2>1. CASE ApplyDispatch  BY <2>1 DEF ApplyDispatch
  <2>2. CASE ApplyOutcome
    <3>1. jobs' = Outdated(jobs, {k})  BY <2>2 DEF ApplyOutcome, Settles, Retries
    <3>2. \A j \in jobs : [j EXCEPT !.of = IF j.key \in {k} THEN "old" ELSE @] = j
      BY <1>0, <1>2 DEF Jobs
    <3>. QED  BY <3>1, <3>2 DEF Outdated
  <2>. QED  BY <2>1, <2>2
<1>6. PICK u \in Record : /\ table' = table \/ table' = [table EXCEPT ![k] = u]
                          /\ u.verdict = "none" \/ ~InCycle(u)
  <2>1. CASE ApplyDispatch
    <3> DEFINE rung == pass.do.rung
               w == pass.seen
               u == OpenCycle(t, rung, w)
    <3>1. rung \in Mine /\ w \in Seen
      BY <1>0, <1>1, <2>1, Acting DEF ApplyDispatch
    <3>2. u \in Record /\ u.verdict = "none"  BY <1>2, <3>1, OpenCycleIs
    <3>3. table' = table \/ table' = [table EXCEPT ![k] = u]  BY <2>1 DEF ApplyDispatch
    <3> HIDE DEF u
    <3>. QED  BY <3>2, <3>3
  <2>2. CASE ApplyOutcome
    <3> DEFINE rung == pass.do.rung
               bs == pass.do.barren
               u == Settles(t, rung)
               v == Retries(t, rung, bs)
    <3>1. rung \in Mine /\ bs \in SUBSET Sigs
      <4>1. pass.at \in Outcomes  BY <2>2 DEF ApplyOutcome, Outcomes
      <4>. QED  BY <1>0, <1>1, <4>1, Acting DEF Effects
    <3>2. u \in Record /\ v \in Record /\ u.cycle = NoCycle /\ v.cycle = NoCycle
      BY <1>2, <3>1, SettleIs, RetryIs
    <3>3. table' = [table EXCEPT ![k] = u] \/ table' = [table EXCEPT ![k] = v]
      BY <1>0, <1>2, <2>2 DEF ApplyOutcome, Settles, Retries
    <3> HIDE DEF u, v
    <3>. QED  BY <3>2, <3>3, NoCycleType DEF InCycle
  <2>. QED  BY <2>1, <2>2
<1> HIDE DEF k
<1>7. \A x \in Keys :
        /\ \/ \A j \in jobs : j.key # x
           \/ /\ table'[x].enrolled = table[x].enrolled
              /\ table'[x].verifying = table[x].verifying
        /\ InCycle(table'[x]) /\ table'[x].verdict # "none" =>
             /\ InCycle(table[x]) /\ table'[x].verdict = table[x].verdict
             /\ table'[x].verdictOf = table[x].verdictOf
  BY <1>0, <1>2, <1>6
<1>8. setter # "bumped" /\ (off => setter = "written")  BY DEF Own, Unswitched
<1>. QED  BY <1>0, <1>3, <1>4, <1>5, <1>7, <1>8, OwnKeep

\* A cycle that awaits its evidence, and the verification begun for it.
LEMMA OwnAwaits ==
  ASSUME TypeInv, SampleInv, Own, ApplyAwait
  PROVE  Own'
<1> USE DEF observers, worldVars, agentVars, switchVars
<1> DEFINE k == pass.key
           t == table[k]
           b == pass.at = "verify"
           u == Awaits(t, b)
           job == [key |-> k, rung |-> t.cycle.rung, attempt |-> t.cycle.attempt,
                   of |-> IF Tracked(k) THEN "own" ELSE "old"]
<1>0. /\ table \in [Keys -> Record] /\ pass \in Pass /\ jobs \in SUBSET Jobs
      /\ TableTypes /\ generation \in Nat
  BY DEF TypeInv, TableTypes, SwitchTypes
<1>1. pass.at \in AtApply /\ pass.at \in Sampled /\ pass.at \in {"await", "verify"}
  BY DEF ApplyAwait, AtApply, Outcomes, Sampled
<1>2. /\ k \in Keys /\ Tracked(k) /\ pass.on /\ \A j \in jobs : j.key # k
      /\ t \in Record /\ InCycle(t)
  <2>1. k \in Keys /\ Tracked(k) /\ pass.on /\ \A j \in jobs : j.key # k
    BY <1>1, NoneOfItsOwn
  <2>2. InCycle(pass.t)  BY <1>0, <1>1, Acting
  <2>. QED  BY <1>0, <1>1, <2>1, <2>2 DEF SampleInv, Agrees, InCycle
<1>3. /\ UNCHANGED <<off, gone, setter>> /\ pass' = NextKey
      /\ table' = [table EXCEPT ![k] = u]
      /\ jobs' = IF b THEN jobs \union {job} ELSE jobs
  BY <1>2 DEF ApplyAwait, Awaits
<1>4. pass'.at = "loop" /\ pass'.on = pass.on  BY <1>0, <1>3, MovesOn
<1>5. /\ u.enrolled = t.enrolled /\ u.verifying = b /\ u.verdict = t.verdict
      /\ u.verdictOf = t.verdictOf
  <2> HIDE DEF b
  <2>1. b \in BOOLEAN  BY DEF b
  <2>. QED  BY <1>2, <2>1, AdvanceIs
<1>6. job.key = k /\ job.of = "own"  BY <1>2
<1> HIDE DEF u, job, k, b
<1>7. Unswitched'
  BY <1>1, <1>3, <1>4 DEF Own, Unswitched, Sampled, AtApply, Outcomes
<1>8. VerdictOK'  BY <1>0, <1>2, <1>3, <1>5 DEF Own, VerdictOK
<1>9. JobsOK'
  <2>1. table'[k] = u /\ \A x \in Keys \ {k} : table'[x] = table[x]
    BY <1>0, <1>2, <1>3
  <2> SUFFICES ASSUME NEW j \in jobs'
               PROVE  IF table'[j.key].enrolled
                      THEN /\ j.of = "own"
                           /\ table'[j.key].verifying
                           /\ \A i \in jobs' : i.key = j.key => i = j
                      ELSE /\ off' \/ gone'
                           /\ pass'.at \notin {"sleep", "switches"} => ~pass'.on
    BY DEF JobsOK, Tracked
  <2>2. CASE j \in jobs
    <3>1. j.key \in Keys \ {k}  BY <1>0, <1>2, <2>2 DEF Jobs
    <3>2. \A i \in jobs' : i \in jobs \/ i.key = k  BY <1>3, <1>6
    <3>3. pass.at \notin {"sleep", "switches"}  BY <1>1
    <3>. QED  BY <1>3, <1>4, <2>1, <2>2, <3>1, <3>2, <3>3 DEF Own, JobsOK, Tracked
  <2>3. CASE j \notin jobs
    <3>1. j = job /\ b  BY <1>3, <2>3
    <3>2. table'[k].enrolled /\ table'[k].verifying
      BY <1>2, <1>5, <2>1, <3>1 DEF Tracked, k
    <3>3. \A i \in jobs' : i.key = k => i = j  BY <1>2, <1>3, <3>1
    <3>. QED  BY <1>6, <3>1, <3>2, <3>3
  <2>. QED  BY <2>2, <2>3
<1>. QED  BY <1>7, <1>8, <1>9 DEF Own

\* A verification lands on the cycle it was begun for.
LEMMA OwnLands ==
  ASSUME TypeInv, SampleInv, Own, NEW j \in jobs, VerifyLands(j)
  PROVE  Own'
<1> USE DEF observers, worldVars, agentVars, switchVars
<1> DEFINE k == j.key
           t == table[k]
           u == table'[k]
<1>0. TableTypes /\ jobs \in SUBSET Jobs  BY DEF TypeInv, TableTypes
<1>1. /\ jobs' = jobs \ {j} /\ k \in Keys
      /\ \A x \in Keys : x # k => table'[x] = table[x]
      /\ IF ~t.enrolled THEN u = t
         ELSE /\ u.enrolled = t.enrolled /\ u.cycle = t.cycle
              /\ \/ u.verdict = t.verdict /\ u.verdictOf = t.verdictOf
                 \/ u.verdictOf = j.of
  <2>1. /\ jobs' = jobs \ {j} /\ j \in Jobs
        /\ \A x \in Keys : x # j.key => table'[x] = table[x]
        /\ Lands(table[j.key], table'[j.key], j)
    BY <1>0, Landing
  <2>. QED  BY <2>1 DEF Lands, Jobs
<1>2. UNCHANGED <<off, gone, setter, pass>>  BY DEF VerifyLands
<1>3. t.enrolled => j.of = "own" /\ \A i \in jobs : i.key = k => i = j
  BY DEF Own, JobsOK, Tracked
<1>4. \A x \in Keys : table'[x].enrolled = table[x].enrolled
  <2>1. u.enrolled = t.enrolled  BY <1>1
  <2>. QED  BY <1>1, <2>1
<1>5. Unswitched'
  <2>1. pass.at \in Sampled => pass.key \in Keys  BY DEF SampleInv
  <2>. QED  BY <1>2, <1>4, <2>1 DEF Own, Unswitched, Tracked
<1>6. VerdictOK'
  <2>1. CASE t.enrolled  BY <1>1, <1>3, <2>1 DEF Own, VerdictOK, InCycle
  <2>2. CASE ~t.enrolled  BY <1>1, <2>2 DEF Own, VerdictOK
  <2>. QED  BY <2>1, <2>2
<1>7. JobsOK'
  <2> SUFFICES ASSUME NEW i \in jobs'
               PROVE  IF table'[i.key].enrolled
                      THEN /\ i.of = "own"
                           /\ table'[i.key].verifying
                           /\ \A x \in jobs' : x.key = i.key => x = i
                      ELSE /\ off' \/ gone'
                           /\ pass'.at \notin {"sleep", "switches"} => ~pass'.on
    BY DEF JobsOK, Tracked
  <2>1. i \in jobs /\ i # j /\ i.key \in Keys  BY <1>0, <1>1 DEF Jobs
  <2>2. table'[i.key] = table[i.key]
    BY <1>1, <1>3, <2>1
  <2>. QED  BY <1>1, <1>2, <2>1, <2>2 DEF Own, JobsOK, Tracked
<1>. QED  BY <1>5, <1>6, <1>7 DEF Own


\* Every step keeps the evidence apart.
LEMMA EvidenceStep ==
  ASSUME TypeInv, SampleInv, BrakeInv, EvidenceInv, [Next]_vars
  PROVE  EvidenceInv'
<1> USE DEF observers, worldVars, agentVars, switchVars
<1>0. TableTypes /\ generation \in Nat /\ ThreadsOK /\ jobs \in SUBSET Jobs
  BY DEF TypeInv, TableTypes, SwitchTypes, EvidenceInv
<1>1. ThreadsOK'  BY <1>0, ThreadsStep
<1>2. ASSUME generation' = 0 PROVE Own'
  <2>1. generation = 0
    <3>1. generation' = generation \/ generation' = generation + 1
      BY DEF Next, PassStep, PassStart, PassReadsSwitches, PassEnds, PassPicks,
         PassForgets, PassEnrolls, PassReadsGit, PassReadsPr, PassReadsThreads, PassDecides,
         ApplyDispatch, ApplySend, ApplyAwait, ApplyOutcome, SetStep, SetWrites, SetBumps,
         SetRemoves, VerifyLands, TurnStarts, TurnEnds, WorldMoves, DelegationMoves, UserActs,
         ReviewEnds, vars
    <3>. QED  BY <1>0, <1>2, <3>1
  <2>2. Own  BY <2>1 DEF EvidenceInv, Own
  <2>3. /\ setter # "bumped"
        /\ off => setter = "written"
        /\ pass.at \notin {"sleep", "switches"} /\ ~pass.on => off \/ gone
        /\ pass.at \in Sampled => pass.key \in Keys /\ Tracked(pass.key) /\ pass.on
    BY <2>2 DEF Own, Unswitched, SampleInv
  <2>4. CASE PassStep
    BY <2>2, <2>4, OwnReads, OwnEnrolls, OwnForgets, OwnApplies, OwnAwaits DEF PassStep
  <2>5. ASSUME NEW j \in jobs, VerifyLands(j) PROVE Own'
    BY <2>2, <2>5, OwnLands
  <2>6. ASSUME UNCHANGED <<table, pass, jobs, off, setter>>, gone => gone' PROVE Own'
    BY <1>0, <2>2, <2>3, <2>6, OwnKeep DEF Tracked
  <2>7. CASE SetStep
    <3>1. CASE SetWrites
      <4>1. UNCHANGED <<table, pass, jobs, gone>> /\ setter' = "written" /\ off' = ~off
            /\ setter = "idle"
        BY <3>1 DEF SetWrites
      <4>. QED  BY <1>0, <2>2, <2>3, <4>1, OwnKeep DEF Tracked
    <3>2. CASE SetBumps  BY <1>0, <1>2, <3>2 DEF SetBumps
    <3>3. CASE SetRemoves  BY <2>3, <3>3 DEF SetRemoves
    <3>. QED  BY <2>7, <3>1, <3>2, <3>3 DEF SetStep
  <2>8. CASE \/ TurnStarts \/ TurnEnds
             \/ \E k \in Keys : \/ WorldMoves(k) \/ DelegationMoves(k)
                                \/ UserActs(k) \/ ReviewEnds(k)
    BY <2>6, <2>8 DEF TurnStarts, TurnEnds, WorldMoves, DelegationMoves, UserActs, ReviewEnds
  <2>9. CASE UNCHANGED vars  BY <2>6, <2>9 DEF vars
  <2>. QED  BY <2>4, <2>5, <2>7, <2>8, <2>9 DEF Next
<1>. QED  BY <1>1, <1>2 DEF EvidenceInv, Own

-----------------------------------------------------------------------------
(* The theorems                                                            *)

\* The inductive invariant of the driver, its switches and its verifications.
THEOREM AutopilotInductive == Spec => []ApInv
<1>1. Init => ApInv
  BY TypeInit, SampleInit, BrakeInit, EvidenceInit DEF ApInv
<1>2. ApInv /\ [Next]_vars => ApInv'
  BY TypeStep, SampleStep, BrakeStep, EvidenceStep DEF ApInv
<1>. QED  BY <1>1, <1>2, PTL DEF Spec

\* The table and the switches keep their types, attempts within the budget of
\* their rung among them (store.rs AutopilotState, step.rs retry).
THEOREM AutopilotTyped == Spec => []TypeOK
<1>1. ApInv => TypeOK
  <2> SUFFICES ASSUME ApInv PROVE TypeOK
    OBVIOUS
  <2>1. /\ off \in BOOLEAN /\ gone \in BOOLEAN /\ setter \in {"idle", "written", "bumped"}
        /\ generation \in 0..MaxEvents
    BY AutopilotAssumption DEF ApInv, TypeInv, SwitchTypes
  <2>2. ASSUME NEW k \in Keys
        PROVE  /\ table[k].enrolled \in BOOLEAN /\ table[k].verifying \in BOOLEAN
               /\ \A r \in Mine : table[k].attempts[r] \in 0..Budget(r)
               /\ table[k].verdict \in {"none", "pass", "fail"}
    <3>1. table[k] \in Record  BY DEF ApInv, TypeInv, TableTypes
    <3>2. \A r \in Mine : table[k].attempts[r] \in Nat /\ Budget(r) \in Nat
      BY <3>1, BudgetIs DEF Record
    <3>3. \A r \in Mine : table[k].attempts[r] <= Budget(r)
      BY DEF ApInv, BrakeInv, Brakes
    <3>4. \A r \in Mine : table[k].attempts[r] \in 0..Budget(r)  BY <3>2, <3>3
    <3>. QED  BY <3>1, <3>4 DEF Record
  <2>. QED  BY <2>1, <2>2 DEF ApInv, TypeInv, EnvTypes, TypeOK
<1>. QED  BY <1>1, AutopilotInductive, PTL

\* However the world moves in between, one situation gets no more cycles in a
\* row than its rung's budget (step.rs open_cycle, retry and the budget brake of
\* autopilot_step).
THEOREM BudgetIsKept == Spec => []BudgetHolds
<1>1. ApInv => BudgetHolds
  <2> SUFFICES ASSUME ApInv, NEW k \in Keys, InCycle(table[k])
               PROVE  streak[k] <= Budget(table[k].cycle.rung)
    BY DEF BudgetHolds
  <2> DEFINE c == table[k].cycle
  <2>1. c.attempt <= Budget(c.rung) /\ streak[k] <= c.attempt /\ c.rung \in Mine
    BY RungOfIsMine DEF ApInv, BrakeInv, Brakes
  <2>2. c.attempt \in Nat /\ streak[k] \in Nat /\ Budget(c.rung) \in Nat
    <3>1. table[k] \in Record /\ streak[k] \in Nat
      BY DEF ApInv, TypeInv, TableTypes, ObserverTypes
    <3>. QED  BY <2>1, <3>1, BudgetIs DEF Record, Cycle
  <2>. QED  BY <2>1, <2>2
<1>. QED  BY <1>1, AutopilotInductive, PTL

\* No cycle is opened on a world in which a cycle of this enrollment ended with
\* nothing changed (step.rs: the signature brake, barren_signatures).
THEOREM BarrenIsRefused == Spec => BarrenStaysRefused
<1>1. ApInv /\ [Next]_vars =>
        [\A k \in Keys : Opens(k) => table'[k].cycle.sig \notin dead[k]]_vars
  BY BrakeStep DEF ApInv
<1>. QED  BY <1>1, AutopilotInductive, PTL DEF Spec, BarrenStaysRefused

\* A cycle is judged on review threads read after its work and, until a switch
\* is written, on a verdict of its own verification (driver.rs observe, apply
\* Verify; the hold on verifying).
THEOREM OwnEvidence == Spec => []JudgedOnOwnEvidence
<1>1. ApInv => JudgedOnOwnEvidence
  <2> SUFFICES ASSUME ApInv PROVE JudgedOnOwnEvidence
    OBVIOUS
  <2>1. ASSUME pass.at \in Outcomes, Open(pass.seen) PROVE pass.t.threads.age = "after"
    <3>1. pass.at \in AtApply  BY <2>1 DEF AtApply
    <3>2. InCycle(pass.t) /\ pass.t.cycle.phase # "working"
      BY <2>1, <3>1, Acting DEF ApInv, TypeInv
    <3>3. Awaiting(pass.t)
      <4>1. pass.t.cycle.phase \in {"none", "working", "awaiting-evidence"}
        BY DEF ApInv, TypeInv, TableTypes, Pass, Record, Cycle
      <4>2. pass.t.cycle.phase # "none"
        BY <3>1, <3>2 DEF ApInv, EvidenceInv, ThreadsOK, Sampled
      <4>. QED  BY <3>2, <4>1, <4>2 DEF Awaiting
    <3>. QED  BY <2>1, <3>1, <3>3 DEF ApInv, EvidenceInv, ThreadsOK
  <2>2. ASSUME generation = 0, NEW k \in Keys, InCycle(table[k]), table[k].verdict # "none"
        PROVE  table[k].verdictOf = "own"
    BY <2>2 DEF ApInv, EvidenceInv, VerdictOK
  <2>. QED  BY <2>1, <2>2 DEF JudgedOnOwnEvidence, Outcomes
<1>. QED  BY <1>1, AutopilotInductive, PTL
=============================================================================
