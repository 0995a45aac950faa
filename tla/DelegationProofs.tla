-------------------------- MODULE DelegationProofs --------------------------
(***************************************************************************)
(* Theorems about Delegation for every set of checkouts, every number of   *)
(* calls and every bound on turns, reviews and faults.                     *)
(***************************************************************************)
EXTENDS Delegation, TLAPS, WellFoundedInduction

(***************************************************************************)
(* The types, of the calls and of the pass too.                            *)
(***************************************************************************)
Entries == [id : Calls \union {0}, kind : Kinds \union {"none"},
            sawRunning : BOOLEAN, sawGitOp : BOOLEAN, queued : BOOLEAN]

\* A held delegation has not been seen running.
EntryOK(d) == d \in Entries /\ (d.queued => ~d.sawRunning)

CallStates == [at : {"none", "admitting", "sending", "done"},
               key : Keys \union {0}, kind : Kinds \union {"none"},
               queued : BOOLEAN]

Steps == {"wait", "drop", "resolve", "dequeue", "mark", "settle", "abandon"}

Statuses == {"idle", "spawning", "running", "gone"}

DriverStates == [at : {"rest", "pass", "status", "plan", "apply", "deliver"},
                 snap : [Keys -> Entries], status : Statuses,
                 todo : [Keys -> Steps], key : Keys \union {0}]

TypeInv ==
    /\ table \in [Keys -> Entries] /\ \A k \in Keys : EntryOK(table[k])
    /\ call \in [Calls -> CallStates]
    /\ \A c \in Calls : call[c].at \in {"admitting", "sending"} => call[c].key \in Keys
    /\ driver \in DriverStates
    /\ driver.at = "deliver" => driver.key \in Keys /\ driver.snap[driver.key].id \in Calls
    /\ status \in Statuses
    /\ (status = "running") = (turn # {})
    /\ inbox \subseteq Calls /\ review \subseteq Keys
    /\ turn \subseteq Calls \union {0}
    /\ unheard \in Nat /\ sent \in [Calls -> Nat]

(***************************************************************************)
(* Who may still hand the trigger of a call over.  A call that has not     *)
(* recorded its delegation is named nowhere; a held trigger is unsent and  *)
(* its call has returned; the one the pass has taken is no longer held.    *)
(***************************************************************************)
Unrecorded(c) == call[c].at \in {"none", "admitting"}

IdsAreRecorded ==
    /\ \A k \in Keys : table[k].id \in Calls => ~Unrecorded(table[k].id)
    /\ \A k \in Keys : driver.snap[k].id \in Calls => ~Unrecorded(driver.snap[k].id)
    /\ \A c \in Calls : c \in behind \union turn \union inbox => call[c].at = "done"
    /\ behind \subseteq Calls

OneEntryPerCall ==
    \A j, k \in Keys : table[j].id = table[k].id /\ table[j].id # 0 => j = k

UnsentBefore ==
    /\ \A c \in Calls : sent[c] > 0 => call[c].at = "done"
    /\ \A c \in Calls : call[c].at = "sending" => ~call[c].queued
    /\ \A k \in Keys : table[k].queued =>
          /\ table[k].id \in Calls
          /\ call[table[k].id].at = "done" /\ call[table[k].id].queued
          /\ sent[table[k].id] = 0

Delivering(c) == driver.at = "deliver" /\ driver.snap[driver.key].id = c

TakenIsUnsent ==
    \A c \in Calls : Delivering(c) =>
        /\ call[c].at = "done" /\ call[c].queued /\ sent[c] = 0
        /\ \A k \in Keys : table[k].id = c => ~table[k].queued

(***************************************************************************)
(* What the pass knows of the running turn.  Once it has read that the     *)
(* agent is idle, none of the delegations it looked at is behind a running *)
(* turn, and no held trigger is part of one, until it has delivered.       *)
(***************************************************************************)
BehindARunningTurn == turn = {} => behind = {}

SentAtMostOnce ==
    /\ \A c \in Calls : sent[c] <= 1
    /\ \A c \in behind : sent[c] = 0 /\ call[c].queued

Dequeues(k) ==
    \/ driver.at = "plan" /\ driver.status = "idle"
    \/ driver.at = "apply" /\ driver.todo[k] = "dequeue"
    \/ driver.at = "deliver" /\ driver.key = k

OneDequeuePlanned ==
    /\ driver.at \in {"apply", "deliver"} =>
          \A j, k \in Keys : driver.todo[j] = "dequeue" /\ driver.todo[k] = "dequeue"
                             => j = k
    /\ driver.at = "deliver" => \A k \in Keys : driver.todo[k] # "dequeue"

DequeuedIsFree == \A k \in Keys : Dequeues(k) => driver.snap[k].id \notin behind

HeldInTurn == {c \in (Calls \intersect turn) \ parked : call[c].queued}

DequeueRunsAlone ==
    (\E k \in Keys : Dequeues(k)) => HeldInTurn = {}

ParkedIsHeld == inbox \subseteq parked

OnceInv ==
    /\ IdsAreRecorded /\ OneEntryPerCall /\ UnsentBefore /\ TakenIsUnsent
    /\ BehindARunningTurn /\ SentAtMostOnce /\ OneDequeuePlanned /\ DequeuedIsFree

ApartInv == DequeueRunsAlone /\ ParkedIsHeld /\ HeldRunApart

IInv == TypeInv /\ OnceInv /\ ApartInv

-----------------------------------------------------------------------------
(* The first planned step exists: the keys are natural numbers.            *)

\* A nonempty set of natural numbers has a least element.
LEMMA LeastKey ==
    ASSUME NEW S, S \subseteq Nat, S # {}
    PROVE  \E x \in S : \A y \in S : x <= y
<1> DEFINE Less == {p \in Nat \X Nat : p[1] < p[2]}
<1>1. IsWellFoundedOn(Less, Nat)
  BY NatLessThanWellFounded DEF OpToRel
<1>2. PICK x \in S : \A y \in S : ~(<<y, x>> \in Less)
  <2> HIDE DEF Less
  <2>. QED  BY <1>1, WFMin
<1>3. \A y \in S : ~(y < x)
  BY <1>2
<1>. QED  BY <1>3

\* The pass applies a step of its plan, that of the first checkout.
LEMMA NextPlannedIsPlanned ==
    ASSUME Planned # {}
    PROVE  NextPlanned \in Keys /\ driver.todo[NextPlanned] # "wait"
<1>1. Planned \subseteq Nat  BY DelegationAssumption DEF Planned
<1>2. \E x \in Planned : \A y \in Planned : x <= y  BY <1>1, LeastKey
<1>3. NextPlanned \in Planned  BY <1>2 DEF NextPlanned
<1>. QED  BY <1>3 DEF Planned

\* What a snapshot entry calls for is one of the steps of a plan.
LEMMA StepType ==
    ASSUME NEW d, NEW st, NEW r, NEW l
    PROVE  DelegationStep(d, st, r, l) \in Steps
  BY DEF DelegationStep, Steps

\* Only for an idle agent is a trigger dequeued.
LEMMA DequeueIsOfIdle ==
    ASSUME NEW d, NEW st, NEW r, NEW l, DelegationStep(d, st, r, l) = "dequeue"
    PROVE  st = "idle"
  BY DEF DelegationStep

\* A pass dequeues one trigger, that of the first checkout that has one.
LEMMA OneDequeuePerPass ==
    ASSUME NEW plan, NEW k \in Keys, OneDequeue(plan)[k] = "dequeue"
    PROVE  /\ plan[k] = "dequeue"
           /\ \A j \in Keys : j < k => OneDequeue(plan)[j] # "dequeue"
  BY DEF OneDequeue

\* What the steps write into an entry: its id stays, and a held entry is not
\* marked running.
LEMMA EntryType ==
    ASSUME NEW d \in Entries
    PROVE  /\ Marked(d) \in Entries /\ Marked(d).id = d.id
           /\ Marked(d).queued = d.queued
           /\ Taken(d) \in Entries /\ Taken(d).id = d.id /\ ~Taken(d).queued
           /\ [d EXCEPT !.sawGitOp = TRUE] \in Entries
           /\ [d EXCEPT !.sawGitOp = TRUE].id = d.id
           /\ [d EXCEPT !.sawGitOp = TRUE].queued = d.queued
           /\ EntryOK(d) => /\ EntryOK(Marked(d)) /\ EntryOK(Taken(d))
                            /\ EntryOK([d EXCEPT !.sawGitOp = TRUE])
  BY DEF Entries, Marked, Taken, EntryOK

\* What a call records.
LEMMA DelegatedType ==
    ASSUME NEW c \in Calls, NEW kind \in Kinds \union {"none"}, NEW q \in BOOLEAN
    PROVE  /\ Delegated(c, kind, q) \in Entries
           /\ Delegated(c, kind, q).id = c /\ (Delegated(c, kind, q).queued => q)
           /\ EntryOK(Delegated(c, kind, q))
  BY DEF Delegated, None, Entries, EntryOK

\* The empty entry.
LEMMA NoneType ==
    /\ None \in Entries /\ None.id = 0 /\ ~None.queued /\ EntryOK(None)
    /\ \A i \in Calls \union {0} :
          [None EXCEPT !.id = i] \in Entries /\ [None EXCEPT !.id = i].id = i
  BY DEF None, Entries, EntryOK

\* The records of a call.
LEMMA CallType ==
    ASSUME TypeInv, NEW c \in Calls
    PROVE  /\ call[c] \in CallStates
           /\ Done(c) \in CallStates /\ Done(c).at = "done"
           /\ Done(c).queued = call[c].queued
           /\ [call[c] EXCEPT !.at = "sending"] \in CallStates
           /\ [call[c] EXCEPT !.at = "sending"].at = "sending"
           /\ [call[c] EXCEPT !.at = "sending"].key = call[c].key
           /\ [call[c] EXCEPT !.at = "sending"].queued = call[c].queued
<1>1. call[c] \in CallStates  BY DEF TypeInv
<1>2. /\ Done(c) \in CallStates /\ Done(c).at = "done"
      /\ Done(c).queued = call[c].queued
  BY <1>1 DEF CallStates, Done, NoCall
<1>. QED  BY <1>1, <1>2 DEF CallStates

-----------------------------------------------------------------------------
(* Types                                                                   *)

\* The initial states are typed.
LEMMA TypeInit == Init => TypeInv
<1> SUFFICES ASSUME Init PROVE TypeInv
  OBVIOUS
<1>1. None \in Entries /\ EntryOK(None)  BY NoneType
<1>2. NoCall \in CallStates  BY DEF NoCall, CallStates
<1>3. Resting \in DriverStates /\ Resting.at = "rest"
  BY <1>1 DEF Resting, DriverStates, Steps, Statuses
<1>. QED
  BY <1>1, <1>2, <1>3 DEF Init, TypeInv, None, NoCall, Statuses

\* Handing a message over keeps the types of what it changes.
LEMMA HandOverType ==
    ASSUME TypeInv, NEW c \in Calls, HandOver(c)
    PROVE  /\ status' \in Statuses /\ (status' = "running") = (turn' # {})
           /\ inbox' \subseteq Calls /\ turn' \subseteq Calls \union {0}
           /\ unheard' \in Nat /\ sent' \in [Calls -> Nat]
<1>1. sent' \in [Calls -> Nat]  BY DEF TypeInv, HandOver
<1>. QED  BY <1>1 DEF TypeInv, HandOver, Started, Statuses

\* A finished delegation leaves its checkout free.
LEMMA FinishType ==
    ASSUME TypeInv, NEW k \in Keys, NEW c, Finish(k, c)
    PROVE  /\ table' \in [Keys -> Entries]
           /\ \A j \in Keys : EntryOK(table'[j])
           /\ \A j \in Keys : table'[j] \in {table[j], None}
<1>1. None \in Entries /\ EntryOK(None)  BY NoneType
<1>2. \A j \in Keys : table'[j] \in {table[j], None}
  BY DEF TypeInv, Finish
<1>3. table' \in [Keys -> Entries]
  BY <1>1 DEF TypeInv, Finish
<1>. QED  BY <1>1, <1>2, <1>3 DEF TypeInv

\* Every step keeps the types.
LEMMA TypeStep == ASSUME TypeInv, [Next]_vars PROVE TypeInv'
<1> USE DelegationAssumption
<1>1. ASSUME DriverHears PROVE TypeInv'
  <2>1. /\ table' \in [Keys -> Entries]
        /\ \A k \in Keys : EntryOK(table'[k])
    <3>1. \A k \in Keys : /\ table[k] \in Entries /\ EntryOK(table[k])
                           /\ Marked(table[k]) \in Entries /\ EntryOK(Marked(table[k]))
      BY EntryType DEF TypeInv
    <3>2. CASE UNCHANGED table  BY <3>1, <3>2 DEF TypeInv
    <3>3. CASE table' = [k \in Keys |-> IF IsLive(k) THEN Marked(table[k]) ELSE table[k]]
      BY <3>1, <3>3
    <3>. QED  BY <1>1, <3>2, <3>3 DEF DriverHears
  <2>2. driver' \in DriverStates /\ driver'.at = "pass"
    BY <1>1 DEF DriverHears, TypeInv, DriverStates
  <2>. QED
    BY <1>1, <2>1, <2>2 DEF DriverHears, TypeInv, agentVars, observers
<1>2. ASSUME DriverWakes PROVE TypeInv'
  BY <1>2 DEF DriverWakes, TypeInv, DriverStates, agentVars, observers
<1>3. ASSUME PassSnapshots PROVE TypeInv'
  BY <1>3 DEF PassSnapshots, TypeInv, DriverStates, agentVars, observers, Resting,
     Steps, Statuses, Entries, None
<1>4. ASSUME PassReadsStatus PROVE TypeInv'
  BY <1>4 DEF PassReadsStatus, TypeInv, DriverStates, agentVars, observers
<1>5. ASSUME NEW late, PassPlans(late) PROVE TypeInv'
  <2>1. PICK shown : driver' = [driver EXCEPT !.at = "apply", !.status = "idle",
                       !.snap = [k \in Keys |-> [None EXCEPT !.id = driver.snap[k].id]],
                       !.todo = OneDequeue([k \in Keys |->
                          DelegationStep(driver.snap[k], driver.status,
                                         k \in shown, k \in late)])]
    BY <1>5 DEF PassPlans
  <2>2. OneDequeue([k \in Keys |->
            DelegationStep(driver.snap[k], driver.status, k \in shown, k \in late)])
          \in [Keys -> Steps]
    BY StepType DEF OneDequeue, Steps
  <2>3. \A k \in Keys : driver.snap[k].id \in Calls \union {0}
    BY DEF TypeInv, DriverStates, Entries
  <2>4. [k \in Keys |-> [None EXCEPT !.id = driver.snap[k].id]] \in [Keys -> Entries]
    BY <2>3, NoneType
  <2>5. driver' \in DriverStates /\ driver'.at = "apply"
    BY <2>1, <2>2, <2>4 DEF TypeInv, DriverStates, Statuses
  <2>. QED
    BY <1>5, <2>5 DEF PassPlans, TypeInv, agentVars, observers
<1>6. ASSUME PassEnds PROVE TypeInv'
  BY <1>6 DEF PassEnds, TypeInv, DriverStates, agentVars, observers, Resting,
     Steps, Statuses, Entries, None
<1>7. ASSUME PassFinishes PROVE TypeInv'
  BY <1>7, NextPlannedIsPlanned, FinishType DEF PassFinishes, TypeInv,
     DriverStates, agentVars, observers, Applied, Steps
<1>8. ASSUME PassMarks PROVE TypeInv'
  <2>1. NextPlanned \in Keys  BY <1>8, NextPlannedIsPlanned DEF PassMarks
  <2>2. /\ table' \in [Keys -> Entries]
        /\ \A k \in Keys : EntryOK(table'[k])
    BY <1>8, <2>1, EntryType DEF PassMarks, TypeInv
  <2>3. driver' \in DriverStates /\ driver'.at = "apply"
    BY <1>8, <2>1 DEF PassMarks, TypeInv, DriverStates, Applied, Steps
  <2>. QED
    BY <1>8, <2>2, <2>3 DEF PassMarks, TypeInv, agentVars, observers
<1>9. ASSUME PassTakes PROVE TypeInv'
  <2> DEFINE k == NextPlanned
  <2>1. k \in Keys  BY <1>9, NextPlannedIsPlanned DEF PassTakes
  <2> HIDE DEF k
  <2>2. /\ table' \in [Keys -> Entries]
        /\ \A j \in Keys : EntryOK(table'[j])
    <3>1. Taken(table[k]) \in Entries /\ EntryOK(Taken(table[k]))
      BY <2>1, EntryType DEF TypeInv
    <3>2. \/ UNCHANGED table
          \/ table' = [table EXCEPT ![k] = Taken(table[k])]
      BY <1>9 DEF PassTakes, k
    <3>. QED  BY <2>1, <3>1, <3>2 DEF TypeInv
  <2>3. Applied(k) \in DriverStates /\ Applied(k).at = driver.at
        /\ Applied(k).snap = driver.snap
    BY <2>1 DEF Applied, TypeInv, DriverStates, Steps
  <2>4. CASE MayTake(k, driver.snap[k].id)
    <3>1. table[k].id \in Calls /\ table[k].id = driver.snap[k].id
      BY <2>1, <2>4 DEF MayTake, Holds, TypeInv, Entries
    <3>2. driver' = [Applied(k) EXCEPT !.at = "deliver", !.key = k,
                                       !.snap[k].id = table[k].id]
      BY <1>9, <2>4 DEF PassTakes, k
    <3>3. driver' \in DriverStates /\ driver'.key = k /\ driver'.snap[k].id \in Calls
      <4> DEFINE s == [driver.snap EXCEPT ![k].id = table[k].id]
      <4>1. s \in [Keys -> Entries] /\ s[k].id = table[k].id
        <5>1. driver.snap \in [Keys -> Entries]  BY DEF TypeInv, DriverStates
        <5> DEFINE e == [driver.snap[k] EXCEPT !.id = table[k].id]
        <5>2. e \in Entries /\ e.id = table[k].id
          BY <2>1, <3>1, <5>1 DEF Entries
        <5>3. s = [driver.snap EXCEPT ![k] = e]  BY <2>1, <5>1
        <5> HIDE DEF e, s
        <5>. QED  BY <2>1, <5>1, <5>2, <5>3
      <4>2. driver' = [Applied(k) EXCEPT !.at = "deliver", !.key = k, !.snap = s]
        BY <2>3, <3>2 DEF DriverStates
      <4> HIDE DEF s
      <4>. QED  BY <2>1, <2>3, <3>1, <4>1, <4>2 DEF DriverStates
    <3>. QED
      BY <1>9, <2>1, <2>2, <3>3 DEF PassTakes, TypeInv, agentVars, observers
  <2>5. CASE ~MayTake(k, driver.snap[k].id)
    <3>1. driver' = Applied(k) /\ driver.at = "apply"
      BY <1>9, <2>5 DEF PassTakes, k
    <3>. QED
      BY <1>9, <2>2, <2>3, <3>1 DEF PassTakes, TypeInv, agentVars, observers
  <2>. QED  BY <2>4, <2>5
<1>10. ASSUME PassDelivers PROVE TypeInv'
  BY <1>10, HandOverType, FinishType DEF PassDelivers, TypeInv, DriverStates,
     HandOverFails
<1>11. ASSUME NEW c \in Calls, DelegateReadsStatus(c) PROVE TypeInv'
  <2>1. PICK k \in Keys, kind \in Kinds :
          call' = [call EXCEPT ![c] = [at |-> "admitting", key |-> k, kind |-> kind,
                                       queued |-> status = "running"]]
    BY <1>11 DEF DelegateReadsStatus
  <2>2. /\ call' \in [Calls -> CallStates]
        /\ \A b \in Calls : call'[b].at \in {"admitting", "sending"} => call'[b].key \in Keys
    BY <2>1 DEF TypeInv, CallStates
  <2>. QED
    BY <1>11, <2>2 DEF DelegateReadsStatus, TypeInv, agentVars, observers
<1>12. ASSUME NEW c \in Calls, DelegateRecords(c) PROVE TypeInv'
  <2>1. call[c].key \in Keys /\ call[c].kind \in Kinds \union {"none"}
        /\ call[c].queued \in BOOLEAN
    BY <1>12 DEF DelegateRecords, TypeInv, CallStates
  <2>2. /\ table' \in [Keys -> Entries]
        /\ \A k \in Keys : EntryOK(table'[k])
    <3> DEFINE d == Delegated(c, call[c].kind, call[c].queued)
    <3>1. d \in Entries /\ EntryOK(d)  BY <2>1, DelegatedType
    <3> HIDE DEF d
    <3>2. \/ UNCHANGED table
          \/ table' = [table EXCEPT ![call[c].key] = d]
      BY <1>12 DEF DelegateRecords, d
    <3>. QED  BY <2>1, <3>1, <3>2 DEF TypeInv
  <2>3. /\ call' \in [Calls -> CallStates]
        /\ \A b \in Calls : call'[b].at \in {"admitting", "sending"} => call'[b].key \in Keys
    <3> DEFINE d == [call[c] EXCEPT !.at = "sending"]
    <3>1. /\ d \in CallStates /\ d.key \in Keys
          /\ Done(c) \in CallStates /\ Done(c).at = "done"
      BY <2>1, CallType
    <3>2. call' = [call EXCEPT ![c] = d] \/ call' = [call EXCEPT ![c] = Done(c)]
      BY <1>12 DEF DelegateRecords
    <3> HIDE DEF d
    <3>. QED  BY <3>1, <3>2 DEF TypeInv
  <2>. QED
    BY <1>12, <2>2, <2>3 DEF DelegateRecords, TypeInv, agentVars
<1>13. ASSUME NEW c \in Calls, DelegateSends(c) PROVE TypeInv'
  BY <1>13, HandOverType, FinishType DEF DelegateSends, TypeInv, CallStates,
     HandOverFails, Done, NoCall
<1>14. ASSUME UserStartsTurn PROVE TypeInv'
  BY <1>14 DEF UserStartsTurn, TypeInv, Started, Statuses
<1>15. ASSUME AgentRevives PROVE TypeInv'
  BY <1>15 DEF AgentRevives, TypeInv, Statuses, observers
<1>16. ASSUME HeldTurnStarts PROVE TypeInv'
  BY <1>16 DEF HeldTurnStarts, TypeInv, Started, Statuses
<1>17. ASSUME TurnEnds PROVE TypeInv'
  BY <1>17 DEF TurnEnds, TypeInv, Statuses
<1>18. ASSUME AgentGoes PROVE TypeInv'
  BY <1>18 DEF AgentGoes, TypeInv, Statuses, observers
<1>19. ASSUME AgentRunsOp PROVE TypeInv'
  <2>1. /\ table' \in [Keys -> Entries]
        /\ \A k \in Keys : EntryOK(table'[k])
    BY <1>19, EntryType DEF AgentRunsOp, TypeInv
  <2>. QED
    BY <1>19, <2>1 DEF AgentRunsOp, TypeInv, agentVars, observers
<1>20. ASSUME NEW k \in Keys, ReviewClaims(k) \/ ReviewEnds(k) PROVE TypeInv'
  BY <1>20 DEF ReviewClaims, ReviewEnds, TypeInv, agentVars, observers
<1>21. ASSUME UNCHANGED vars PROVE TypeInv'
  BY <1>21 DEF vars, agentVars, observers, TypeInv
<1>. QED
  BY <1>1, <1>2, <1>3, <1>4, <1>5, <1>6, <1>7, <1>8, <1>9, <1>10, <1>11,
     <1>12, <1>13, <1>14, <1>15, <1>16, <1>17, <1>18, <1>19, <1>20, <1>21
     DEF Next, DriverStep, CallStep

-----------------------------------------------------------------------------
(* A trigger is handed over once                                           *)

\* The initial states satisfy it.
LEMMA OnceInit == Init => OnceInv
<1> SUFFICES ASSUME Init PROVE OnceInv
  OBVIOUS
<1>1. \A k \in Keys : table[k].id = 0 /\ ~table[k].queued /\ driver.snap[k].id = 0
  BY NoneType DEF Init, Resting
<1>2. \A c \in Calls : call[c].at = "none" /\ sent[c] = 0
  BY DEF Init, NoCall
<1>3. driver.at = "rest" /\ 0 \notin Calls
  BY DelegationAssumption DEF Init, Resting
<1>4. turn = {} /\ inbox = {} /\ behind = {}  BY DEF Init
<1>. QED
  BY <1>1, <1>2, <1>3, <1>4
     DEF OnceInv, IdsAreRecorded, OneEntryPerCall, UnsentBefore, TakenIsUnsent,
         BehindARunningTurn, SentAtMostOnce, OneDequeuePlanned, DequeuedIsFree,
         Delivering, Dequeues

(***************************************************************************)
(* A step that records nothing, takes no held trigger and hands nothing    *)
(* over: entries stay or go, the pass looks at entries of the table, and   *)
(* comes to a dequeue only through an idle agent.                          *)
(***************************************************************************)
QuietTable ==
    \A k \in Keys :
       /\ table'[k].id \in {table[k].id, 0}
       /\ table'[k].queued => table[k].queued /\ table'[k].id = table[k].id

QuietDriver ==
    /\ \A k \in Keys : driver'.snap[k].id \in {driver.snap[k].id, table[k].id, 0}
    /\ \A k \in Keys : Dequeues(k)' =>
          \/ turn = {}
          \/ Dequeues(k) /\ driver'.snap[k].id = driver.snap[k].id
    /\ \A c \in Calls : Delivering(c)' => Delivering(c)
    /\ OneDequeuePlanned'

\* Such a step keeps what is known of the triggers.
LEMMA QuietStep ==
    ASSUME TypeInv, OnceInv, QuietTable, QuietDriver,
           UNCHANGED <<call, sent, behind>>,
           turn' = turn, inbox' \subseteq inbox
    PROVE  OnceInv'
<1> USE DelegationAssumption DEF OnceInv, QuietTable, QuietDriver
<1>1. IdsAreRecorded'  BY DEF IdsAreRecorded, Unrecorded
<1>2. OneEntryPerCall'  BY DEF OneEntryPerCall
<1>3. UnsentBefore'  BY DEF UnsentBefore
<1>4. TakenIsUnsent'  BY DEF TakenIsUnsent
<1>5. BehindARunningTurn' /\ SentAtMostOnce'
  BY DEF BehindARunningTurn, SentAtMostOnce
<1>6. DequeuedIsFree'  BY DEF DequeuedIsFree, BehindARunningTurn
<1>. QED  BY <1>1, <1>2, <1>3, <1>4, <1>5, <1>6

\* A hand-over of a call that has returned and is behind no turn, its first.
LEMMA HandOverOnce ==
    ASSUME TypeInv, OnceInv, NEW c \in Calls, HandOver(c),
           sent[c] = 0, c \notin behind, UNCHANGED behind
    PROVE  /\ BehindARunningTurn' /\ sent' \in [Calls -> Nat]
           /\ \A b \in Calls : sent'[b] <= 1
           /\ sent'[c] = 1 /\ \A b \in Calls \ {c} : sent'[b] = sent[b]
           /\ turn' \union inbox' \subseteq turn \union inbox \union {c}
<1>1. /\ sent' \in [Calls -> Nat] /\ sent'[c] = 1
      /\ \A b \in Calls \ {c} : sent'[b] = sent[b]
  BY DEF TypeInv, HandOver
<1>2. BehindARunningTurn'
  BY DEF OnceInv, BehindARunningTurn, HandOver, Started
<1>3. turn' \union inbox' \subseteq turn \union inbox \union {c}
  BY DEF HandOver, Started
<1>. QED  BY <1>1, <1>2, <1>3 DEF OnceInv, SentAtMostOnce

\* Every step keeps what is known of the triggers.
LEMMA OnceStep == ASSUME TypeInv, TypeInv', OnceInv, [Next]_vars PROVE OnceInv'
<1> USE DelegationAssumption
<1>1. ASSUME DriverHears PROVE OnceInv'
  <2>1. QuietTable
    <3>1. \A k \in Keys : Marked(table[k]).id = table[k].id
                          /\ Marked(table[k]).queued = table[k].queued
      BY EntryType DEF TypeInv
    <3>2. CASE UNCHANGED table  BY <3>2 DEF QuietTable
    <3>3. CASE table' = [k \in Keys |-> IF IsLive(k) THEN Marked(table[k]) ELSE table[k]]
      BY <3>1, <3>3 DEF QuietTable
    <3>. QED  BY <1>1, <3>2, <3>3 DEF DriverHears
  <2>2. QuietDriver
    BY <1>1 DEF DriverHears, OnceInv, QuietDriver, OneDequeuePlanned, Dequeues,
       Delivering, TypeInv, DriverStates
  <2>. QED  BY <1>1, <2>1, <2>2, QuietStep DEF DriverHears, agentVars, observers
<1>2. ASSUME DriverWakes PROVE OnceInv'
  <2>1. QuietTable /\ QuietDriver
    BY <1>2 DEF DriverWakes, QuietTable, OnceInv, QuietDriver, OneDequeuePlanned,
       Dequeues, Delivering, TypeInv, DriverStates
  <2>. QED  BY <1>2, <2>1, QuietStep DEF DriverWakes, agentVars, observers
<1>3. ASSUME PassSnapshots PROVE OnceInv'
  <2>1. QuietTable /\ QuietDriver
    BY <1>3, NoneType DEF PassSnapshots, QuietTable, OnceInv, QuietDriver,
       OneDequeuePlanned, Dequeues, Delivering, Resting, TypeInv, DriverStates
  <2>. QED  BY <1>3, <2>1, QuietStep DEF PassSnapshots, agentVars, observers
<1>4. ASSUME PassReadsStatus PROVE OnceInv'
  <2>1. QuietTable /\ QuietDriver
    BY <1>4 DEF PassReadsStatus, QuietTable, OnceInv, QuietDriver,
       OneDequeuePlanned, Dequeues, Delivering, TypeInv, DriverStates
  <2>. QED  BY <1>4, <2>1, QuietStep DEF PassReadsStatus, agentVars, observers
<1>5. ASSUME NEW late, PassPlans(late) PROVE OnceInv'
  <2>1. PICK shown : driver' = [driver EXCEPT !.at = "apply", !.status = "idle",
                       !.snap = [k \in Keys |-> [None EXCEPT !.id = driver.snap[k].id]],
                       !.todo = OneDequeue([k \in Keys |->
                          DelegationStep(driver.snap[k], driver.status,
                                         k \in shown, k \in late)])]
    BY <1>5 DEF PassPlans
  <2>2. \A k \in Keys : driver'.snap[k].id = driver.snap[k].id
    BY <2>1, NoneType DEF TypeInv, DriverStates, Entries
  <2>3. /\ driver'.at = "apply"
        /\ driver'.todo = OneDequeue([k \in Keys |->
              DelegationStep(driver.snap[k], driver.status, k \in shown, k \in late)])
    BY <2>1 DEF TypeInv, DriverStates
  <2>4. \A k \in Keys : driver'.todo[k] = "dequeue" =>
           /\ driver.status = "idle"
           /\ \A j \in Keys : j < k => driver'.todo[j] # "dequeue"
    <3> SUFFICES ASSUME NEW k \in Keys, driver'.todo[k] = "dequeue"
                 PROVE  /\ driver.status = "idle"
                        /\ \A j \in Keys : j < k => driver'.todo[j] # "dequeue"
      OBVIOUS
    <3> DEFINE plan == [j \in Keys |-> DelegationStep(driver.snap[j], driver.status,
                                                     j \in shown, j \in late)]
    <3>1. driver'.todo = OneDequeue(plan)  BY <2>3
    <3>2. plan[k] = DelegationStep(driver.snap[k], driver.status, k \in shown, k \in late)
      OBVIOUS
    <3> HIDE DEF plan
    <3>3. plan[k] = "dequeue" /\ \A j \in Keys : j < k => driver'.todo[j] # "dequeue"
      BY <3>1, OneDequeuePerPass
    <3>. QED  BY <3>2, <3>3, DequeueIsOfIdle
  <2>5. QuietTable /\ QuietDriver
    BY <1>5, <2>2, <2>3, <2>4 DEF PassPlans, QuietTable, OnceInv, QuietDriver,
       OneDequeuePlanned, Dequeues, Delivering
  <2>. QED  BY <1>5, <2>5, QuietStep DEF PassPlans, agentVars, observers
<1>6. ASSUME PassEnds PROVE OnceInv'
  <2>1. QuietTable /\ QuietDriver
    BY <1>6, NoneType DEF PassEnds, QuietTable, OnceInv, QuietDriver,
       OneDequeuePlanned, Dequeues, Delivering, Resting
  <2>. QED  BY <1>6, <2>1, QuietStep DEF PassEnds, agentVars, observers
<1>7. ASSUME PassFinishes PROVE OnceInv'
  <2>1. NextPlanned \in Keys  BY <1>7, NextPlannedIsPlanned DEF PassFinishes
  <2>2. QuietTable
    BY <1>7, <2>1, FinishType, NoneType DEF PassFinishes, QuietTable
  <2>3. QuietDriver
    BY <1>7, <2>1 DEF PassFinishes, Applied, OnceInv, QuietDriver,
       OneDequeuePlanned, Dequeues, Delivering, TypeInv, DriverStates
  <2>. QED  BY <1>7, <2>2, <2>3, QuietStep DEF PassFinishes, agentVars, observers
<1>8. ASSUME PassMarks PROVE OnceInv'
  <2>1. NextPlanned \in Keys  BY <1>8, NextPlannedIsPlanned DEF PassMarks
  <2>2. QuietTable
    <3>1. LET d == table[NextPlanned] IN
             Marked(d).id = d.id /\ Marked(d).queued = d.queued
      BY <2>1, EntryType DEF TypeInv
    <3>. QED  BY <1>8, <2>1, <3>1 DEF PassMarks, QuietTable, TypeInv
  <2>3. QuietDriver
    BY <1>8, <2>1 DEF PassMarks, Applied, OnceInv, QuietDriver, OneDequeuePlanned,
       Dequeues, Delivering, TypeInv, DriverStates
  <2>. QED  BY <1>8, <2>2, <2>3, QuietStep DEF PassMarks, agentVars, observers
<1>9. ASSUME PassTakes PROVE OnceInv'
  <2> DEFINE k == NextPlanned
  <2>1. k \in Keys  BY <1>9, NextPlannedIsPlanned DEF PassTakes
  <2>2. /\ driver.at = "apply" /\ driver.todo[k] = "dequeue"
        /\ UNCHANGED <<call, sent, behind, turn, inbox>>
    BY <1>9 DEF PassTakes, agentVars, observers
  <2>3. CASE ~MayTake(k, driver.snap[k].id)
    <3>1. QuietTable /\ QuietDriver
      BY <1>9, <2>1, <2>3 DEF PassTakes, Applied, QuietTable, QuietDriver,
         OneDequeuePlanned, OnceInv, Dequeues, Delivering, TypeInv, DriverStates
    <3>. QED  BY <2>2, <3>1, QuietStep
  <2>4. CASE MayTake(k, driver.snap[k].id)
    <3> DEFINE c == table[k].id
    <3>1. /\ c \in Calls /\ c = driver.snap[k].id /\ table[k].queued
          /\ c \notin behind
      BY <2>1, <2>2, <2>4 DEF MayTake, Holds, TypeInv, Entries, OnceInv,
         DequeuedIsFree, Dequeues
    <3>2. call[c].at = "done" /\ call[c].queued /\ sent[c] = 0
      BY <2>1, <3>1 DEF OnceInv, UnsentBefore
    <3>3. /\ \A j \in Keys : table'[j].id = table[j].id
          /\ \A j \in Keys : table'[j].queued => table[j].queued /\ j # k
      <4>1. Taken(table[k]).id = table[k].id /\ ~Taken(table[k]).queued
        BY <2>1, EntryType DEF TypeInv
      <4>2. table' = [table EXCEPT ![k] = Taken(table[k])]
        BY <1>9, <2>4 DEF PassTakes
      <4>. QED  BY <2>1, <4>1, <4>2 DEF TypeInv
    <3>4. /\ driver'.at = "deliver" /\ driver'.key = k
          /\ \A j \in Keys : driver'.snap[j].id = driver.snap[j].id
      <4>1. driver' = [Applied(k) EXCEPT !.at = "deliver", !.key = k,
                                         !.snap[k].id = table[k].id]
        BY <1>9, <2>4 DEF PassTakes
      <4>2. Applied(k).snap = driver.snap /\ Applied(k) \in DriverStates
        BY <2>1 DEF Applied, TypeInv, DriverStates, Steps
      <4>. QED  BY <2>1, <3>1, <4>1, <4>2 DEF DriverStates, TypeInv, Entries
    <3> HIDE DEF c, k
    <3>5. IdsAreRecorded'
      BY <2>2, <3>3, <3>4 DEF OnceInv, IdsAreRecorded, Unrecorded
    <3>6. OneEntryPerCall' /\ UnsentBefore'
      BY <2>2, <3>3 DEF OnceInv, OneEntryPerCall, UnsentBefore
    <3>7. TakenIsUnsent'
      <4>1. \A j \in Keys : table[j].id = c => j = k
        BY <2>1, <3>1 DEF OnceInv, OneEntryPerCall, c
      <4>. QED
        BY <2>1, <2>2, <3>1, <3>2, <3>3, <3>4, <4>1 DEF TakenIsUnsent, Delivering
    <3>8. BehindARunningTurn' /\ SentAtMostOnce'
      BY <2>2 DEF OnceInv, BehindARunningTurn, SentAtMostOnce
    <3>9. OneDequeuePlanned' /\ DequeuedIsFree'
      <4>1. driver'.todo = [driver.todo EXCEPT ![k] = "wait"]
        BY <1>9, <2>4 DEF PassTakes, Applied, TypeInv, DriverStates, k
      <4>. QED
        BY <2>1, <2>2, <3>1, <3>4, <4>1
           DEF OnceInv, OneDequeuePlanned, DequeuedIsFree, Dequeues, TypeInv, DriverStates
    <3>. QED  BY <3>5, <3>6, <3>7, <3>8, <3>9 DEF OnceInv
  <2>. QED  BY <2>3, <2>4
<1>10. ASSUME PassDelivers PROVE OnceInv'
  <2> DEFINE k == driver.key
             c == driver.snap[k].id
  <2>1. /\ k \in Keys /\ c \in Calls /\ Delivering(c) /\ c \notin behind
        /\ call[c].at = "done" /\ sent[c] = 0
        /\ \A j \in Keys : table[j].id = c => ~table[j].queued
    BY <1>10 DEF PassDelivers, TypeInv, Delivering, OnceInv, TakenIsUnsent,
       DequeuedIsFree, Dequeues
  <2>2. /\ driver'.at = "apply" /\ driver'.snap = driver.snap
        /\ driver'.todo = driver.todo /\ UNCHANGED <<call, behind>>
    BY <1>10 DEF PassDelivers, TypeInv, DriverStates
  <2>3. (HandOver(c) /\ UNCHANGED table) \/ (HandOverFails /\ Finish(k, c))
    BY <1>10 DEF PassDelivers
  <2> HIDE DEF k, c
  <2>4. CASE HandOverFails /\ Finish(k, c)
    <3>1. QuietTable  BY <2>1, <2>4, FinishType, NoneType DEF QuietTable
    <3>2. QuietDriver
      BY <2>1, <2>2 DEF OnceInv, OneDequeuePlanned, QuietDriver, Dequeues,
         Delivering
    <3>. QED  BY <2>2, <2>4, <3>1, <3>2, QuietStep DEF HandOverFails
  <2>5. CASE HandOver(c) /\ UNCHANGED table
    <3>1. /\ BehindARunningTurn' /\ sent' \in [Calls -> Nat]
          /\ \A b \in Calls : sent'[b] <= 1
          /\ sent'[c] = 1 /\ \A b \in Calls \ {c} : sent'[b] = sent[b]
          /\ turn' \union inbox' \subseteq turn \union inbox \union {c}
      BY <2>1, <2>2, <2>5, HandOverOnce
    <3>2. IdsAreRecorded'
      BY <2>1, <2>2, <2>5, <3>1 DEF OnceInv, IdsAreRecorded, Unrecorded
    <3>3. OneEntryPerCall' /\ UnsentBefore'
      <4>1. \A j \in Keys : table[j].queued => table[j].id \in Calls \ {c}
        BY <2>1 DEF OnceInv, UnsentBefore
      <4>2. OneEntryPerCall'  BY <2>5 DEF OnceInv, OneEntryPerCall
      <4>3. UnsentBefore'
        <5>1. \A b \in Calls : /\ sent'[b] > 0 => call'[b].at = "done"
                               /\ call'[b].at = "sending" => ~call'[b].queued
          BY <2>1, <2>2, <3>1 DEF OnceInv, UnsentBefore
        <5>2. \A j \in Keys : table[j].queued =>
                 /\ table[j].id \in Calls
                 /\ call[table[j].id].at = "done" /\ call[table[j].id].queued
                 /\ sent'[table[j].id] = 0
          BY <3>1, <4>1 DEF OnceInv, UnsentBefore
        <5>. QED  BY <2>2, <2>5, <5>1, <5>2 DEF UnsentBefore
      <4>. QED  BY <4>2, <4>3
    <3>4. TakenIsUnsent' /\ OneDequeuePlanned' /\ DequeuedIsFree'
      BY <2>1, <2>2 DEF OnceInv, TakenIsUnsent, DequeuedIsFree, OneDequeuePlanned,
         Delivering, Dequeues
    <3>5. SentAtMostOnce'
      BY <2>1, <2>2, <3>1 DEF OnceInv, SentAtMostOnce, IdsAreRecorded
    <3>. QED  BY <3>1, <3>2, <3>3, <3>4, <3>5 DEF OnceInv
  <2>. QED  BY <2>3, <2>4, <2>5
<1>11. ASSUME NEW c \in Calls, DelegateReadsStatus(c) PROVE OnceInv'
  <2>1. /\ call[c].at = "none" /\ call'[c].at = "admitting"
        /\ \A b \in Calls \ {c} : call'[b] = call[b]
    BY <1>11 DEF DelegateReadsStatus, TypeInv
  <2>2. UNCHANGED <<table, driver, sent, behind, turn, inbox>>
    BY <1>11 DEF DelegateReadsStatus, agentVars, observers
  <2>3. sent[c] = 0 /\ c \notin behind \union turn \union inbox /\ behind \subseteq Calls
    BY <2>1 DEF OnceInv, UnsentBefore, IdsAreRecorded, TypeInv
  <2>4. \A k \in Keys : table[k].id # c /\ driver.snap[k].id # c
    BY <2>1 DEF OnceInv, IdsAreRecorded, Unrecorded
  <2>5. IdsAreRecorded' /\ OneEntryPerCall'
    BY <2>1, <2>2, <2>3, <2>4 DEF OnceInv, IdsAreRecorded, OneEntryPerCall,
       Unrecorded
  <2>6. UnsentBefore'
    BY <2>1, <2>2, <2>3, <2>4 DEF OnceInv, UnsentBefore
  <2>7. TakenIsUnsent'
    BY <2>1, <2>2, <2>4 DEF OnceInv, TakenIsUnsent, Delivering, TypeInv
  <2>8. BehindARunningTurn' /\ SentAtMostOnce' /\ OneDequeuePlanned' /\ DequeuedIsFree'
    BY <2>1, <2>2, <2>3 DEF OnceInv, BehindARunningTurn, SentAtMostOnce,
       OneDequeuePlanned, DequeuedIsFree, Dequeues
  <2>. QED  BY <2>5, <2>6, <2>7, <2>8 DEF OnceInv
<1>12. ASSUME NEW c \in Calls, DelegateRecords(c) PROVE OnceInv'
  <2> DEFINE k == call[c].key
             q == call[c].queued
             d == Delegated(c, call[c].kind, q)
  <2>1. /\ call[c].at = "admitting" /\ k \in Keys /\ q \in BOOLEAN
        /\ call[c].kind \in Kinds \union {"none"}
    BY <1>12 DEF DelegateRecords, TypeInv, CallStates
  <2>2. UNCHANGED <<driver, sent, turn, inbox>>
    BY <1>12 DEF DelegateRecords, agentVars
  <2>3. sent[c] = 0 /\ c \notin behind \union turn \union inbox
    BY <2>1 DEF OnceInv, UnsentBefore, IdsAreRecorded, TypeInv
  <2>4. \A j \in Keys : table[j].id # c /\ driver.snap[j].id # c
    BY <2>1 DEF OnceInv, IdsAreRecorded, Unrecorded
  <2>5. d.id = c /\ (d.queued => q)  BY <2>1, DelegatedType
  <2>6. /\ call'[c].at = "done" \/ (call'[c].at = "sending" /\ ~q)
        /\ call'[c].queued = q
        /\ \A b \in Calls \ {c} : call'[b] = call[b]
    <3>1. call' = [call EXCEPT ![c] = IF MayRecord(k) /\ ~q
                       THEN [call[c] EXCEPT !.at = "sending"] ELSE Done(c)]
      BY <1>12 DEF DelegateRecords
    <3>. QED  BY <3>1, CallType DEF TypeInv
  <2>7. \/ UNCHANGED <<table, behind>>
        \/ /\ table' = [table EXCEPT ![k] = d]
           /\ q => call'[c].at = "done"
           /\ behind' = IF q /\ turn # {} THEN behind \union {c} ELSE behind
    <3>1. CASE ~MayRecord(k)  BY <1>12, <3>1 DEF DelegateRecords
    <3>2. CASE MayRecord(k)
      <4>1. /\ table' = [table EXCEPT ![k] = d]
            /\ behind' = IF q /\ turn # {} THEN behind \union {c} ELSE behind
        BY <1>12, <3>2 DEF DelegateRecords
      <4>2. q => call'[c].at = "done"  BY <2>6
      <4>. QED  BY <4>1, <4>2
    <3>. QED  BY <3>1, <3>2
  <2> HIDE DEF d, k, q
  <2>8. /\ \A j \in Keys : table'[j] = table[j] \/ (j = k /\ table'[j] = d)
        /\ \/ behind' = behind
           \/ behind' = behind \union {c} /\ q /\ call'[c].at = "done" /\ turn # {}
    BY <2>1, <2>6, <2>7 DEF TypeInv
  <2>9. IdsAreRecorded'
    <3>1. \A b \in Calls : Unrecorded(b)' => Unrecorded(b) /\ b # c
      BY <2>6 DEF Unrecorded
    <3>2. \A j \in Keys : /\ (table[j].id \in Calls => ~Unrecorded(table[j].id))'
                          /\ (driver.snap[j].id \in Calls => ~Unrecorded(driver.snap[j].id))'
      <4>1. \A j \in Keys : table'[j].id = c \/ table'[j].id = table[j].id
        BY <2>5, <2>8
      <4>. QED
        BY <2>2, <2>4, <3>1, <4>1 DEF OnceInv, IdsAreRecorded, Unrecorded
    <3>3. /\ \A b \in Calls : b \in behind' \union turn' \union inbox' => call'[b].at = "done"
          /\ behind' \subseteq Calls
      BY <2>2, <2>3, <2>6, <2>8 DEF OnceInv, IdsAreRecorded
    <3>. QED  BY <3>2, <3>3 DEF IdsAreRecorded
  <2>10. OneEntryPerCall'
    BY <2>4, <2>5, <2>8 DEF OnceInv, OneEntryPerCall
  <2>11. UnsentBefore'
    <3>1. \A b \in Calls : /\ sent'[b] > 0 => call'[b].at = "done"
                           /\ call'[b].at = "sending" => ~call'[b].queued
      BY <2>2, <2>3, <2>6 DEF OnceInv, UnsentBefore, q
    <3>2. ASSUME NEW j \in Keys, table'[j].queued
          PROVE  /\ table'[j].id \in Calls
                 /\ call'[table'[j].id].at = "done" /\ call'[table'[j].id].queued
                 /\ sent'[table'[j].id] = 0
      <4>1. CASE table'[j] = table[j]
        <5> DEFINE b == table[j].id
        <5>1. /\ b \in Calls /\ b # c /\ call[b].at = "done" /\ call[b].queued
              /\ sent[b] = 0
          BY <2>4, <3>2, <4>1 DEF OnceInv, UnsentBefore
        <5>. QED  BY <2>2, <2>6, <4>1, <5>1
      <4>2. CASE table'[j] = d
        BY <2>2, <2>3, <2>5, <2>6, <3>2, <4>2
      <4>. QED  BY <2>8, <4>1, <4>2
    <3>. QED  BY <3>1, <3>2 DEF UnsentBefore
  <2>12. TakenIsUnsent'
    <3> SUFFICES ASSUME NEW b \in Calls, Delivering(b)
                 PROVE  /\ call'[b].at = "done" /\ call'[b].queued /\ sent'[b] = 0
                        /\ \A j \in Keys : table'[j].id = b => ~table'[j].queued
      BY <2>2 DEF TakenIsUnsent, Delivering
    <3>1. b # c  BY <2>1 DEF OnceInv, TakenIsUnsent
    <3>2. /\ call[b].at = "done" /\ call[b].queued /\ sent[b] = 0
          /\ \A j \in Keys : table[j].id = b => ~table[j].queued
      BY DEF OnceInv, TakenIsUnsent
    <3>3. call'[b] = call[b] /\ sent' = sent  BY <2>2, <2>6, <3>1
    <3>4. \A j \in Keys : table'[j].id = b => table'[j] = table[j]
      BY <2>5, <2>8, <3>1
    <3>. QED  BY <3>2, <3>3, <3>4
  <2>13. BehindARunningTurn' /\ SentAtMostOnce'
    BY <2>2, <2>3, <2>6, <2>8 DEF OnceInv, BehindARunningTurn, SentAtMostOnce,
       IdsAreRecorded
  <2>14. OneDequeuePlanned' /\ DequeuedIsFree'
    BY <2>2, <2>4, <2>8 DEF OnceInv, OneDequeuePlanned, DequeuedIsFree, Dequeues
  <2>. QED  BY <2>9, <2>10, <2>11, <2>12, <2>13, <2>14 DEF OnceInv
<1>13. ASSUME NEW c \in Calls, DelegateSends(c) PROVE OnceInv'
  <2>1. /\ call[c].at = "sending" /\ ~call[c].queued /\ call[c].key \in Keys
        /\ sent[c] = 0 /\ c \notin behind
    BY <1>13 DEF DelegateSends, TypeInv, OnceInv, UnsentBefore, IdsAreRecorded
  <2>2. /\ call'[c].at = "done" /\ call'[c].queued = call[c].queued
        /\ \A b \in Calls \ {c} : call'[b] = call[b]
    BY <1>13, CallType DEF DelegateSends, TypeInv
  <2>3. UNCHANGED <<driver, behind>>
    BY <1>13 DEF DelegateSends
  <2>4. \A k \in Keys : table[k].id = c => ~table[k].queued
    BY <2>1 DEF OnceInv, UnsentBefore
  <2>5. ~Delivering(c)
    BY <2>1 DEF OnceInv, TakenIsUnsent
  <2>6. /\ \A k \in Keys : table'[k] = table[k] \/ table'[k] = None
        /\ \/ sent' = [sent EXCEPT ![c] = 1] /\ UNCHANGED table
           \/ UNCHANGED sent
        /\ \A b \in Calls : b \in turn' \union inbox' => b = c \/ b \in turn \union inbox
        /\ BehindARunningTurn'
    <3>1. CASE HandOver(c) /\ UNCHANGED <<table, faults>>
      <4>1. sent' = [sent EXCEPT ![c] = 1]
        BY <2>1, <3>1 DEF HandOver, TypeInv
      <4>. QED  BY <2>1, <2>3, <3>1, <4>1, HandOverOnce
    <3>2. CASE HandOverFails /\ Finish(call[c].key, c)
      BY <2>1, <2>3, <3>2, FinishType DEF HandOverFails, OnceInv,
         BehindARunningTurn
    <3>. QED  BY <1>13, <3>1, <3>2 DEF DelegateSends
  <2>7. IdsAreRecorded'
    BY <2>2, <2>3, <2>6, NoneType DEF OnceInv, IdsAreRecorded, Unrecorded
  <2>8. OneEntryPerCall'
    BY <2>6, NoneType DEF OnceInv, OneEntryPerCall
  <2>9. UnsentBefore'
    BY <2>1, <2>2, <2>4, <2>6, NoneType DEF OnceInv, UnsentBefore, TypeInv
  <2>10. TakenIsUnsent'
    BY <2>2, <2>3, <2>5, <2>6, NoneType DEF OnceInv, TakenIsUnsent, Delivering,
       TypeInv
  <2>11. SentAtMostOnce'
    BY <2>1, <2>2, <2>3, <2>6 DEF OnceInv, SentAtMostOnce, IdsAreRecorded, TypeInv
  <2>12. OneDequeuePlanned' /\ DequeuedIsFree'
    BY <2>3 DEF OnceInv, OneDequeuePlanned, DequeuedIsFree, Dequeues
  <2>. QED  BY <2>6, <2>7, <2>8, <2>9, <2>10, <2>11, <2>12 DEF OnceInv
<1>14. ASSUME UserStartsTurn PROVE OnceInv'
  BY <1>14 DEF UserStartsTurn, Started, OnceInv, IdsAreRecorded, OneEntryPerCall,
     UnsentBefore, TakenIsUnsent, BehindARunningTurn, SentAtMostOnce, OneDequeuePlanned, DequeuedIsFree,
     Delivering, Dequeues, Unrecorded, TypeInv
<1>15. ASSUME AgentRevives PROVE OnceInv'
  <2>1. QuietTable /\ QuietDriver
    BY <1>15 DEF AgentRevives, QuietTable, OnceInv, QuietDriver,
       OneDequeuePlanned, Dequeues, Delivering
  <2>. QED  BY <1>15, <2>1, QuietStep DEF AgentRevives, observers
<1>16. ASSUME HeldTurnStarts PROVE OnceInv'
  BY <1>16 DEF HeldTurnStarts, Started, OnceInv, IdsAreRecorded, OneEntryPerCall,
     UnsentBefore, TakenIsUnsent, BehindARunningTurn, SentAtMostOnce, OneDequeuePlanned, DequeuedIsFree,
     Delivering, Dequeues, Unrecorded, TypeInv
<1>17. ASSUME TurnEnds PROVE OnceInv'
  <2>1. /\ turn' = {} /\ behind' = {}
        /\ UNCHANGED <<table, call, driver, inbox, sent>>
    BY <1>17 DEF TurnEnds
  <2>2. IdsAreRecorded' /\ OneEntryPerCall'
    BY <2>1 DEF OnceInv, IdsAreRecorded, OneEntryPerCall, Unrecorded
  <2>3. UnsentBefore' /\ TakenIsUnsent'
    BY <2>1 DEF OnceInv, UnsentBefore, TakenIsUnsent, Delivering
  <2>4. BehindARunningTurn' /\ SentAtMostOnce' /\ OneDequeuePlanned' /\ DequeuedIsFree'
    BY <2>1 DEF OnceInv, BehindARunningTurn, SentAtMostOnce, OneDequeuePlanned,
                DequeuedIsFree, Dequeues
  <2>. QED  BY <2>2, <2>3, <2>4 DEF OnceInv
<1>18. ASSUME AgentGoes PROVE OnceInv'
  <2>1. QuietTable /\ QuietDriver
    BY <1>18 DEF AgentGoes, QuietTable, OnceInv, QuietDriver, OneDequeuePlanned,
       Dequeues, Delivering
  <2>. QED  BY <1>18, <2>1, QuietStep DEF AgentGoes, observers
<1>19. ASSUME AgentRunsOp PROVE OnceInv'
  <2>1. QuietTable
    BY <1>19, EntryType DEF AgentRunsOp, QuietTable, TypeInv
  <2>2. QuietDriver
    BY <1>19 DEF AgentRunsOp, OnceInv, QuietDriver, OneDequeuePlanned, Dequeues,
       Delivering
  <2>. QED  BY <1>19, <2>1, <2>2, QuietStep DEF AgentRunsOp, agentVars, observers
<1>20. ASSUME NEW k \in Keys, ReviewClaims(k) \/ ReviewEnds(k) PROVE OnceInv'
  <2>1. QuietTable /\ QuietDriver
    BY <1>20 DEF ReviewClaims, ReviewEnds, QuietTable, OnceInv, QuietDriver,
       OneDequeuePlanned, Dequeues, Delivering
  <2>. QED
    BY <1>20, <2>1, QuietStep DEF ReviewClaims, ReviewEnds, agentVars, observers
<1>21. ASSUME UNCHANGED vars PROVE OnceInv'
  <2>1. QuietTable /\ QuietDriver
    BY <1>21 DEF vars, QuietTable, OnceInv, QuietDriver, OneDequeuePlanned,
       Dequeues, Delivering
  <2>. QED  BY <1>21, <2>1, QuietStep DEF vars, agentVars, observers
<1>. QED
  BY <1>1, <1>2, <1>3, <1>4, <1>5, <1>6, <1>7, <1>8, <1>9, <1>10, <1>11,
     <1>12, <1>13, <1>14, <1>15, <1>16, <1>17, <1>18, <1>19, <1>20, <1>21
     DEF Next, DriverStep, CallStep

-----------------------------------------------------------------------------
(* Held triggers run apart                                                 *)

\* The initial states satisfy it.
LEMMA ApartInit == Init => ApartInv
  BY DEF Init, ApartInv, DequeueRunsAlone, ParkedIsHeld, HeldRunApart, HeldInTurn

\* A step that brings no held trigger into the running turn, and comes to a
\* dequeue only when there is none in it.
LEMMA ApartQuiet ==
    ASSUME ApartInv, ParkedIsHeld', HeldInTurn' \subseteq HeldInTurn,
           \/ \A k \in Keys : Dequeues(k)' => Dequeues(k)
           \/ \A k \in Keys : ~Dequeues(k)'
           \/ turn' = {}
    PROVE  ApartInv'
<1>1. HeldRunApart'
  BY DEF ApartInv, HeldRunApart, HeldInTurn
<1>2. DequeueRunsAlone'
  <2>1. turn' = {} => HeldInTurn' = {}  BY DEF HeldInTurn
  <2>. QED  BY <2>1 DEF ApartInv, DequeueRunsAlone
<1>. QED  BY <1>1, <1>2 DEF ApartInv

\* A hand-over brings at most its own trigger into the turn.
LEMMA HandOverApart ==
    ASSUME TypeInv, ApartInv, NEW c \in Calls, HandOver(c),
           \A b \in Calls : b # c => call'[b] = call[b]
    PROVE  ParkedIsHeld' /\ HeldInTurn' \subseteq HeldInTurn \union {c}
  BY DEF ApartInv, ParkedIsHeld, HandOver, Started, HeldInTurn, TypeInv

\* Every step keeps it.
LEMMA ApartStep ==
    ASSUME TypeInv, TypeInv', OnceInv, OnceInv', ApartInv, [Next]_vars
    PROVE  ApartInv'
<1> USE DelegationAssumption
<1>1. ASSUME DriverHears \/ DriverWakes \/ PassSnapshots \/ PassEnds PROVE ApartInv'
  <2>1. UNCHANGED <<call, turn, inbox, parked>>
    BY <1>1 DEF DriverHears, DriverWakes, PassSnapshots, PassEnds, agentVars,
       observers
  <2>2. \A k \in Keys : ~Dequeues(k)'
    <3>1. driver'.at \in {"rest", "pass", "status"}
      <4>1. CASE DriverHears \/ DriverWakes
        BY <4>1 DEF DriverHears, DriverWakes, TypeInv, DriverStates
      <4>2. CASE PassSnapshots \/ PassEnds
        <5>1. \/ driver' = Resting
              \/ driver' = [driver EXCEPT !.at = "status", !.snap = table]
          BY <4>2 DEF PassSnapshots, PassEnds
        <5>2. Resting.at = "rest"  BY DEF Resting
        <5>3. [driver EXCEPT !.at = "status", !.snap = table].at = "status"
          BY DEF TypeInv, DriverStates
        <5>. QED  BY <5>1, <5>2, <5>3
      <4>. QED  BY <1>1, <4>1, <4>2
    <3>. QED  BY <3>1 DEF Dequeues
  <2>. QED  BY <2>1, <2>2, ApartQuiet DEF ApartInv, ParkedIsHeld, HeldInTurn
<1>4. ASSUME PassReadsStatus PROVE ApartInv'
  <2>1. UNCHANGED <<call, turn, inbox, parked>>
    BY <1>4 DEF PassReadsStatus, agentVars, observers
  <2>2. (\A k \in Keys : ~Dequeues(k)') \/ turn' = {}
    BY <1>4, <2>1 DEF PassReadsStatus, Dequeues, TypeInv, DriverStates
  <2>. QED  BY <2>1, <2>2, ApartQuiet DEF ApartInv, ParkedIsHeld, HeldInTurn
<1>5. ASSUME NEW late, PassPlans(late) PROVE ApartInv'
  <2>1. UNCHANGED <<call, turn, inbox, parked>>
    BY <1>5 DEF PassPlans, agentVars, observers
  <2>2. PICK shown : driver' = [driver EXCEPT !.at = "apply", !.status = "idle",
                       !.snap = [k \in Keys |-> [None EXCEPT !.id = driver.snap[k].id]],
                       !.todo = OneDequeue([k \in Keys |->
                          DelegationStep(driver.snap[k], driver.status,
                                         k \in shown, k \in late)])]
    BY <1>5 DEF PassPlans
  <2>3. ASSUME NEW k \in Keys, Dequeues(k)' PROVE Dequeues(k)
    <3> DEFINE plan == [j \in Keys |-> DelegationStep(driver.snap[j], driver.status,
                                                     j \in shown, j \in late)]
    <3>1. driver'.todo = OneDequeue(plan) /\ driver'.at = "apply"
      BY <2>2 DEF TypeInv, DriverStates
    <3>2. plan[k] = DelegationStep(driver.snap[k], driver.status, k \in shown, k \in late)
      OBVIOUS
    <3> HIDE DEF plan
    <3>3. plan[k] = "dequeue"
      BY <2>3, <3>1, OneDequeuePerPass DEF Dequeues
    <3>4. driver.status = "idle"  BY <3>2, <3>3, DequeueIsOfIdle
    <3>. QED  BY <1>5, <3>4 DEF PassPlans, Dequeues
  <2>. QED  BY <2>1, <2>3, ApartQuiet DEF ApartInv, ParkedIsHeld, HeldInTurn
<1>7. ASSUME PassFinishes \/ PassMarks \/ PassTakes PROVE ApartInv'
  <2>1. UNCHANGED <<call, turn, inbox, parked>> /\ driver.at = "apply"
    BY <1>7 DEF PassFinishes, PassMarks, PassTakes, agentVars, observers
  <2>2. NextPlanned \in Keys
    BY <1>7, NextPlannedIsPlanned DEF PassFinishes, PassMarks, PassTakes
  <2>3. \A k \in Keys : Dequeues(k)' => Dequeues(k)
    <3>1. CASE driver' = Applied(NextPlanned)
      BY <2>1, <2>2, <3>1 DEF Applied, Dequeues, TypeInv, DriverStates
    <3>2. CASE /\ driver.todo[NextPlanned] = "dequeue"
               /\ driver'.at = "deliver" /\ driver'.key = NextPlanned
      BY <2>1, <3>2 DEF Dequeues
    <3>3. \/ driver' = Applied(NextPlanned)
          \/ /\ driver.todo[NextPlanned] = "dequeue"
             /\ driver' = [Applied(NextPlanned) EXCEPT !.at = "deliver", !.key = NextPlanned,
                              !.snap[NextPlanned].id = table[NextPlanned].id]
      BY <1>7 DEF PassFinishes, PassMarks, PassTakes
    <3>4. Applied(NextPlanned) \in DriverStates
      BY <2>2 DEF Applied, TypeInv, DriverStates, Steps
    <3>. QED  BY <3>1, <3>2, <3>3, <3>4 DEF DriverStates
  <2>. QED  BY <2>1, <2>3, ApartQuiet DEF ApartInv, ParkedIsHeld, HeldInTurn
<1>10. ASSUME PassDelivers PROVE ApartInv'
  <2> DEFINE c == driver.snap[driver.key].id
  <2>1. driver.key \in Keys /\ c \in Calls /\ Dequeues(driver.key)
    BY <1>10 DEF PassDelivers, TypeInv, Dequeues
  <2>2. HeldInTurn = {}  BY <2>1 DEF ApartInv, DequeueRunsAlone
  <2>3. UNCHANGED call /\ \A k \in Keys : ~Dequeues(k)'
    BY <1>10 DEF PassDelivers, TypeInv, DriverStates, OnceInv, OneDequeuePlanned,
       Dequeues
  <2>4. HandOver(c) \/ HandOverFails  BY <1>10 DEF PassDelivers
  <2>5. ParkedIsHeld' /\ HeldInTurn' \subseteq {c}
    <3>1. CASE HandOver(c)  BY <2>1, <2>2, <2>3, <3>1, HandOverApart
    <3>2. CASE HandOverFails
      BY <2>2, <2>3, <3>2 DEF HandOverFails, ApartInv, ParkedIsHeld, HeldInTurn
    <3>. QED  BY <2>4, <3>1, <3>2
  <2>. QED  BY <2>3, <2>5 DEF ApartInv, DequeueRunsAlone, HeldRunApart, HeldInTurn
<1>11. ASSUME NEW c \in Calls, DelegateReadsStatus(c) \/ DelegateRecords(c) PROVE ApartInv'
  <2>1. UNCHANGED <<driver, turn, inbox, parked>>
    BY <1>11 DEF DelegateReadsStatus, DelegateRecords, agentVars, observers
  <2>2. Unrecorded(c) /\ \A b \in Calls \ {c} : call'[b] = call[b]
    BY <1>11 DEF DelegateReadsStatus, DelegateRecords, TypeInv, Unrecorded
  <2>3. c \notin turn  BY <2>2 DEF OnceInv, IdsAreRecorded, Unrecorded
  <2>4. HeldInTurn' \subseteq HeldInTurn  BY <2>1, <2>2, <2>3 DEF HeldInTurn
  <2>. QED  BY <2>1, <2>4, ApartQuiet DEF ApartInv, ParkedIsHeld, Dequeues
<1>13. ASSUME NEW c \in Calls, DelegateSends(c) PROVE ApartInv'
  <2>1. /\ UNCHANGED driver /\ ~call'[c].queued
        /\ \A b \in Calls \ {c} : call'[b] = call[b]
    <3>1. call[c].at = "sending" /\ call' = [call EXCEPT ![c] = Done(c)] /\ UNCHANGED driver
      BY <1>13 DEF DelegateSends
    <3>2. ~call[c].queued  BY <3>1 DEF OnceInv, UnsentBefore
    <3>. QED  BY <3>1, <3>2, CallType DEF TypeInv
  <2>2. ParkedIsHeld' /\ HeldInTurn' \subseteq HeldInTurn \union {c}
    <3>1. CASE HandOver(c)  BY <2>1, <3>1, HandOverApart
    <3>2. CASE HandOverFails
      BY <2>1, <3>2 DEF HandOverFails, ApartInv, ParkedIsHeld, HeldInTurn
    <3>. QED  BY <1>13, <3>1, <3>2 DEF DelegateSends
  <2>3. c \notin HeldInTurn'  BY <2>1 DEF HeldInTurn
  <2>. QED  BY <2>1, <2>2, <2>3, ApartQuiet DEF Dequeues
<1>14. ASSUME UserStartsTurn \/ HeldTurnStarts PROVE ApartInv'
  <2>1. /\ UNCHANGED <<driver, call, parked>> /\ inbox' = {}
        /\ turn' \subseteq inbox \union {0}
    BY <1>14 DEF UserStartsTurn, HeldTurnStarts, Started
  <2>2. HeldInTurn' = {}
    BY <2>1 DEF HeldInTurn, ApartInv, ParkedIsHeld
  <2>. QED  BY <2>1, <2>2, ApartQuiet DEF ParkedIsHeld, Dequeues
<1>17. ASSUME TurnEnds PROVE ApartInv'
  <2>1. UNCHANGED <<call, inbox, parked>> /\ turn' = {}
    BY <1>17 DEF TurnEnds
  <2>. QED  BY <2>1, ApartQuiet DEF ApartInv, ParkedIsHeld, HeldInTurn
<1>18. ASSUME AgentGoes \/ AgentRevives \/ AgentRunsOp PROVE ApartInv'
  <2>1. UNCHANGED <<driver, call, turn, parked>> /\ inbox' \subseteq inbox
    BY <1>18 DEF AgentGoes, AgentRevives, AgentRunsOp, agentVars, observers
  <2>. QED  BY <2>1, ApartQuiet DEF ApartInv, ParkedIsHeld, HeldInTurn, Dequeues
<1>20. ASSUME (\E k \in Keys : ReviewClaims(k) \/ ReviewEnds(k)) \/ UNCHANGED vars
       PROVE ApartInv'
  <2>1. UNCHANGED <<driver, call, turn, parked, inbox>>
    BY <1>20 DEF ReviewClaims, ReviewEnds, vars, agentVars, observers
  <2>. QED  BY <2>1, ApartQuiet DEF ApartInv, ParkedIsHeld, HeldInTurn, Dequeues
<1>. QED
  BY <1>1, <1>4, <1>5, <1>7, <1>10, <1>11, <1>13, <1>14, <1>17, <1>18, <1>20
     DEF Next, DriverStep, CallStep

-----------------------------------------------------------------------------
(* The theorems                                                            *)

\* The inductive invariant holds in every reachable state.
THEOREM DelegationInductive == Spec => []IInv
<1>1. Init => IInv  BY TypeInit, OnceInit, ApartInit DEF IInv
<1>2. IInv /\ [Next]_vars => IInv'
  BY TypeStep, OnceStep, ApartStep DEF IInv
<1>. QED  BY <1>1, <1>2, PTL DEF Spec

\* The table, the agent's status and its messages are always of their types.
THEOREM DelegationTyped == Spec => []TypeOK
<1>1. IInv => TypeOK
  BY DEF IInv, TypeInv, TypeOK, EntryOK, Entries, Statuses
<1>. QED  BY <1>1, DelegationInductive, PTL

\* The trigger of a delegation is handed to the agent at most once, by its call
\* or by a pass of the driver, and never while the turn it was held behind runs.
THEOREM TriggerSentOnce == Spec => []SentOnce
<1>1. IInv => SentOnce
  BY DEF IInv, TypeInv, OnceInv, SentAtMostOnce, SentOnce
<1>. QED  BY <1>1, DelegationInductive, PTL

\* Two held triggers never share a turn, unless the agent could not take the
\* first at once.
THEOREM HeldTriggersApart == Spec => []HeldRunApart
<1>1. IInv => HeldRunApart  BY DEF IInv, ApartInv
<1>. QED  BY <1>1, DelegationInductive, PTL

\* A step of a pass that empties a checkout's entry empties the one the pass
\* had looked at.
LEMMA PassEndsItsOwn ==
    ASSUME IInv, [Next]_vars
    PROVE  [\A k \in Keys :
              driver' # driver /\ IsLive(k) /\ table'[k] = None =>
                 table[k].id = driver.snap[k].id]_vars
<1> SUFFICES ASSUME NEW k \in Keys, driver' # driver, IsLive(k), table'[k] = None
             PROVE  table[k].id = driver.snap[k].id
  OBVIOUS
<1>1. table'[k].id = 0 /\ table[k] \in Entries /\ table[k].id # 0
  BY NoneType DEF IsLive, IInv, TypeInv
<1>2. ASSUME NEW j \in Keys, Finish(j, driver.snap[j].id)
      PROVE  table[k].id = driver.snap[k].id
  BY <1>1, <1>2 DEF Finish, MayFinish, Holds, IInv, TypeInv
<1>3. ASSUME DriverHears PROVE FALSE
  BY <1>1, <1>3, EntryType DEF DriverHears, IInv, TypeInv
<1>4. ASSUME PassMarks \/ PassTakes PROVE FALSE
  <2>1. NextPlanned \in Keys
    BY <1>4, NextPlannedIsPlanned DEF PassMarks, PassTakes
  <2>2. /\ Marked(table[NextPlanned]).id = table[NextPlanned].id
        /\ Taken(table[NextPlanned]).id = table[NextPlanned].id
    BY <2>1, EntryType DEF IInv, TypeInv
  <2>. QED  BY <1>1, <1>4, <2>1, <2>2 DEF PassMarks, PassTakes, IInv, TypeInv
<1>5. CASE PassFinishes
  BY <1>2, <1>5, NextPlannedIsPlanned DEF PassFinishes
<1>6. CASE PassDelivers
  BY <1>1, <1>2, <1>6 DEF PassDelivers, IInv, TypeInv
<1>7. CASE UNCHANGED table  BY <1>1, <1>7
<1>8. \/ DriverHears \/ PassMarks \/ PassTakes \/ PassFinishes \/ PassDelivers
      \/ UNCHANGED table
  BY DEF Next, DriverStep, CallStep, vars, DriverWakes, PassSnapshots,
     PassReadsStatus, PassPlans, PassEnds, DelegateReadsStatus, DelegateRecords,
     DelegateSends, UserStartsTurn, AgentRevives, HeldTurnStarts, TurnEnds,
     AgentGoes, AgentRunsOp, ReviewClaims, ReviewEnds
<1>. QED  BY <1>3, <1>4, <1>5, <1>6, <1>7, <1>8

\* A pass never ends a delegation recorded while it was under way.
THEOREM RecordedSurvivesPass == Spec => NewSurvivesPass
<1>1. IInv /\ [Next]_vars =>
        [\A k \in Keys :
            driver' # driver /\ IsLive(k) /\ table'[k] = None =>
               table[k].id = driver.snap[k].id]_vars
  BY PassEndsItsOwn
<1>. QED  BY <1>1, DelegationInductive, PTL DEF Spec, NewSurvivesPass
=============================================================================
