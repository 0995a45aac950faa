---------------------------- MODULE RoadmapProofs ----------------------------
(***************************************************************************)
(* Theorems about Roadmap for every finite board, every cap and every      *)
(* number of runs and of commands.                                         *)
(***************************************************************************)
EXTENDS Roadmap, TLAPS, FiniteSetTheorems, SequenceTheorems

(***************************************************************************)
(* The types of the tasks and of the runs.                                 *)
(***************************************************************************)
PrStates == {"none", "unnumbered", "open", "merged", "closed"}

RunRows == [item : Items \union {0}, state : {"none", "live", "done", "failed"},
            pr : PrStates, row : BOOLEAN]

Settlements == [item : Items,
                outcome : {"running", "in_review", "done", "released"},
                adopted : Runs \union {0}, pr : Runs \union {0}]

Drainers == [at : {"idle", "settle", "claim", "launch", "stamp"},
             todo : SUBSET Settlements, left : 0..Cap,
             item : Items \union {0}, run : Runs \union {0}]

Sweeps == [at : {"resting", "asleep", "polling", "verdict"},
           todo : SUBSET (Items \X Runs), item : Items \union {0},
           verdict : PrStates]

\* Of the drainer and the sweep: what a state of theirs is about is there.
TasksOK ==
    /\ drainer.at = "settle" => drainer.todo # {}
    /\ drainer.at \in {"launch", "stamp"} => drainer.item \in Items /\ drainer.left > 0
    /\ drainer.at = "stamp" => drainer.run \in Runs
    /\ sweep.at = "verdict" => sweep.item \in Items

TypeInv ==
    /\ item \in [Items -> Row]
    /\ order \in Seq(Items) /\ ToSet(order) = Items
    /\ Len(order) = Cardinality(Items)
    /\ projectHeld \in BOOLEAN /\ wake \in BOOLEAN
    /\ unrunnable \subseteq Items /\ deaf \subseteq Items
    /\ merging \subseteq Runs /\ ruledDone \subseteq Items
    /\ run \in [Runs -> RunRows]
    /\ drainer \in Drainers /\ sweep \in Sweeps
    /\ TasksOK

(***************************************************************************)
(* Runs and rows.  A live run has its row, and is the only one of its      *)
(* item; a row in the queue names no run, one in review names a run that   *)
(* is done.                                                                *)
(***************************************************************************)
LiveOf(i) == {r \in Live : run[r].item = i}

RunsOK ==
    /\ \A r \in Live : run[r].item \in Items /\ run[r].row
    /\ \A q, r \in Live : run[q].item = run[r].item => q = r

RowsOK ==
    /\ \A i \in Items : item[i].status \in {"proposed", "open", "queued", "rejected"}
                            => item[i].run = 0
    /\ \A i \in Items : item[i].status = "in_review" =>
          item[i].run # 0 /\ item[i].pr \in {0, item[i].run}
             /\ run[item[i].run].state = "done"

(***************************************************************************)
(* What the drainer has decided stays true until it acts upon it.  A       *)
(* claimed row has no run yet; a settlement was decided about an active    *)
(* row, and holds for the run the row names or is to adopt.                *)
(***************************************************************************)
Pending(i) == item[i].status \in {"active", "deleted"}

ClaimOK ==
    /\ drainer.at \in {"launch", "stamp"} =>
          Pending(drainer.item) /\ item[drainer.item].run = 0
    /\ drainer.at = "launch" => LiveOf(drainer.item) = {}
    /\ drainer.at = "stamp" => LiveOf(drainer.item) \subseteq {drainer.run}

SettlementOK(s) ==
    /\ Pending(s.item)
    /\ s.outcome = "running" => s.adopted # 0 /\ LiveOf(s.item) \subseteq {s.adopted}
    /\ s.outcome # "running" => LiveOf(s.item) = {}
    /\ s.outcome \in {"done", "in_review"} =>
          /\ item[s.item].run # 0 /\ run[item[s.item].run].state = "done"
          /\ s.pr \in {0, item[s.item].run}
          /\ s.outcome = "done" => run[item[s.item].run].pr = "none"

SettlingOK ==
    drainer.at = "settle" =>
       /\ \A s \in drainer.todo : SettlementOK(s)
       /\ \A s, t \in drainer.todo : s.item = t.item => s = t

(***************************************************************************)
(* What the sweep has read stays true until it writes its verdict: nobody  *)
(* else takes a row out of review but to done or off the board.            *)
(***************************************************************************)
Watched(i, r) ==
    \/ item[i].status \in {"done", "deleted"}
    \/ item[i].status = "in_review" /\ item[i].pr = r

SweepOK ==
    /\ sweep.at \in {"polling", "verdict"} =>
          \A w \in sweep.todo : Watched(w[1], w[2])
    /\ sweep.at = "verdict" =>
          /\ \A w \in sweep.todo : w[1] # sweep.item
          /\ \/ item[sweep.item].status \in {"done", "deleted"}
             \/ /\ item[sweep.item].status = "in_review"
                /\ sweep.verdict = "merged" =>
                      run[item[sweep.item].run].pr = "merged"

DoneOK == \A i \in Items : item[i].status = "done" => HasLanded(i)

CapOK == CapHolds /\ (drainer.at = "launch" => Cardinality(Live) < Cap)

BoardInv ==
    /\ LiveRunIsWatched /\ RunsOK /\ RowsOK /\ ClaimOK /\ SettlingOK /\ SweepOK
    /\ DoneOK

-----------------------------------------------------------------------------
(* Lemmas about the operators                                              *)

\* A nonempty set of natural numbers has a least element.
LEMMA LeastNatural ==
    ASSUME NEW S, S \subseteq Nat, S # {}
    PROVE  \E x \in S : \A y \in S : x <= y
<1> DEFINE Less == {p \in Nat \X Nat : p[1] < p[2]}
<1>1. IsWellFoundedOn(Less, Nat)
  BY NatLessThanWellFounded DEF OpToRel
<1>2. PICK x \in S : \A y \in S : ~(<<y, x>> \in Less)
  <2> HIDE DEF Less
  <2>. QED  BY <1>1, WFMin
<1>3. \A y \in S : ~(y < x)
  BY <1>2
<1>. QED  BY <1>3

\* The newest of some runs is one of them.
LEMMA NewestRun ==
    ASSUME NEW S, S \subseteq Runs, S # {}
    PROVE  Max(S) \in S
<1> DEFINE D == {MaxRuns - r : r \in S}
<1>1. MaxRuns \in Nat  BY RoadmapAssumption
<1>2. D \subseteq Nat /\ D # {}
  <2>1. \A r \in S : r \in 1..MaxRuns  BY DEF Runs
  <2>2. \A r \in S : MaxRuns - r \in Nat  BY <1>1, <2>1
  <2>. QED  BY <2>2
<1>3. PICK x \in D : \A y \in D : x <= y  BY <1>2, LeastNatural
<1>4. PICK r \in S : x = MaxRuns - r  BY <1>3
<1>5. \A q \in S : r >= q
  <2> TAKE q \in S
  <2>1. MaxRuns - q \in D  OBVIOUS
  <2>2. x <= MaxRuns - q  BY <1>3, <2>1
  <2>3. r \in Int /\ q \in Int  BY DEF Runs
  <2>. QED  BY <1>1, <1>4, <2>2, <2>3
<1>. QED  BY <1>5 DEF Max

\* The row settled next is one of those left to settle: every row has a rank.
LEMMA FirstIsOfTodo ==
    ASSUME NEW todo \in SUBSET Settlements, todo # {},
           order \in Seq(Items), ToSet(order) = Items
    PROVE  First(todo) \in todo
<1> DEFINE P == {a \in DOMAIN order : \E s \in todo : order[a] = s.item}
<1>1. \A s \in todo : \E a \in DOMAIN order : order[a] = s.item
  BY DEF ToSet, Settlements
<1>2. DOMAIN order \subseteq Nat  OBVIOUS
<1>3. P \subseteq Nat /\ P # {}  BY <1>1, <1>2
<1>4. PICK a \in P : \A b \in P : a <= b  BY <1>3, LeastNatural
<1>5. PICK s \in todo : order[a] = s.item  BY <1>4
<1>6. ASSUME NEW t \in todo
      PROVE  \E x, y \in DOMAIN order : order[x] = s.item /\ order[y] = t.item /\ x <= y
  <2>1. PICK b \in DOMAIN order : order[b] = t.item  BY <1>1, <1>6
  <2>2. b \in P  BY <2>1, <1>6
  <2>. QED  BY <1>4, <1>5, <2>1, <2>2
<1>. QED  BY <1>6 DEF First

\* Moving a row to another rank keeps every row on the board.
LEMMA MoveKeepsRows ==
    ASSUME order \in Seq(Items), ToSet(order) = Items,
           NEW i \in Items, NEW q \in DOMAIN order, NEW p \in DOMAIN order,
           order[q] = i
    PROVE  LET new == InsertAt(RemoveAt(order, q), p, i)
           IN  new \in Seq(Items) /\ ToSet(new) = Items /\ Len(new) = Len(order)
<1> DEFINE n == Len(order)
           head == SubSeq(order, 1, q - 1)
           tail == SubSeq(order, q + 1, n)
           cut == RemoveAt(order, q)
           new == InsertAt(cut, p, i)
<1>0. /\ n \in Nat /\ p \in 1..n /\ q \in 1..n /\ n \in Int /\ p \in Int /\ q \in Int
      /\ \A k \in 1..n : order[k] \in Items
  BY LenProperties
<1>1. /\ cut \in Seq(Items) /\ Len(cut) = n - 1
      /\ \A k \in 1..n-1 : cut[k] = IF k < q THEN order[k] ELSE order[k + 1]
  <2>1. /\ head \in Seq(Items) /\ Len(head) = q - 1
        /\ \A k \in 1..q-1 : head[k] = order[k]
    BY <1>0, SubSeqProperties
  <2>2. /\ tail \in Seq(Items) /\ Len(tail) = n - q
        /\ \A k \in 1..n-q : tail[k] = order[q + k]
    BY <1>0, SubSeqProperties
  <2>3. cut = head \o tail  BY DEF RemoveAt
  <2> HIDE DEF head, tail, cut
  <2>4. /\ cut \in Seq(Items) /\ Len(cut) = n - 1
        /\ \A k \in 1..n-1 : cut[k] = IF k <= q - 1 THEN head[k] ELSE tail[k - (q - 1)]
    <3>1. Len(head) + Len(tail) = n - 1  BY <1>0, <2>1, <2>2
    <3>2. /\ cut \in Seq(Items) /\ Len(cut) = Len(head) + Len(tail)
          /\ \A k \in 1..Len(head) + Len(tail) :
                cut[k] = IF k <= Len(head) THEN head[k] ELSE tail[k - Len(head)]
      BY <2>1, <2>2, <2>3, ConcatProperties
    <3>. QED  BY <2>1, <3>1, <3>2
  <2>5. ASSUME NEW k \in 1..n-1
        PROVE  cut[k] = IF k < q THEN order[k] ELSE order[k + 1]
    <3>1. CASE k < q  BY <1>0, <2>1, <2>4, <3>1
    <3>2. CASE k >= q
      <4>1. k - (q - 1) \in 1..n-q /\ q + (k - (q - 1)) = k + 1 /\ ~(k <= q - 1)
        BY <1>0, <3>2
      <4>2. tail[k - (q - 1)] = order[k + 1]  BY <2>2, <4>1
      <4>. QED  BY <1>0, <2>4, <3>2, <4>1, <4>2
    <3>. QED  BY <1>0, <3>1, <3>2
  <2>. QED  BY <2>4, <2>5
<1> HIDE DEF cut
<1>2. /\ new \in Seq(Items) /\ Len(new) = n
      /\ \A k \in 1..n : new[k] = IF k < p THEN cut[k] ELSE IF k = p THEN i ELSE cut[k - 1]
  <2> DEFINE front == SubSeq(cut, 1, p - 1)
             back == SubSeq(cut, p, Len(cut))
             mid == front \o <<i>>
  <2>0. \A k \in 1..n-1 : cut[k] \in Items  BY <1>1, ElementOfSeq
  <2>1. /\ front \in Seq(Items) /\ Len(front) = p - 1
        /\ \A k \in 1..p-1 : front[k] = cut[k]
    BY <1>0, <1>1, <2>0, SubSeqProperties
  <2>2. /\ back \in Seq(Items) /\ Len(back) = n - p
        /\ \A k \in 1..n-p : back[k] = cut[p + k - 1]
    BY <1>0, <1>1, <2>0, SubSeqProperties
  <2>3. new = mid \o back  BY DEF InsertAt
  <2> HIDE DEF front, back, new
  <2>4. <<i>> \in Seq(Items) /\ Len(<<i>>) = 1 /\ <<i>>[1] = i  OBVIOUS
  <2>5. /\ mid \in Seq(Items) /\ Len(mid) = p
        /\ \A k \in 1..p : mid[k] = IF k <= p - 1 THEN front[k] ELSE <<i>>[k - (p - 1)]
    BY <1>0, <2>1, <2>4, ConcatProperties
  <2>6. mid[p] = i
    <3>1. p \in 1..p /\ ~(p <= p - 1) /\ p - (p - 1) = 1  BY <1>0
    <3>2. mid[p] = <<i>>[p - (p - 1)]  BY <2>5, <3>1
    <3>. QED  BY <2>4, <3>1, <3>2
  <2> HIDE DEF mid
  <2>7. /\ new \in Seq(Items) /\ Len(new) = n
        /\ \A k \in 1..n : new[k] = IF k <= p THEN mid[k] ELSE back[k - p]
    <3>1. mid \in Seq(Items) /\ Len(mid) = p /\ back \in Seq(Items) /\ Len(back) = n - p
      BY <2>2, <2>5
    <3>2. p + (n - p) = n  BY <1>0
    <3>3. Len(mid) + Len(back) = n  BY <3>1, <3>2
    <3>4. /\ mid \o back \in Seq(Items) /\ Len(mid \o back) = n
          /\ \A k \in 1..n :
                (mid \o back)[k] = IF k <= Len(mid) THEN mid[k] ELSE back[k - Len(mid)]
      <4>1. mid \in Seq(Items) /\ back \in Seq(Items)  BY <3>1
      <4>. QED  BY <3>3, <4>1, ConcatProperties
    <3>. QED  BY <2>3, <3>1, <3>4
  <2>8. ASSUME NEW k \in 1..n
        PROVE  new[k] = IF k < p THEN cut[k] ELSE IF k = p THEN i ELSE cut[k - 1]
    <3>1. CASE k < p
      <4>1. k \in 1..p /\ k \in 1..p-1 /\ k <= p - 1 /\ k <= p  BY <1>0, <3>1
      <4>2. new[k] = mid[k] /\ mid[k] = front[k] /\ front[k] = cut[k]
        BY <2>1, <2>5, <2>7, <4>1
      <4>. QED  BY <3>1, <4>2
    <3>2. CASE k = p  BY <1>0, <2>6, <2>7, <3>2
    <3>3. CASE k > p
      <4>1. k - p \in 1..n-p /\ p + (k - p) - 1 = k - 1  BY <1>0, <3>3
      <4>2. back[k - p] = cut[p + (k - p) - 1]  BY <2>2, <4>1
      <4>. QED  BY <1>0, <2>7, <3>3, <4>1, <4>2
    <3>. QED  BY <1>0, <3>1, <3>2, <3>3
  <2>. QED  BY <2>7, <2>8
<1> HIDE DEF new
<1>3. ASSUME NEW x \in Items PROVE \E k \in 1..n : new[k] = x
  <2>1. PICK m \in 1..n : order[m] = x  BY DEF ToSet
  <2>2. CASE x = i  BY <1>0, <1>2, <2>2
  <2>3. CASE x # i
    <3>1. m # q  BY <2>1, <2>3
    <3>2. PICK k \in 1..n-1 : cut[k] = x
      <4>1. CASE m < q  BY <1>0, <1>1, <2>1, <4>1
      <4>2. CASE m > q
        <5>1. m - 1 \in 1..n-1 /\ ~(m - 1 < q) /\ (m - 1) + 1 = m  BY <1>0, <4>2
        <5>2. cut[m - 1] = order[(m - 1) + 1]  BY <1>1, <5>1
        <5>. QED  BY <2>1, <5>1, <5>2
      <4>. QED  BY <1>0, <3>1, <4>1, <4>2
    <3>3. CASE k < p  BY <1>0, <1>2, <3>2, <3>3
    <3>4. CASE k >= p
      <4>1. k + 1 \in 1..n /\ ~(k + 1 < p) /\ k + 1 # p /\ (k + 1) - 1 = k
        BY <1>0, <3>4
      <4>. QED  BY <1>2, <3>2, <4>1
    <3>. QED  BY <1>0, <3>3, <3>4
  <2>. QED  BY <2>2, <2>3
<1>4. ToSet(new) = Items
  <2>1. DOMAIN new = 1..n /\ \A k \in 1..n : new[k] \in Items
    BY <1>2, LenProperties, ElementOfSeq
  <2>. QED  BY <1>3, <2>1 DEF ToSet
<1>. QED  BY <1>2, <1>4 DEF new, cut

-----------------------------------------------------------------------------
(* The dependency graph                                                    *)

Graphs == [Items -> SUBSET Items]

\* Rows that wait on one another.
Loop(graph, s) == s # {} /\ \A i \in s : graph[i] \intersect s # {}

LoopFree(graph) == \A s \in SUBSET Items : ~Loop(graph, s)

\* The walk of find_cycle visits its start and what any visited row waits on.
LEMMA ReachIsClosed ==
    ASSUME NEW graph \in Graphs, NEW start \in Items
    PROVE  /\ Reach(graph, start) \subseteq Items /\ start \in Reach(graph, start)
           /\ \A i \in Reach(graph, start) : graph[i] \subseteq Reach(graph, start)
<1> DEFINE Closed(t) == start \in t /\ \A i \in t : graph[i] \subseteq t
           R == {x \in Items : \A t \in SUBSET Items : Closed(t) => x \in t}
           Least(s) == Closed(s) /\ \A t \in SUBSET s : Closed(t) => t = s
<1>1. R \in SUBSET Items /\ Closed(R)
  BY DEF Graphs
<1>2. \A t \in SUBSET R : Closed(t) => t = R
  OBVIOUS
<1>3. \E s \in SUBSET Items : Least(s)
  BY <1>1, <1>2
<1>4. Reach(graph, start) = CHOOSE s \in SUBSET Items : Least(s)
  BY DEF Reach
<1> HIDE DEF Least
<1>5. Reach(graph, start) \in SUBSET Items /\ Least(Reach(graph, start))
  BY <1>3, <1>4
<1>. QED  BY <1>5 DEF Least

\* A loop is found from each of its rows.
LEMMA LoopIsFound ==
    ASSUME NEW graph \in Graphs, NEW s \in SUBSET Items, Loop(graph, s), NEW i \in s
    PROVE  FindCycle(graph, i)
<1> DEFINE t == s \intersect Reach(graph, i)
<1>1. /\ Reach(graph, i) \subseteq Items /\ i \in Reach(graph, i)
      /\ \A j \in Reach(graph, i) : graph[j] \subseteq Reach(graph, i)
  BY ReachIsClosed
<1>2. t \in (SUBSET Reach(graph, i)) \ {{}}  BY <1>1
<1>3. \A j \in t : graph[j] \intersect t # {}  BY <1>1 DEF Loop
<1>. QED  BY <1>2, <1>3 DEF FindCycle

\* What find_cycle finds from a row is a loop.
LEMMA FoundIsLoop ==
    ASSUME NEW graph \in Graphs, NEW i \in Items, FindCycle(graph, i)
    PROVE  ~LoopFree(graph)
<1>1. Reach(graph, i) \subseteq Items  BY ReachIsClosed
<1>. QED  BY <1>1 DEF FindCycle, LoopFree, Loop

\* find_cycle finds nothing from any row exactly when there is no loop.
LEMMA NoLoopIsLoopFree ==
    ASSUME TypeInv
    PROVE  Deps(item) \in Graphs /\ (NoLoop <=> LoopFree(Deps(item)))
<1>1. Deps(item) \in Graphs  BY DEF TypeInv, Row, Deps, Graphs
<1>2. LoopFree(Deps(item)) => NoLoop
  BY <1>1, FoundIsLoop DEF NoLoop
<1>3. NoLoop => LoopFree(Deps(item))
  <2> SUFFICES ASSUME NoLoop, NEW s \in SUBSET Items, Loop(Deps(item), s)
               PROVE  FALSE
    BY DEF LoopFree
  <2>1. PICK i \in s : TRUE  BY DEF Loop
  <2>. QED  BY <1>1, <2>1, LoopIsFound DEF NoLoop
<1>. QED  BY <1>1, <1>2, <1>3

\* It is enough to look from the row that was edited: without the edit there
\* was no loop, so a new one passes through it.
LEMMA EditFromRowSuffices ==
    ASSUME NEW graph \in Graphs, NEW i \in Items, NEW new \in SUBSET Items,
           LoopFree(graph), ~FindCycle([graph EXCEPT ![i] = new], i)
    PROVE  LoopFree([graph EXCEPT ![i] = new])
<1> DEFINE g == [graph EXCEPT ![i] = new]
<1> SUFFICES ASSUME NEW s \in SUBSET Items, Loop(g, s) PROVE FALSE
  BY DEF LoopFree
<1>1. g \in Graphs  BY DEF Graphs
<1>2. CASE i \in s
  <2> HIDE DEF g
  <2>. QED  BY <1>1, <1>2, LoopIsFound DEF g
<1>3. CASE i \notin s
  <2>1. \A j \in s : g[j] = graph[j]  BY <1>3 DEF Graphs
  <2>. QED  BY <2>1 DEF Loop, LoopFree
<1>. QED  BY <1>2, <1>3

\* Dropping edges closes no loop.
LEMMA FewerEdges ==
    ASSUME NEW g \in Graphs, NEW h \in Graphs, \A i \in Items : h[i] \subseteq g[i],
           LoopFree(g)
    PROVE  LoopFree(h)
  BY DEF LoopFree, Loop

-----------------------------------------------------------------------------
(* What the steps do to a row                                              *)

Unclaimed == {"proposed", "open", "queued", "rejected"}

\* A user's edit of the row i: it keeps the run and the pull request; it edits
\* what the queue has not claimed, deletes, or rules a row in review done.
UserEdit(i) ==
    /\ item' = [item EXCEPT ![i] = item'[i]] /\ item'[i] \in Row /\ deaf' = deaf \ {i}
    /\ item'[i].run = item[i].run /\ item'[i].pr = item[i].pr
    /\ \/ item'[i].status = item[i].status
       \/ item'[i].status = "deleted"
       \/ item[i].status \in Unclaimed /\ item'[i].status \in Unclaimed
       \/ item[i].status = "in_review" /\ item'[i].status = "done" /\ i \in ruledDone'
    /\ ruledDone' \in {ruledDone, ruledDone \union {i}}
    /\ UNCHANGED <<order, projectHeld, unrunnable, run, drainer, sweep, wake, merging>>

UserWritesRow(i) ==
    \/ \E b \in BOOLEAN : Accept(i, b) \/ HandOff(i, b) \/ Hold(i, b)
    \/ Queue(i) \/ Unqueue(i) \/ MarkDone(i)
    \/ \E new \in SUBSET Items : EditDeps(i, new)
    \/ Reject(i) \/ Reopen(i) \/ Delete(i)

\* Every command that writes a row is such an edit.
LEMMA UserEdits ==
    ASSUME TypeInv, NEW i \in Items, UserWritesRow(i)
    PROVE  UserEdit(i)
<1> DEFINE d == item[i]
<1>1. d \in Row /\ item \in [Items -> Row]  BY DEF TypeInv
<1>2. ASSUME NEW row \in Row, UserWrites(i, row)
      PROVE  /\ item' = [item EXCEPT ![i] = item'[i]] /\ item'[i] = row
             /\ item'[i] \in Row /\ deaf' = deaf \ {i}
             /\ UNCHANGED <<order, projectHeld, unrunnable, run, drainer, sweep, wake,
                            merging>>
  <2>1. item' = [item EXCEPT ![i] = row]  BY <1>2 DEF UserWrites, Write
  <2>2. item'[i] = row  BY <1>1, <2>1
  <2>. QED  BY <1>2, <2>1, <2>2 DEF UserWrites, Write, sweepVars
<1>3. ASSUME NEW st \in Status
      PROVE  LET row == [d EXCEPT !.status = st]
             IN  row \in Row /\ row.status = st /\ row.run = d.run /\ row.pr = d.pr
  BY <1>1 DEF Row
<1>4. CASE \E b \in BOOLEAN : Accept(i, b)
  <2>1. PICK b \in BOOLEAN : Accept(i, b)  BY <1>4
  <2> DEFINE st == IF b /\ ~Gated(i) THEN "queued" ELSE "open"
             row == [d EXCEPT !.status = st]
  <2>2. st \in Status /\ st \in Unclaimed  BY DEF Status, Unclaimed
  <2>3. UserWrites(i, row) /\ d.status \in Unclaimed /\ UNCHANGED ruledDone
    BY <2>1 DEF Accept, Unclaimed
  <2> HIDE DEF st
  <2>4. row \in Row /\ row.status = st /\ row.run = d.run /\ row.pr = d.pr
    BY <1>3, <2>2
  <2> HIDE DEF row
  <2>. QED  BY <1>2, <2>2, <2>3, <2>4 DEF UserEdit
<1>5. CASE Queue(i) \/ Unqueue(i)
  <2> DEFINE row(t) == [d EXCEPT !.status = t]
  <2>1. PICK t \in {"queued", "open"} :
          UserWrites(i, row(t)) /\ d.status \in Unclaimed /\ UNCHANGED ruledDone
    BY <1>5 DEF Queue, Unqueue, MayUnqueue, Unclaimed
  <2>2. row(t) \in Row /\ row(t).status = t /\ row(t).run = d.run /\ row(t).pr = d.pr
    BY <1>3 DEF Status
  <2> HIDE DEF row
  <2>. QED  BY <1>2, <2>1, <2>2 DEF UserEdit, Unclaimed
<1>6. CASE MarkDone(i) \/ Delete(i)
  <2> DEFINE row(t) == [d EXCEPT !.status = t]
  <2>1. \/ /\ UserWrites(i, row("done")) /\ d.status = "in_review"
           /\ ruledDone' = ruledDone \union {i}
        \/ UserWrites(i, row("deleted")) /\ UNCHANGED ruledDone
    BY <1>6 DEF MarkDone, Delete
  <2>2. \A t \in {"done", "deleted"} :
          row(t) \in Row /\ row(t).status = t /\ row(t).run = d.run /\ row(t).pr = d.pr
    BY <1>3 DEF Status
  <2> HIDE DEF row
  <2>. QED  BY <1>2, <2>1, <2>2 DEF UserEdit
<1>7. CASE \E new \in SUBSET Items : EditDeps(i, new)
  <2>1. PICK new \in SUBSET Items : EditDeps(i, new)  BY <1>7
  <2> DEFINE row == [d EXCEPT !.deps = new]
  <2>2. UserWrites(i, row) /\ UNCHANGED ruledDone  BY <2>1 DEF EditDeps
  <2>3. row \in Row /\ row.status = d.status /\ row.run = d.run /\ row.pr = d.pr
    BY <1>1 DEF Row
  <2> HIDE DEF row
  <2>. QED  BY <1>2, <2>2, <2>3 DEF UserEdit
<1>8. CASE \E b \in BOOLEAN : HandOff(i, b)
  <2>1. PICK b \in BOOLEAN : HandOff(i, b)  BY <1>8
  <2> DEFINE row == [d EXCEPT !.agent = b]
  <2>2. UserWrites(i, row) /\ UNCHANGED ruledDone  BY <2>1 DEF HandOff
  <2>3. row \in Row /\ row.status = d.status /\ row.run = d.run /\ row.pr = d.pr
    BY <1>1 DEF Row
  <2> HIDE DEF row
  <2>. QED  BY <1>2, <2>2, <2>3 DEF UserEdit
<1>9. CASE \E b \in BOOLEAN : Hold(i, b)
  <2>1. PICK b \in BOOLEAN : Hold(i, b)  BY <1>9
  <2> DEFINE row == [d EXCEPT !.held = b]
  <2>2. UserWrites(i, row) /\ UNCHANGED ruledDone  BY <2>1 DEF Hold
  <2>3. row \in Row /\ row.status = d.status /\ row.run = d.run /\ row.pr = d.pr
    BY <1>1 DEF Row
  <2> HIDE DEF row
  <2>. QED  BY <1>2, <2>2, <2>3 DEF UserEdit
<1>10. CASE Reject(i)
  <2> DEFINE row == [d EXCEPT !.status = "rejected", !.held = FALSE, !.agent = FALSE]
  <2>1. UserWrites(i, row) /\ d.status \in Unclaimed /\ UNCHANGED ruledDone
    BY <1>10 DEF Reject, Unclaimed
  <2>2. row \in Row /\ row.status \in Unclaimed /\ row.run = d.run /\ row.pr = d.pr
    BY <1>1 DEF Row, Status, Unclaimed
  <2> HIDE DEF row
  <2>. QED  BY <1>2, <2>1, <2>2 DEF UserEdit
<1>11. CASE Reopen(i)
  <2> DEFINE row == [d EXCEPT !.status = "open", !.held = FALSE]
  <2>1. UserWrites(i, row) /\ d.status \in Unclaimed /\ UNCHANGED ruledDone
    BY <1>11 DEF Reopen, Unclaimed
  <2>2. row \in Row /\ row.status \in Unclaimed /\ row.run = d.run /\ row.pr = d.pr
    BY <1>1 DEF Row, Status, Unclaimed
  <2> HIDE DEF row
  <2>. QED  BY <1>2, <2>1, <2>2 DEF UserEdit
<1>. QED
  BY <1>4, <1>5, <1>6, <1>7, <1>8, <1>9, <1>10, <1>11 DEF UserWritesRow

\* A settlement patches the row it is about: the four outcomes.
LEMMA PatchedRow ==
    ASSUME TypeInv, NEW s \in Settlements
    PROVE  /\ Patched(s) \in Row
           /\ Patched(s).deps = item[s.item].deps
           /\ s.outcome = "running" => /\ Patched(s).status = item[s.item].status
                                       /\ Patched(s).run = s.adopted
                                       /\ Patched(s).pr = item[s.item].pr
           /\ s.outcome = "in_review" => /\ Patched(s).status = "in_review"
                                         /\ Patched(s).run = item[s.item].run
                                         /\ Patched(s).pr = s.pr
           /\ s.outcome = "done" => /\ Patched(s).status = "done"
                                    /\ Patched(s).run = item[s.item].run
                                    /\ Patched(s).pr = item[s.item].pr
           /\ s.outcome = "released" => /\ Patched(s).status = "open"
                                        /\ Patched(s).run = 0
                                        /\ Patched(s).pr = item[s.item].pr
<1> DEFINE d == item[s.item]
<1>1. /\ d \in Row /\ s.adopted \in Runs \union {0} /\ s.pr \in Runs \union {0}
      /\ s.outcome \in {"running", "in_review", "done", "released"}
  BY DEF TypeInv, Settlements
<1>2. CASE s.outcome = "running"
  <2>1. Patched(s) = [d EXCEPT !.run = s.adopted]  BY <1>2 DEF Patched
  <2>. QED  BY <1>1, <1>2, <2>1 DEF Row
<1>3. CASE s.outcome = "in_review"
  <2>1. Patched(s) = [d EXCEPT !.status = "in_review", !.pr = s.pr]
    BY <1>3 DEF Patched
  <2>. QED  BY <1>1, <1>3, <2>1 DEF Row, Status
<1>4. CASE s.outcome = "done"
  <2>1. Patched(s) = [d EXCEPT !.status = "done"]  BY <1>4 DEF Patched
  <2>. QED  BY <1>1, <1>4, <2>1 DEF Row, Status
<1>5. CASE s.outcome = "released"
  <2>1. Patched(s) = [d EXCEPT !.status = "open", !.run = 0]  BY <1>5 DEF Patched
  <2>. QED  BY <1>1, <1>5, <2>1 DEF Row, Status
<1>. QED  BY <1>1, <1>2, <1>3, <1>4, <1>5

\* A released row, as a failed launch and a closed pull request write it.
LEMMA ReleasedRow ==
    ASSUME NEW d \in Row, NEW st \in Status, NEW r \in Runs \union {0}
    PROVE  /\ [d EXCEPT !.status = st, !.run = 0] \in Row
           /\ [d EXCEPT !.status = st, !.run = 0].status = st
           /\ [d EXCEPT !.status = st, !.run = 0].run = 0
           /\ [d EXCEPT !.status = st, !.run = 0].deps = d.deps
           /\ [d EXCEPT !.status = st] \in Row
           /\ [d EXCEPT !.status = st].status = st
           /\ [d EXCEPT !.status = st].run = d.run
           /\ [d EXCEPT !.status = st].pr = d.pr
           /\ [d EXCEPT !.status = st].deps = d.deps
           /\ [d EXCEPT !.run = r] \in Row
           /\ [d EXCEPT !.run = r].status = d.status
           /\ [d EXCEPT !.run = r].run = r
           /\ [d EXCEPT !.run = r].pr = d.pr
           /\ [d EXCEPT !.run = r].deps = d.deps
  BY DEF Row

\* The run dispatched for a row is a live one of it, if there is any.
LEMMA DispatchedIsLive ==
    ASSUME TypeInv, NEW i \in Items
    PROVE  /\ DispatchedRun(i) \in Runs \union {0}
           /\ DispatchedRun(i) = 0 => LiveOf(i) = {}
           /\ DispatchedRun(i) # 0 => DispatchedRun(i) \in LiveOf(i)
<1>1. LiveOf(i) \subseteq Runs /\ 0 \notin Runs  BY DEF LiveOf, Live, Runs
<1>2. DispatchedRun(i) = IF LiveOf(i) = {} THEN 0 ELSE Max(LiveOf(i))
  BY DEF DispatchedRun, LiveOf
<1>. QED  BY <1>1, <1>2, NewestRun

\* What a settlement is made of.
LEMMA SettlementType ==
    ASSUME TypeInv, NEW i \in Items
    PROVE  LET s == SettlementOf(i)
               r == IF item[i].run = 0 THEN DispatchedRun(i) ELSE item[i].run
           IN  /\ s \in Settlements /\ s.item = i
               /\ s.outcome = Settle(r) /\ s.pr \in {0, r}
               /\ s.adopted = IF item[i].run = 0 THEN DispatchedRun(i) ELSE 0
<1> DEFINE adopted == IF item[i].run = 0 THEN DispatchedRun(i) ELSE 0
           r == IF item[i].run = 0 THEN DispatchedRun(i) ELSE item[i].run
           pr == IF r # 0 /\ run[r].pr \in {"open", "merged", "closed"} THEN r ELSE 0
<1>1. item[i].run \in Runs \union {0}  BY DEF TypeInv, Row
<1>2. adopted \in Runs \union {0} /\ r \in Runs \union {0} /\ pr \in Runs \union {0}
      /\ pr \in {0, r}
  BY <1>1, DispatchedIsLive
<1>3. Settle(r) \in {"running", "in_review", "done", "released"}
  BY DEF Settle
<1>4. SettlementOf(i) = [item |-> i, outcome |-> Settle(r), adopted |-> adopted, pr |-> pr]
  BY DEF SettlementOf
<1> HIDE DEF adopted, r, pr
<1>5. SettlementOf(i) \in Settlements  BY <1>2, <1>3, <1>4 DEF Settlements
<1>. QED  BY <1>2, <1>4, <1>5 DEF adopted, r

\* The settlements of a tick.
LEMMA CollectType ==
    ASSUME TypeInv
    PROVE  /\ Collect \subseteq Settlements
           /\ \A s \in Collect : /\ s = SettlementOf(s.item)
                                 /\ item[s.item].status = "active"
                                 /\ s.outcome # "running" \/ s.adopted # 0
  BY SettlementType DEF Collect

\* The drainer's records.
LEMMA DrainerType ==
    ASSUME NEW d \in Drainers, NEW todo \in SUBSET Settlements
    PROVE  /\ Settling(d, todo) \in Drainers /\ Settling(d, todo).todo = todo
           /\ Settling(d, todo).at = IF todo = {} THEN "claim" ELSE "settle"
           /\ Idle \in Drainers /\ Idle.at = "idle"
           /\ [Idle EXCEPT !.left = Cap] \in Drainers
           /\ d.left > 0 =>
                /\ [Idle EXCEPT !.at = "claim", !.left = d.left - 1] \in Drainers
                /\ [Idle EXCEPT !.at = "claim", !.left = d.left - 1].at = "claim"
<1>1. Idle \in Drainers /\ Idle.at = "idle"
  BY RoadmapAssumption DEF Drainers, Idle
<1>2. /\ Settling(d, todo) \in Drainers /\ Settling(d, todo).todo = todo
      /\ Settling(d, todo).at = IF todo = {} THEN "claim" ELSE "settle"
  <2>1. CASE todo = {}  BY <2>1 DEF Drainers, Settling
  <2>2. CASE todo # {}  BY <2>2 DEF Drainers, Settling
  <2>. QED  BY <2>1, <2>2
<1>3. [Idle EXCEPT !.left = Cap] \in Drainers
  BY <1>1, RoadmapAssumption DEF Drainers
<1>4. d.left > 0 => d.left - 1 \in 0..Cap
  BY RoadmapAssumption DEF Drainers
<1>. QED  BY <1>1, <1>2, <1>3, <1>4 DEF Drainers

\* The sweep's records.
LEMMA SweepType ==
    ASSUME TypeInv, NEW todo \in SUBSET (Items \X Runs)
    PROVE  /\ Advance(todo) \in Sweeps /\ Advance(todo).todo = todo
           /\ Advance(todo).at = IF todo = {} THEN "resting" ELSE "polling"
           /\ Resting \in Sweeps /\ Resting.at = "resting"
           /\ [Resting EXCEPT !.at = "asleep"] \in Sweeps
           /\ [Resting EXCEPT !.at = "asleep"].at = "asleep"
           /\ [Resting EXCEPT !.at = "polling", !.todo = todo] \in Sweeps
           /\ [Resting EXCEPT !.at = "polling", !.todo = todo].at = "polling"
           /\ [Resting EXCEPT !.at = "polling", !.todo = todo].todo = todo
  BY DEF TypeInv, Sweeps, Advance, Resting, PrStates

-----------------------------------------------------------------------------
(* Types                                                                   *)

\* The initial states are typed.
LEMMA TypeInit == Init => TypeInv
<1> SUFFICES ASSUME Init PROVE TypeInv
  OBVIOUS
<1>1. item \in [Items -> Row]
  <2>1. item \in [Items -> [status : {"proposed", "open", "queued", "rejected"},
                            deps : SUBSET Items, agent : BOOLEAN, run : {0}, pr : {0},
                            held : BOOLEAN]]
    BY RoadmapAssumption DEF Init
  <2>. QED  BY <2>1 DEF Row, Status
<1>2. Cardinality(Items) \in Nat
  BY RoadmapAssumption, FS_CardinalityType
<1>3. order \in Seq(Items) /\ Len(order) = Cardinality(Items)
  BY <1>2 DEF Init
<1>4. run \in [Runs -> RunRows]
  BY DEF Init, NoRun, RunRows, PrStates
<1>5. drainer \in Drainers /\ sweep \in Sweeps /\ TasksOK
  BY RoadmapAssumption DEF Init, Idle, Drainers, Resting, Sweeps, PrStates, TasksOK
<1>. QED  BY <1>1, <1>3, <1>4, <1>5 DEF Init, TypeInv

\* A row that is written is the row that was meant, and the others stay.
LEMMA WriteType ==
    ASSUME TypeInv, NEW i \in Items, NEW row \in Row,
           Write(i, row) \/ Update(i, row) \/ \E st : UpdateWhere(i, st, row)
    PROVE  item' \in [Items -> Row] /\ deaf' \subseteq Items
  BY DEF TypeInv, Write, Update, UpdateWhere

\* Every step keeps the types.
LEMMA TypeStep == ASSUME TypeInv, [Next]_vars PROVE TypeInv'
<1> USE DEF boardVars, sweepVars
<1>1. ASSUME TickStarts PROVE TypeInv'
  <2> DEFINE d == [Idle EXCEPT !.left = Cap]
  <2>1. d \in Drainers /\ Collect \in SUBSET Settlements
    BY DrainerType, CollectType DEF TypeInv
  <2>2. drainer' = Settling(d, Collect)  BY <1>1 DEF TickStarts
  <2> HIDE DEF d
  <2>3. drainer' \in Drainers /\ TasksOK'
    <3>1. /\ drainer' \in Drainers /\ drainer'.todo = Collect
          /\ drainer'.at = IF Collect = {} THEN "claim" ELSE "settle"
      BY <2>1, <2>2, DrainerType
    <3>. QED  BY <1>1, <3>1 DEF TickStarts, TypeInv, TasksOK
  <2>. QED  BY <1>1, <2>3 DEF TickStarts, TypeInv
<1>2. ASSUME TickSettles PROVE TypeInv'
  <2> DEFINE s == First(drainer.todo)
  <2>1. s \in drainer.todo /\ drainer.todo \in SUBSET Settlements
    BY <1>2, FirstIsOfTodo DEF TickSettles, TypeInv, TasksOK, Drainers
  <2>2. /\ Update(s.item, Patched(s)) /\ wake' = (wake \/ s.outcome = "in_review")
        /\ drainer' = Settling(drainer, drainer.todo \ {s})
    BY <1>2 DEF TickSettles
  <2> HIDE DEF s
  <2>3. item' \in [Items -> Row] /\ deaf' \subseteq Items
    BY <2>1, <2>2, PatchedRow, WriteType DEF Settlements
  <2>4. drainer' \in Drainers /\ TasksOK'
    <3> DEFINE rest == drainer.todo \ {s}
    <3>1. rest \in SUBSET Settlements  BY <2>1
    <3>2. drainer' = Settling(drainer, rest)  BY <2>2
    <3> HIDE DEF rest
    <3>0. drainer \in Drainers  BY DEF TypeInv
    <3>3. /\ drainer' \in Drainers /\ drainer'.todo = rest
          /\ drainer'.at = IF rest = {} THEN "claim" ELSE "settle"
      BY <3>0, <3>1, <3>2, DrainerType
    <3>. QED  BY <1>2, <3>3 DEF TickSettles, TypeInv, TasksOK
  <2>5. wake' \in BOOLEAN  BY <2>2
  <2>. QED  BY <1>2, <2>3, <2>4, <2>5 DEF TickSettles, TypeInv
<1>3. ASSUME NEW i \in Items, TickClaims(i) PROVE TypeInv'
  <2>1. item' \in [Items -> Row] /\ deaf' \subseteq Items
    BY <1>3, ReleasedRow, WriteType DEF TickClaims, TypeInv, Status
  <2>2. drainer' \in Drainers /\ TasksOK'
    BY <1>3 DEF TickClaims, TypeInv, TasksOK, Drainers
  <2>. QED  BY <1>3, <2>1, <2>2 DEF TickClaims, TypeInv
<1>4. ASSUME TickEnds PROVE TypeInv'
  <2>1. drainer' \in Drainers /\ TasksOK'
    BY <1>4, DrainerType DEF TickEnds, TypeInv, TasksOK
  <2>. QED  BY <1>4, <2>1 DEF TickEnds, TypeInv
<1>5. ASSUME LaunchReturns PROVE TypeInv'
  <2>1. PICK r \in Runs :
          /\ run' = [run EXCEPT ![r] = [NoRun EXCEPT
                       !.item = drainer.item, !.state = "live", !.row = TRUE]]
          /\ drainer' = [drainer EXCEPT !.at = "stamp", !.run = r]
    BY <1>5 DEF LaunchReturns
  <2>2. run' \in [Runs -> RunRows]
    BY <2>1 DEF TypeInv, RunRows, NoRun, PrStates, Drainers
  <2>3. drainer' \in Drainers /\ TasksOK'
    BY <1>5, <2>1 DEF LaunchReturns, TypeInv, TasksOK, Drainers
  <2>. QED  BY <1>5, <2>2, <2>3 DEF LaunchReturns, TypeInv
<1>6. ASSUME TickStamps PROVE TypeInv'
  <2>1. drainer.item \in Items /\ drainer.run \in Runs /\ drainer.left > 0
    BY <1>6 DEF TickStamps, TypeInv, TasksOK
  <2>2. item' \in [Items -> Row] /\ deaf' \subseteq Items
    <3> DEFINE row == [item[drainer.item] EXCEPT !.run = drainer.run]
    <3>0. item[drainer.item] \in Row /\ "open" \in Status
      BY <2>1 DEF TypeInv, Status
    <3>1. row \in Row  BY <2>1, <3>0, ReleasedRow
    <3>2. Update(drainer.item, row)  BY <1>6 DEF TickStamps
    <3> HIDE DEF row
    <3>. QED  BY <2>1, <3>1, <3>2, WriteType
  <2>3. drainer' \in Drainers /\ TasksOK'
    BY <1>6, <2>1, DrainerType DEF TickStamps, Dispatched, TypeInv, TasksOK
  <2>. QED  BY <1>6, <2>2, <2>3 DEF TickStamps, TypeInv
<1>7. ASSUME LaunchFails PROVE TypeInv'
  <2>1. drainer.item \in Items /\ drainer.left > 0
    BY <1>7 DEF LaunchFails, TypeInv, TasksOK
  <2>2. item' \in [Items -> Row] /\ deaf' \subseteq Items
    <3> DEFINE row == [item[drainer.item] EXCEPT !.status = "open", !.run = 0]
    <3>0. item[drainer.item] \in Row /\ "open" \in Status
      BY <2>1 DEF TypeInv, Status
    <3>1. row \in Row  BY <2>1, <3>0, ReleasedRow
    <3>2. Update(drainer.item, row)  BY <1>7 DEF LaunchFails
    <3> HIDE DEF row
    <3>. QED  BY <2>1, <3>1, <3>2, WriteType
  <2>3. drainer' \in Drainers /\ TasksOK'
    BY <1>7, <2>1, DrainerType DEF LaunchFails, Dispatched, TypeInv, TasksOK
  <2>. QED  BY <1>7, <2>2, <2>3 DEF LaunchFails, TypeInv
<1>8. ASSUME NEW r \in Runs, RunEnds(r) \/ RunDeleted(r) \/ PrMoves(r) \/ MergeReturns(r)
      PROVE  TypeInv'
  <2>1. run' \in [Runs -> RunRows]
    <3>0. run \in [Runs -> RunRows]  BY DEF TypeInv
    <3>1. CASE RunEnds(r)
      <4>1. PICK st \in {"failed", "done"}, pr \in {"none", "unnumbered", "open"} :
              run' = [run EXCEPT ![r].state = st, ![r].pr = pr]
        <5>1. PICK end \in {<<"failed", "none">>, <<"done", "none">>,
                            <<"done", "unnumbered">>, <<"done", "open">>} :
                run' = [run EXCEPT ![r].state = end[1], ![r].pr = end[2]]
          BY <3>1 DEF RunEnds
        <5>2. end[1] \in {"failed", "done"} /\ end[2] \in {"none", "unnumbered", "open"}
          OBVIOUS
        <5>. QED  BY <5>1, <5>2
      <4>2. [run[r] EXCEPT !.state = st, !.pr = pr] \in RunRows
        BY <3>0 DEF RunRows, PrStates
      <4>. QED  BY <3>0, <4>1, <4>2
    <3>2. CASE RunDeleted(r)  BY <3>0, <3>2 DEF RunDeleted, RunRows
    <3>3. CASE PrMoves(r)  BY <3>0, <3>3 DEF PrMoves, RunRows, PrStates
    <3>4. CASE MergeReturns(r)  BY <3>0, <3>4 DEF MergeReturns, RunRows, PrStates
    <3>. QED  BY <1>8, <3>1, <3>2, <3>3, <3>4
  <2>2. wake' \in BOOLEAN /\ merging' \subseteq Runs
    BY <1>8 DEF RunEnds, RunDeleted, PrMoves, MergeReturns, TypeInv
  <2>3. UNCHANGED <<item, order, projectHeld, unrunnable, deaf, drainer, sweep, ruledDone>>
    BY <1>8 DEF RunEnds, RunDeleted, PrMoves, MergeReturns
  <2>. QED  BY <2>1, <2>2, <2>3 DEF TypeInv, TasksOK
<1>9. ASSUME SweepStarts PROVE TypeInv'
  <2> DEFINE todo == {<<i, item[i].pr>> : i \in WatchList}
  <2>1. todo \in SUBSET (Items \X Runs)
    BY DEF WatchList, TypeInv, Row
  <2> HIDE DEF todo
  <2>2. sweep' = IF WatchList = {} THEN [Resting EXCEPT !.at = "asleep"]
                 ELSE [Resting EXCEPT !.at = "polling", !.todo = todo]
    BY <1>9 DEF SweepStarts, todo
  <2>3. sweep' \in Sweeps /\ TasksOK'
    <3>1. sweep' \in Sweeps /\ sweep'.at # "verdict"
      BY <2>1, <2>2, SweepType
    <3>. QED  BY <1>9, <3>1 DEF SweepStarts, TypeInv, TasksOK
  <2>4. wake' \in BOOLEAN  BY <1>9 DEF SweepStarts, TypeInv
  <2>. QED  BY <1>9, <2>3, <2>4 DEF SweepStarts, TypeInv
<1>10. ASSUME NEW i \in Items, SweepPasses(i) \/ SweepGivesUp(i) \/ SweepHears(i)
       PROVE  TypeInv'
  <2>1. Rest(i) \in SUBSET (Items \X Runs) /\ sweep.todo \in SUBSET (Items \X Runs)
    BY DEF Rest, TypeInv, Sweeps
  <2>2. \/ sweep' = Advance(Rest(i))
        \/ \E w \in sweep.todo :
              sweep' = [sweep EXCEPT !.at = "verdict", !.item = i,
                              !.verdict = run[w[2]].pr, !.todo = Rest(i)]
    BY <1>10 DEF SweepPasses, SweepGivesUp, SweepHears
  <2>3. \A w \in sweep.todo : run[w[2]].pr \in PrStates
    BY <2>1 DEF TypeInv, RunRows
  <2>4. sweep' \in Sweeps /\ (sweep'.at = "verdict" => sweep'.item \in Items)
    <3>1. CASE sweep' = Advance(Rest(i))  BY <2>1, <3>1, SweepType
    <3>2. ASSUME NEW w \in sweep.todo,
                 sweep' = [sweep EXCEPT !.at = "verdict", !.item = i,
                              !.verdict = run[w[2]].pr, !.todo = Rest(i)]
          PROVE  sweep' \in Sweeps /\ sweep'.item = i
      BY <2>1, <2>3, <3>2 DEF TypeInv, Sweeps
    <3>. QED  BY <2>2, <3>1, <3>2
  <2>5. deaf' \subseteq Items
    BY <1>10 DEF SweepPasses, SweepGivesUp, SweepHears, TypeInv
  <2>6. UNCHANGED <<item, order, projectHeld, unrunnable, run, drainer, wake, merging,
                    ruledDone>>
    BY <1>10 DEF SweepPasses, SweepGivesUp, SweepHears
  <2>. QED  BY <2>4, <2>5, <2>6 DEF TypeInv, TasksOK
<1>11. ASSUME SweepWrites PROVE TypeInv'
  <2>1. sweep.item \in Items /\ sweep.todo \in SUBSET (Items \X Runs)
    BY <1>11 DEF SweepWrites, TypeInv, TasksOK, Sweeps
  <2>2. PatchFor(item[sweep.item], sweep.verdict) \in Row
    <3>1. item[sweep.item] \in Row /\ {"done", "open"} \subseteq Status
      BY <2>1 DEF TypeInv, Status
    <3>. QED  BY <3>1, ReleasedRow DEF PatchFor
  <2>3. item' \in [Items -> Row] /\ deaf' \subseteq Items
    BY <1>11, <2>1, <2>2, WriteType DEF SweepWrites, WriteVerdictWhere
  <2>4. sweep' \in Sweeps /\ TasksOK'
    BY <1>11, <2>1, SweepType DEF SweepWrites, TypeInv, TasksOK
  <2>. QED  BY <1>11, <2>3, <2>4 DEF SweepWrites, TypeInv
<1>12. ASSUME NEW i \in Items, UserWritesRow(i) PROVE TypeInv'
  <2>1. UserEdit(i)  BY <1>12, UserEdits
  <2>2. item' \in [Items -> Row] /\ deaf' \subseteq Items /\ ruledDone' \subseteq Items
    BY <2>1 DEF UserEdit, TypeInv
  <2>. QED  BY <2>1, <2>2 DEF UserEdit, TypeInv, TasksOK
<1>13. ASSUME NEW i \in Items, SetRank(i) PROVE TypeInv'
  <2>1. order' \in Seq(Items) /\ ToSet(order') = Items /\ Len(order') = Len(order)
    BY <1>13, MoveKeepsRows DEF SetRank, TypeInv
  <2>. QED  BY <1>13, <2>1 DEF SetRank, TypeInv, TasksOK
<1>14. ASSUME NEW i \in Items, PickWorkflow(i) \/ AskMerge(i) PROVE TypeInv'
  <2>1. merging' \subseteq Runs /\ unrunnable' \subseteq Items
    BY <1>14 DEF PickWorkflow, AskMerge, WatchList, TypeInv, Row
  <2>. QED  BY <1>14, <2>1 DEF PickWorkflow, AskMerge, TypeInv, TasksOK
<1>15. ASSUME HoldProject PROVE TypeInv'
  BY <1>15 DEF HoldProject, TypeInv, TasksOK
<1>16. ASSUME Restart PROVE TypeInv'
  <2>1. drainer' \in Drainers /\ sweep' \in Sweeps /\ TasksOK'
    BY <1>16, DrainerType, SweepType DEF Restart, TypeInv, TasksOK
  <2>. QED  BY <1>16, <2>1 DEF Restart, TypeInv
<1>17. ASSUME UNCHANGED vars PROVE TypeInv'
  BY <1>17 DEF vars, TypeInv, TasksOK
<1>. QED
  BY <1>1, <1>2, <1>3, <1>4, <1>5, <1>6, <1>7, <1>8, <1>9, <1>10, <1>11, <1>12,
     <1>13, <1>14, <1>15, <1>16, <1>17
     DEF Next, Tick, Sweep, User, UserWritesRow

-----------------------------------------------------------------------------
(* Rows, runs and what is pending about them                               *)

\* The initial states satisfy it.
LEMMA BoardInit == Init => BoardInv
<1> SUFFICES ASSUME Init PROVE BoardInv
  OBVIOUS
<1>1. Live = {}  BY DEF Init, Live, NoRun
<1>2. \A i \in Items : item[i].status \in Unclaimed /\ item[i].run = 0
  <2>1. item \in [Items -> [status : {"proposed", "open", "queued", "rejected"},
                            deps : SUBSET Items, agent : BOOLEAN, run : {0}, pr : {0},
                            held : BOOLEAN]]
    BY RoadmapAssumption DEF Init
  <2>. QED  BY <2>1 DEF Unclaimed
<1>3. drainer.at = "idle" /\ sweep.at = "resting"  BY DEF Init, Idle, Resting
<1>4. LiveRunIsWatched /\ RunsOK  BY <1>1 DEF LiveRunIsWatched, RunsOK
<1>5. RowsOK /\ DoneOK  BY <1>2 DEF RowsOK, DoneOK, Unclaimed
<1>6. ClaimOK /\ SettlingOK /\ SweepOK  BY <1>3 DEF ClaimOK, SettlingOK, SweepOK
<1>. QED  BY <1>4, <1>5, <1>6 DEF BoardInv

\* Runs only end, and what is done with no pull request or a merged one stays so.
RunsGoOn ==
    \A q \in Runs :
       /\ run'[q].item = run[q].item
       /\ run'[q].state = "live" => run[q].state = "live" /\ run'[q].row = run[q].row
       /\ run[q].state = "done" =>
             /\ run'[q].state = "done"
             /\ run[q].pr \in {"none", "merged"} => run'[q].pr = run[q].pr

\* Such a step of the runs disturbs nothing.
LEMMA RunsStep ==
    ASSUME TypeInv, BoardInv, RunsGoOn, UNCHANGED <<item, drainer, sweep>>,
           ruledDone' = ruledDone
    PROVE  BoardInv'
<1>0. \A i \in Items : item[i].run \in Runs \union {0}  BY DEF TypeInv, Row
<1>1. Live' \subseteq Live /\ \A r \in Live' : run'[r].item = run[r].item /\ run'[r].row = run[r].row
  BY DEF RunsGoOn, Live
<1>2. \A i \in Items : LiveOf(i)' \subseteq LiveOf(i)
  BY <1>1 DEF LiveOf
<1>3. LiveRunIsWatched' /\ RunsOK'
  BY <1>1 DEF BoardInv, LiveRunIsWatched, RunsOK
<1>4. RowsOK'
  BY <1>0 DEF BoardInv, RowsOK, RunsGoOn
<1>5. ClaimOK'
  BY <1>2 DEF BoardInv, ClaimOK, TypeInv, TasksOK, Pending
<1>6. SettlingOK'
  <2> SUFFICES ASSUME drainer.at = "settle", NEW s \in drainer.todo
               PROVE  SettlementOK(s)'
    BY DEF BoardInv, SettlingOK
  <2>1. s.item \in Items /\ SettlementOK(s)
    BY DEF BoardInv, SettlingOK, TypeInv, Drainers, Settlements
  <2>2. LiveOf(s.item)' \subseteq LiveOf(s.item)  BY <1>2, <2>1
  <2>3. item[s.item].run # 0 /\ run[item[s.item].run].state = "done" =>
           /\ run'[item[s.item].run].state = "done"
           /\ run[item[s.item].run].pr = "none" => run'[item[s.item].run].pr = "none"
    BY <1>0, <2>1 DEF RunsGoOn
  <2>. QED  BY <2>1, <2>2, <2>3 DEF SettlementOK, Pending
<1>7. SweepOK'
  <2> SUFFICES ASSUME sweep.at = "verdict", item[sweep.item].status = "in_review",
                      sweep.verdict = "merged"
               PROVE  run'[item[sweep.item].run].pr = "merged"
    BY DEF BoardInv, SweepOK, Watched
  <2>1. sweep.item \in Items  BY DEF TypeInv, TasksOK
  <2>2. run[item[sweep.item].run].pr = "merged"
    BY DEF BoardInv, SweepOK
  <2>3. item[sweep.item].run \in Runs /\ run[item[sweep.item].run].state = "done"
    BY <1>0, <2>1 DEF BoardInv, RowsOK
  <2>. QED  BY <2>2, <2>3 DEF RunsGoOn
<1>8. DoneOK'
  BY <1>0 DEF BoardInv, DoneOK, HasLanded, RunsGoOn
<1>. QED  BY <1>3, <1>4, <1>5, <1>6, <1>7, <1>8 DEF BoardInv

\* A user's edit disturbs nothing that drainer and sweep rely on.
LEMMA UserStep ==
    ASSUME TypeInv, BoardInv, NEW i \in Items, UserEdit(i)
    PROVE  BoardInv'
<1>1. /\ \A j \in Items : j # i => item'[j] = item[j]
      /\ UNCHANGED <<run, drainer, sweep>> /\ ruledDone \subseteq ruledDone'
      /\ item'[i].run = item[i].run /\ item'[i].pr = item[i].pr
  BY DEF UserEdit, TypeInv
<1>2. /\ \A j \in Items : item'[j].run = item[j].run /\ item'[j].pr = item[j].pr
      /\ \A j \in Items : \/ item'[j].status = item[j].status
                          \/ item'[j].status = "deleted"
                          \/ item[j].status \in Unclaimed /\ item'[j].status \in Unclaimed
                          \/ /\ item[j].status = "in_review" /\ item'[j].status = "done"
                             /\ j \in ruledDone'
  BY <1>1 DEF UserEdit
<1>3. Live' = Live /\ \A j : LiveOf(j)' = LiveOf(j)  BY <1>1 DEF Live, LiveOf
<1>4. LiveRunIsWatched' /\ RunsOK'
  BY <1>1, <1>2, <1>3 DEF BoardInv, LiveRunIsWatched, RunsOK, Unclaimed
<1>5. RowsOK'
  BY <1>1, <1>2 DEF BoardInv, RowsOK, Unclaimed
<1>6. \A j \in Items : Pending(j) => Pending(j)'
  BY <1>2 DEF Pending, Unclaimed
<1>7. ClaimOK'
  BY <1>1, <1>2, <1>3, <1>6 DEF BoardInv, ClaimOK, TypeInv, TasksOK
<1>8. SettlingOK'
  <2> SUFFICES ASSUME drainer.at = "settle", NEW s \in drainer.todo
               PROVE  SettlementOK(s)'
    BY <1>1 DEF BoardInv, SettlingOK
  <2>1. s.item \in Items /\ SettlementOK(s)
    BY DEF BoardInv, SettlingOK, TypeInv, Drainers, Settlements
  <2>. QED  BY <1>1, <1>2, <1>3, <1>6, <2>1 DEF SettlementOK
<1>9. \A j \in Items : \A r : Watched(j, r) => Watched(j, r)'
  BY <1>2 DEF Watched, Unclaimed
<1>10. SweepOK'
  <2>1. \A w \in sweep.todo : w[1] \in Items  BY DEF TypeInv, Sweeps
  <2>2. sweep.at = "verdict" => sweep.item \in Items  BY DEF TypeInv, TasksOK
  <2>. QED  BY <1>1, <1>2, <1>9, <2>1, <2>2 DEF BoardInv, SweepOK, Unclaimed
<1>11. DoneOK'
  BY <1>1, <1>2 DEF BoardInv, DoneOK, HasLanded, Unclaimed
<1>. QED  BY <1>4, <1>5, <1>7, <1>8, <1>10, <1>11 DEF BoardInv

\* What the drainer collects holds of its rows.
LEMMA CollectOK ==
    ASSUME TypeInv, BoardInv, NEW s \in Collect
    PROVE  SettlementOK(s)
<1> DEFINE i == s.item
           r == IF item[i].run = 0 THEN DispatchedRun(i) ELSE item[i].run
<1>1. /\ i \in Items /\ s = SettlementOf(i) /\ item[i].status = "active"
      /\ s.outcome # "running" \/ s.adopted # 0
  BY CollectType DEF Settlements
<1>2. /\ s.outcome = Settle(r) /\ s.pr \in {0, r}
      /\ s.adopted = IF item[i].run = 0 THEN DispatchedRun(i) ELSE 0
  BY <1>1, SettlementType
<1>3. /\ DispatchedRun(i) = 0 => LiveOf(i) = {}
      /\ DispatchedRun(i) # 0 => DispatchedRun(i) \in LiveOf(i)
  BY <1>1, DispatchedIsLive
<1>4. \A p, q \in LiveOf(i) : p = q
  BY DEF LiveOf, BoardInv, RunsOK
<1>5. \A q \in LiveOf(i) : /\ item[i].run \in {0, q} /\ q \in Runs
                           /\ run[q].state = "live" /\ run[q].row
  BY <1>1 DEF LiveOf, Live, BoardInv, LiveRunIsWatched, RunsOK
<1>6. r # 0 /\ r \in LiveOf(i) => s.outcome = "running"
  BY <1>2, <1>5 DEF Settle
<1>7. r \in Runs \union {0}  BY <1>1, DispatchedIsLive DEF TypeInv, Row
<1> HIDE DEF i
<1>8. s.outcome # "running" => LiveOf(i) = {}
  BY <1>3, <1>5, <1>6
<1>9. s.outcome = "running" => s.adopted # 0 /\ LiveOf(i) \subseteq {s.adopted}
  BY <1>1, <1>2, <1>3, <1>4
<1>10. s.outcome \in {"done", "in_review"} =>
          /\ r # 0 /\ run[r].state = "done"
          /\ s.outcome = "done" => run[r].pr = "none"
  <2> HIDE DEF r
  <2>1. CASE r = 0 \/ ~run[r].row
    <3>1. s.outcome = "released"  BY <1>2, <2>1 DEF Settle
    <3>. QED  BY <3>1
  <2>2. CASE ~(r = 0 \/ ~run[r].row)
    <3>1. CASE run[r].state = "done" /\ run[r].pr # "none"
      <4>1. s.outcome = "in_review"  BY <1>2, <2>2, <3>1 DEF Settle
      <4>. QED  BY <2>2, <3>1, <4>1
    <3>2. CASE run[r].state = "done" /\ run[r].pr = "none"
      BY <2>2, <3>2
    <3>3. CASE run[r].state # "done"
      <4>1. s.outcome \in {"running", "released"}  BY <1>2, <2>2, <3>3 DEF Settle
      <4>. QED  BY <4>1
    <3>. QED  BY <3>1, <3>2, <3>3
  <2>. QED  BY <2>1, <2>2
<1>11. s.outcome \in {"done", "in_review"} => r = item[i].run
  <2> SUFFICES ASSUME s.outcome \in {"done", "in_review"}, item[i].run = 0 PROVE FALSE
    OBVIOUS
  <2>1. r = DispatchedRun(i) /\ r # 0  BY <1>10
  <2>. QED  BY <1>3, <1>6, <2>1
<1>. QED
  BY <1>1, <1>2, <1>8, <1>9, <1>10, <1>11 DEF SettlementOK, Pending, i

\* A settlement is applied to the row it was decided about.
LEMMA SettleStep ==
    ASSUME TypeInv, BoardInv, TickSettles
    PROVE  BoardInv'
<1> DEFINE s == First(drainer.todo)
           i == s.item
<1>1. s \in drainer.todo /\ drainer.todo \in SUBSET Settlements /\ drainer.at = "settle"
  BY FirstIsOfTodo DEF TickSettles, TypeInv, TasksOK, Drainers
<1>2. i \in Items /\ s \in Settlements /\ SettlementOK(s)
  BY <1>1 DEF Settlements, BoardInv, SettlingOK
<1>3. /\ Update(i, Patched(s)) /\ drainer' = Settling(drainer, drainer.todo \ {s})
      /\ UNCHANGED <<run, sweep, ruledDone>>
  BY DEF TickSettles
<1> HIDE DEF s
<1>4. /\ drainer'.todo = drainer.todo \ {s} /\ drainer'.at \in {"claim", "settle"}
  <2> DEFINE rest == drainer.todo \ {s}
  <2>1. rest \in SUBSET Settlements /\ drainer \in Drainers
    BY <1>1 DEF TypeInv
  <2>2. drainer' = Settling(drainer, rest)  BY <1>3
  <2> HIDE DEF rest
  <2>3. drainer'.todo = rest /\ drainer'.at \in {"claim", "settle"}
    BY <2>1, <2>2, DrainerType
  <2>. QED  BY <2>3 DEF rest
<1>5. ClaimOK'  BY <1>4 DEF ClaimOK
<1>6. Live' = Live /\ \A j : LiveOf(j)' = LiveOf(j)  BY <1>3 DEF Live, LiveOf
<1>7. CASE item[i].status = "deleted"
  <2>1. UNCHANGED item  BY <1>2, <1>3, <1>7 DEF Update, Known
  <2>2. SettlingOK'
    BY <1>1, <1>3, <1>4, <1>6, <2>1 DEF BoardInv, SettlingOK, SettlementOK, Pending
  <2>3. LiveRunIsWatched' /\ RunsOK' /\ RowsOK' /\ SweepOK' /\ DoneOK'
    BY <1>3, <1>6, <2>1 DEF BoardInv, LiveRunIsWatched, RunsOK, RowsOK, SweepOK, Watched,
       DoneOK, HasLanded
  <2>. QED  BY <1>5, <2>2, <2>3 DEF BoardInv
<1>8. CASE item[i].status = "active"
  <2> DEFINE d == Patched(s)
  <2>1. item'[i] = d /\ \A j \in Items : j # i => item'[j] = item[j]
    BY <1>2, <1>3, <1>8 DEF Update, Known, Write, TypeInv
  <2>2. /\ s.outcome = "running" =>
              d.status = "active" /\ d.run = s.adopted
        /\ s.outcome = "in_review" =>
              d.status = "in_review" /\ d.run = item[i].run /\ d.pr = s.pr
        /\ s.outcome = "done" => d.status = "done" /\ d.run = item[i].run
        /\ s.outcome = "released" => d.status = "open" /\ d.run = 0
        /\ s.outcome \in {"running", "in_review", "done", "released"}
    BY <1>2, <1>8, PatchedRow DEF Settlements
  <2> HIDE DEF d, i
  <2>3. LiveRunIsWatched'
    <3> SUFFICES ASSUME NEW r \in Live
                 PROVE  LET row == item'[run[r].item] IN
                          \/ row.status = "deleted"
                          \/ row.status = "active" /\ row.run \in {0, r}
      BY <1>3, <1>6 DEF LiveRunIsWatched
    <3>1. CASE run[r].item = i
      <4>1. r \in LiveOf(i)  BY <3>1 DEF LiveOf
      <4>2. s.outcome = "running" /\ r = s.adopted
        BY <1>2, <4>1 DEF SettlementOK, i
      <4>. QED  BY <2>1, <2>2, <3>1, <4>2
    <3>2. CASE run[r].item # i
      BY <2>1, <3>2 DEF BoardInv, LiveRunIsWatched, RunsOK
    <3>. QED  BY <3>1, <3>2
  <2>4. RunsOK'  BY <1>3, <1>6 DEF BoardInv, RunsOK
  <2>5. RowsOK'
    <3>1. s.outcome = "in_review" => item[i].run # 0 /\ run[item[i].run].state = "done"
                                     /\ s.pr \in {0, item[i].run}
      BY <1>2 DEF SettlementOK, i
    <3>. QED  BY <1>3, <2>1, <2>2, <3>1 DEF BoardInv, RowsOK
  <2>6. SettlingOK'
    <3>1. \A t \in drainer'.todo : t \in drainer.todo /\ t.item # i /\ t.item \in Items
      BY <1>1, <1>4 DEF BoardInv, SettlingOK, Settlements, i
    <3>2. ASSUME NEW t \in drainer'.todo PROVE SettlementOK(t)'
      <4>1. SettlementOK(t) /\ item'[t.item] = item[t.item]
        BY <1>1, <2>1, <3>1 DEF BoardInv, SettlingOK
      <4>2. LiveOf(t.item)' = LiveOf(t.item)  BY <1>3, <1>6 DEF LiveOf
      <4>. QED  BY <1>3, <1>6, <4>1, <4>2 DEF SettlementOK, Pending
    <3>. QED  BY <1>1, <1>4, <3>1, <3>2 DEF BoardInv, SettlingOK
  <2>7. \A j \in Items : \A r : Watched(j, r) => Watched(j, r)'
    BY <1>8, <2>1 DEF Watched
  <2>8. SweepOK'
    <3>1. \A w \in sweep.todo : w[1] \in Items  BY DEF TypeInv, Sweeps
    <3>2. sweep.at = "verdict" => sweep.item \in Items  BY DEF TypeInv, TasksOK
    <3>. QED  BY <1>3, <1>8, <2>1, <2>7, <3>1, <3>2 DEF BoardInv, SweepOK
  <2>9. DoneOK'
    <3>1. s.outcome = "done" => item[i].run # 0 /\ run[item[i].run].state = "done"
                                /\ run[item[i].run].pr = "none"
      BY <1>2 DEF SettlementOK, i
    <3>. QED  BY <1>3, <2>1, <2>2, <3>1 DEF BoardInv, DoneOK, HasLanded
  <2>. QED  BY <1>5, <2>3, <2>4, <2>5, <2>6, <2>8, <2>9 DEF BoardInv
<1>. QED  BY <1>2, <1>7, <1>8 DEF SettlementOK, Pending

\* A step of the drainer or of the sweep alone, or of neither.
LEMMA TaskStep ==
    ASSUME TypeInv, BoardInv, UNCHANGED <<item, run, ruledDone>>,
           UNCHANGED drainer \/ (ClaimOK' /\ SettlingOK'),
           UNCHANGED sweep \/ SweepOK'
    PROVE  BoardInv'
<1>1. Live' = Live /\ \A j : LiveOf(j)' = LiveOf(j)  BY DEF Live, LiveOf
<1>2. LiveRunIsWatched' /\ RunsOK' /\ RowsOK' /\ DoneOK'
  BY <1>1 DEF BoardInv, LiveRunIsWatched, RunsOK, RowsOK, DoneOK, HasLanded
<1>3. UNCHANGED drainer => ClaimOK'
  BY <1>1 DEF BoardInv, ClaimOK, Pending
<1>4. UNCHANGED drainer => SettlingOK'
  BY <1>1 DEF BoardInv, SettlingOK, SettlementOK, Pending
<1>5. UNCHANGED sweep => SweepOK'
  BY DEF BoardInv, SweepOK, Watched
<1>. QED  BY <1>2, <1>3, <1>4, <1>5 DEF BoardInv

\* A tick starts: what it collects is true now.
LEMMA StartStep ==
    ASSUME TypeInv, BoardInv, TickStarts
    PROVE  BoardInv'
<1> DEFINE d == [Idle EXCEPT !.left = Cap]
<1>1. d \in Drainers /\ Collect \in SUBSET Settlements
  BY DrainerType, CollectType DEF TypeInv
<1>2. drainer' = Settling(d, Collect) /\ UNCHANGED <<item, run, sweep, ruledDone>>
  BY DEF TickStarts, boardVars, sweepVars
<1> HIDE DEF d
<1>3. drainer'.todo = Collect /\ drainer'.at \in {"claim", "settle"}
  BY <1>1, <1>2, DrainerType
<1>4. ClaimOK'  BY <1>3 DEF ClaimOK
<1>5. SettlingOK'
  <2>1. \A s \in Collect : SettlementOK(s)  BY CollectOK
  <2>2. \A s \in Collect : SettlementOK(s)'
    BY <1>2, <2>1 DEF SettlementOK, Pending, LiveOf, Live
  <2>3. \A s, t \in Collect : s.item = t.item => s = t  BY CollectType
  <2>. QED  BY <1>3, <2>2, <2>3 DEF SettlingOK
<1>. QED  BY <1>2, <1>4, <1>5, TaskStep

\* A claim: a row of the queue has no run, so none is live for it.
LEMMA ClaimStep ==
    ASSUME TypeInv, BoardInv, NEW i \in Items, TickClaims(i)
    PROVE  BoardInv'
<1> DEFINE d == [item[i] EXCEPT !.status = "active"]
<1>1. item[i] \in Row /\ item[i].status = "queued" /\ item[i].run = 0
  BY DEF TypeInv, TickClaims, PickNext, Dispatchable, BoardInv, RowsOK
<1>2. /\ item' = [item EXCEPT ![i] = d] /\ UNCHANGED <<run, sweep, ruledDone>>
      /\ drainer' = [drainer EXCEPT !.at = "launch", !.item = i]
  BY DEF TickClaims, Write, sweepVars
<1>3. d.status = "active" /\ d.run = 0 /\ d.pr = item[i].pr
  BY <1>1 DEF Row
<1> HIDE DEF d
<1>4. item'[i] = d /\ \A j \in Items : j # i => item'[j] = item[j]
  BY <1>2 DEF TypeInv
<1>5. drainer'.at = "launch" /\ drainer'.item = i
  BY <1>2 DEF TypeInv, Drainers
<1>6. Live' = Live /\ \A j : LiveOf(j)' = LiveOf(j)  BY <1>2 DEF Live, LiveOf
<1>7. LiveOf(i) = {}
  BY <1>1 DEF LiveOf, BoardInv, LiveRunIsWatched
<1>8. LiveRunIsWatched' /\ RunsOK'
  BY <1>2, <1>4, <1>6, <1>7 DEF BoardInv, LiveRunIsWatched, RunsOK, LiveOf
<1>9. RowsOK' /\ DoneOK'
  BY <1>2, <1>3, <1>4 DEF BoardInv, RowsOK, DoneOK, HasLanded
<1>10. ClaimOK' /\ SettlingOK'
  BY <1>3, <1>4, <1>5, <1>6, <1>7 DEF ClaimOK, SettlingOK, Pending
<1>11. SweepOK'
  <2>1. \A w \in sweep.todo : w[1] \in Items  BY DEF TypeInv, Sweeps
  <2>2. sweep.at = "verdict" => sweep.item \in Items  BY DEF TypeInv, TasksOK
  <2>3. \A w \in sweep.todo : Watched(w[1], w[2]) => Watched(w[1], w[2])'
    BY <1>1, <1>4, <2>1 DEF Watched
  <2>. QED  BY <1>1, <1>2, <1>4, <2>1, <2>2, <2>3 DEF BoardInv, SweepOK
<1>. QED  BY <1>8, <1>9, <1>10, <1>11 DEF BoardInv

\* A launch returns: its run is the only live one of the claimed row.
LEMMA LaunchStep ==
    ASSUME TypeInv, BoardInv, LaunchReturns
    PROVE  BoardInv'
<1> DEFINE i == drainer.item
<1>1. PICK r \in Runs :
        /\ run[r] = NoRun
        /\ run' = [run EXCEPT ![r] = [NoRun EXCEPT
                       !.item = drainer.item, !.state = "live", !.row = TRUE]]
        /\ drainer' = [drainer EXCEPT !.at = "stamp", !.run = r]
  BY DEF LaunchReturns
<1>2. drainer.at = "launch" /\ UNCHANGED <<item, sweep, ruledDone>>
  BY DEF LaunchReturns, boardVars, sweepVars
<1>3. /\ run[r].state = "none"
      /\ run'[r].item = i /\ run'[r].state = "live" /\ run'[r].row
      /\ \A q \in Runs : q # r => run'[q] = run[q]
  BY <1>1 DEF NoRun, TypeInv
<1>4. drainer'.at = "stamp" /\ drainer'.item = i /\ drainer'.run = r
  BY <1>1 DEF TypeInv, Drainers
<1>5. i \in Items /\ Pending(i) /\ item[i].run = 0 /\ LiveOf(i) = {}
  BY <1>2 DEF BoardInv, ClaimOK, TypeInv, TasksOK
<1> HIDE DEF i
<1>6. Live' = Live \union {r} /\ r \notin Live /\ Live \subseteq Runs
  BY <1>3 DEF Live
<1>7. \A q \in Live : q \in Runs /\ run'[q] = run[q] /\ run[q].item # i
  BY <1>3, <1>5, <1>6 DEF LiveOf
<1>8. LiveRunIsWatched'
  BY <1>2, <1>3, <1>5, <1>6, <1>7 DEF BoardInv, LiveRunIsWatched, Pending
<1>9. RunsOK'
  BY <1>3, <1>5, <1>6, <1>7 DEF BoardInv, RunsOK
<1>10. \A q \in Runs : run[q].state = "done" => run'[q] = run[q]
  BY <1>3
<1>11. \A j \in Items : item[j].run \in Runs \union {0}  BY DEF TypeInv, Row
<1>12. RowsOK'  BY <1>2, <1>10, <1>11 DEF BoardInv, RowsOK
<1>13. DoneOK'  BY <1>2, <1>10, <1>11 DEF BoardInv, DoneOK, HasLanded
<1>14. ClaimOK' /\ SettlingOK'
  <2>1. LiveOf(drainer.item)' \subseteq {r}  BY <1>4, <1>6, <1>7 DEF LiveOf
  <2>. QED  BY <1>2, <1>4, <1>5, <2>1 DEF ClaimOK, SettlingOK, Pending
<1>15. SweepOK'
  <2>1. sweep.at = "verdict" => sweep.item \in Items  BY DEF TypeInv, TasksOK
  <2>2. sweep.at = "verdict" /\ item[sweep.item].status = "in_review" =>
           run'[item[sweep.item].run] = run[item[sweep.item].run]
    BY <1>10, <1>11, <2>1 DEF BoardInv, RowsOK
  <2>. QED  BY <1>2, <2>2 DEF BoardInv, SweepOK, Watched
<1>. QED  BY <1>8, <1>9, <1>12, <1>13, <1>14, <1>15 DEF BoardInv

\* The claimed row is stamped with its run, or was deleted meanwhile.
LEMMA StampStep ==
    ASSUME TypeInv, BoardInv, TickStamps
    PROVE  BoardInv'
<1> DEFINE i == drainer.item
           r == drainer.run
           d == [item[i] EXCEPT !.run = r]
<1>1. /\ i \in Items /\ r \in Runs /\ drainer.at = "stamp" /\ drainer.left > 0
      /\ Pending(i) /\ item[i].run = 0 /\ LiveOf(i) \subseteq {r}
  BY DEF TickStamps, TypeInv, TasksOK, BoardInv, ClaimOK
<1>2. Update(i, d) /\ drainer' = Dispatched /\ UNCHANGED <<run, sweep, ruledDone>>
  BY DEF TickStamps, sweepVars
<1>3. drainer'.at = "claim"
  BY <1>1, <1>2, DrainerType DEF Dispatched, TypeInv
<1>4. ClaimOK' /\ SettlingOK'  BY <1>3 DEF ClaimOK, SettlingOK
<1>5. CASE item[i].status = "deleted"
  <2>1. UNCHANGED item  BY <1>1, <1>2, <1>5 DEF Update, Known
  <2>. QED  BY <1>2, <1>4, <2>1, TaskStep
<1>6. CASE item[i].status = "active"
  <2>1. d.status = "active" /\ d.run = r /\ d.pr = item[i].pr
    BY <1>1, <1>6 DEF TypeInv, Row
  <2>2. item' = [item EXCEPT ![i] = d]
    BY <1>1, <1>2, <1>6 DEF Update, Known, Write
  <2> DEFINE e == item'[i]
  <2>3. /\ e.status = "active" /\ e.run = r /\ e.pr = item[i].pr
        /\ \A j \in Items : j # i => item'[j] = item[j]
    BY <1>1, <2>1, <2>2 DEF TypeInv
  <2> HIDE DEF i, r, d
  <2>4. Live' = Live /\ \A q \in Live : run'[q] = run[q]  BY <1>2 DEF Live
  <2>5. \A q \in Live : run[q].item = i => q = r  BY <1>1 DEF LiveOf
  <2>6. LiveRunIsWatched'
    BY <1>2, <2>3, <2>4, <2>5 DEF BoardInv, LiveRunIsWatched, RunsOK
  <2>7. RunsOK'  BY <1>2, <2>4 DEF BoardInv, RunsOK
  <2>8. RowsOK' /\ DoneOK'
    BY <1>2, <2>3 DEF BoardInv, RowsOK, DoneOK, HasLanded
  <2>9. SweepOK'
    <3>1. \A w \in sweep.todo : w[1] \in Items  BY DEF TypeInv, Sweeps
    <3>2. sweep.at = "verdict" => sweep.item \in Items  BY DEF TypeInv, TasksOK
    <3>3. \A w \in sweep.todo : Watched(w[1], w[2]) => Watched(w[1], w[2])'
      BY <1>6, <2>3, <3>1 DEF Watched
    <3>. QED  BY <1>2, <1>6, <2>3, <3>1, <3>2, <3>3 DEF BoardInv, SweepOK
  <2>. QED  BY <1>4, <2>6, <2>7, <2>8, <2>9 DEF BoardInv
<1>. QED  BY <1>1, <1>5, <1>6 DEF Pending

\* A launch fails: no run was started for the claimed row, which is released.
LEMMA FailStep ==
    ASSUME TypeInv, BoardInv, LaunchFails
    PROVE  BoardInv'
<1> DEFINE i == drainer.item
           d == [item[i] EXCEPT !.status = "open", !.run = 0]
<1>1. /\ i \in Items /\ drainer.at = "launch" /\ drainer.left > 0
      /\ Pending(i) /\ item[i].run = 0 /\ LiveOf(i) = {}
  BY DEF LaunchFails, TypeInv, TasksOK, BoardInv, ClaimOK
<1>2. Update(i, d) /\ drainer' = Dispatched /\ UNCHANGED <<run, sweep, ruledDone>>
  BY DEF LaunchFails, sweepVars
<1>3. drainer'.at = "claim"
  BY <1>1, <1>2, DrainerType DEF Dispatched, TypeInv
<1>4. ClaimOK' /\ SettlingOK'  BY <1>3 DEF ClaimOK, SettlingOK
<1>5. CASE item[i].status = "deleted"
  <2>1. UNCHANGED item  BY <1>1, <1>2, <1>5 DEF Update, Known
  <2>. QED  BY <1>2, <1>4, <2>1, TaskStep
<1>6. CASE item[i].status = "active"
  <2>1. d.status = "open" /\ d.run = 0
    BY <1>1 DEF TypeInv, Row
  <2>2. item' = [item EXCEPT ![i] = d]
    BY <1>1, <1>2, <1>6 DEF Update, Known, Write
  <2> DEFINE e == item'[i]
  <2>3. /\ e.status = "open" /\ e.run = 0
        /\ \A j \in Items : j # i => item'[j] = item[j]
    BY <1>1, <2>1, <2>2 DEF TypeInv
  <2> HIDE DEF i, d
  <2>4. Live' = Live /\ \A q \in Live : run'[q] = run[q]  BY <1>2 DEF Live
  <2>5. \A q \in Live : run[q].item # i  BY <1>1 DEF LiveOf
  <2>6. LiveRunIsWatched'
    BY <1>2, <2>3, <2>4, <2>5 DEF BoardInv, LiveRunIsWatched, RunsOK
  <2>7. RunsOK'  BY <1>2, <2>4 DEF BoardInv, RunsOK
  <2>8. RowsOK' /\ DoneOK'
    BY <1>2, <2>3 DEF BoardInv, RowsOK, DoneOK, HasLanded
  <2>9. SweepOK'
    <3>1. \A w \in sweep.todo : w[1] \in Items  BY DEF TypeInv, Sweeps
    <3>2. sweep.at = "verdict" => sweep.item \in Items  BY DEF TypeInv, TasksOK
    <3>3. \A w \in sweep.todo : Watched(w[1], w[2]) => Watched(w[1], w[2])'
      BY <1>6, <2>3, <3>1 DEF Watched
    <3>. QED  BY <1>2, <1>6, <2>3, <3>1, <3>2, <3>3 DEF BoardInv, SweepOK
  <2>. QED  BY <1>4, <2>6, <2>7, <2>8, <2>9 DEF BoardInv
<1>. QED  BY <1>1, <1>5, <1>6 DEF Pending

\* The sweep writes its verdict on a row that is still in review: its run is
\* done, so nothing of the drainer is about it.
LEMMA VerdictStep ==
    ASSUME TypeInv, BoardInv, SweepWrites
    PROVE  BoardInv'
<1> DEFINE i == sweep.item
           d == PatchFor(item[i], sweep.verdict)
<1>1. i \in Items /\ sweep.at = "verdict" /\ sweep.todo \in SUBSET (Items \X Runs)
  BY DEF SweepWrites, TypeInv, TasksOK, Sweeps
<1>2. /\ UpdateWhere(i, "in_review", d) /\ sweep' = Advance(sweep.todo)
      /\ UNCHANGED <<run, drainer, ruledDone>>
  BY DEF SweepWrites, WriteVerdictWhere
<1>3. sweep'.todo = sweep.todo /\ sweep'.at \in {"resting", "polling"}
  BY <1>1, <1>2, SweepType
<1>4. /\ \A w \in sweep.todo : w[1] # i /\ w[1] \in Items /\ Watched(w[1], w[2])
      /\ item[i].status = "in_review" /\ sweep.verdict = "merged" =>
           run[item[i].run].pr = "merged"
  BY <1>1 DEF BoardInv, SweepOK
<1>5. CASE item[i].status # "in_review"
  <2>1. UNCHANGED item  BY <1>2, <1>5 DEF UpdateWhere
  <2>2. SweepOK'  BY <1>3, <1>4, <2>1 DEF SweepOK, Watched
  <2>. QED  BY <1>2, <2>1, <2>2, TaskStep
<1>6. CASE item[i].status = "in_review"
  <2>1. /\ sweep.verdict = "merged" => d.status = "done" /\ d.run = item[i].run
        /\ sweep.verdict # "merged" => d.status = "open" /\ d.run = 0
    <3>1. item[i] \in Row /\ {"done", "open"} \subseteq Status
      BY <1>1 DEF TypeInv, Status
    <3>2. CASE sweep.verdict = "merged"
      <4>1. d = [item[i] EXCEPT !.status = "done"]  BY <3>2 DEF PatchFor
      <4>. QED  BY <3>1, <3>2, <4>1 DEF Row
    <3>3. CASE sweep.verdict # "merged"
      <4>1. d = [item[i] EXCEPT !.status = "open", !.run = 0]  BY <3>3 DEF PatchFor
      <4>. QED  BY <3>1, <3>3, <4>1 DEF Row
    <3>. QED  BY <3>2, <3>3
  <2>2. item' = [item EXCEPT ![i] = d]
    BY <1>2, <1>6 DEF UpdateWhere, Write
  <2> DEFINE e == item'[i]
  <2>3. /\ sweep.verdict = "merged" => e.status = "done" /\ e.run = item[i].run
        /\ sweep.verdict # "merged" => e.status = "open" /\ e.run = 0
        /\ \A j \in Items : j # i => item'[j] = item[j]
    BY <1>1, <2>1, <2>2 DEF TypeInv
  <2>4. Live' = Live /\ (\A q \in Live : run'[q] = run[q])
        /\ \A j : LiveOf(j)' = LiveOf(j)
    BY <1>2 DEF Live, LiveOf
  <2> HIDE DEF i, d
  <2>5. \A q \in Live : run[q].item # i
    BY <1>6 DEF BoardInv, LiveRunIsWatched
  <2>6. LiveRunIsWatched'
    BY <1>2, <2>3, <2>4, <2>5 DEF BoardInv, LiveRunIsWatched, RunsOK
  <2>7. RunsOK'  BY <1>2, <2>4 DEF BoardInv, RunsOK
  <2>8. RowsOK'
    BY <1>2, <2>3 DEF BoardInv, RowsOK
  <2>9. DoneOK'
    <3>1. sweep.verdict = "merged" => /\ item[i].run # 0 /\ run[item[i].run].state = "done"
                                      /\ run[item[i].run].pr = "merged"
      BY <1>1, <1>4, <1>6 DEF BoardInv, RowsOK, i
    <3>. QED  BY <1>2, <2>3, <3>1 DEF BoardInv, DoneOK, HasLanded
  <2>10. ClaimOK'
    <3>1. drainer.at \in {"launch", "stamp"} => drainer.item \in Items /\ drainer.item # i
      BY <1>6 DEF BoardInv, ClaimOK, Pending, TypeInv, TasksOK
    <3>. QED  BY <1>2, <2>3, <2>4, <3>1 DEF BoardInv, ClaimOK, Pending
  <2>11. SettlingOK'
    <3> SUFFICES ASSUME drainer.at = "settle", NEW s \in drainer.todo
                 PROVE  SettlementOK(s)'
      BY <1>2 DEF BoardInv, SettlingOK
    <3>1. s.item \in Items /\ SettlementOK(s)
      BY DEF BoardInv, SettlingOK, TypeInv, Drainers, Settlements
    <3>2. s.item # i  BY <1>6, <3>1 DEF SettlementOK, Pending
    <3>. QED  BY <1>2, <2>3, <2>4, <3>1, <3>2 DEF SettlementOK, Pending
  <2>12. SweepOK'
    BY <1>3, <1>4, <2>3 DEF SweepOK, Watched, i
  <2>. QED  BY <2>6, <2>7, <2>8, <2>9, <2>10, <2>11, <2>12 DEF BoardInv
<1>. QED  BY <1>5, <1>6

\* A pass of the sweep starts: it watches what is in review now.
LEMMA PassStarts ==
    ASSUME TypeInv, BoardInv, SweepStarts
    PROVE  BoardInv'
<1> DEFINE todo == {<<i, item[i].pr>> : i \in WatchList}
<1>1. todo \in SUBSET (Items \X Runs)  BY DEF WatchList, TypeInv, Row
<1>2. /\ sweep' = IF WatchList = {} THEN [Resting EXCEPT !.at = "asleep"]
                  ELSE [Resting EXCEPT !.at = "polling", !.todo = todo]
      /\ UNCHANGED <<item, run, drainer, ruledDone>>
  BY DEF SweepStarts, boardVars
<1>3. \A w \in todo : item[w[1]].status = "in_review" /\ item[w[1]].pr = w[2]
  BY DEF WatchList
<1> HIDE DEF todo
<1>4. \/ sweep'.at = "asleep"
      \/ sweep'.at = "polling" /\ sweep'.todo = todo
  BY <1>1, <1>2, SweepType
<1>5. SweepOK'  BY <1>2, <1>3, <1>4 DEF SweepOK, Watched
<1>. QED  BY <1>2, <1>5, TaskStep

\* The pass goes on, or hears of a pull request: a row in review that it
\* watches still names the run it asked about.
LEMMA PassGoesOn ==
    ASSUME TypeInv, BoardInv, NEW i \in Items,
           SweepPasses(i) \/ SweepGivesUp(i) \/ SweepHears(i)
    PROVE  BoardInv'
<1>1. Rest(i) \in SUBSET (Items \X Runs) /\ sweep.todo \in SUBSET (Items \X Runs)
  BY DEF Rest, TypeInv, Sweeps
<1>2. /\ sweep.at = "polling" /\ UNCHANGED <<item, run, drainer, ruledDone>>
      /\ \/ sweep' = Advance(Rest(i))
         \/ \E w \in sweep.todo :
               /\ w[1] = i
               /\ sweep' = [sweep EXCEPT !.at = "verdict", !.item = i,
                              !.verdict = run[w[2]].pr, !.todo = Rest(i)]
  BY DEF SweepPasses, SweepGivesUp, SweepHears, Polls, boardVars
<1>3. \A w \in sweep.todo : Watched(w[1], w[2])  BY <1>2 DEF BoardInv, SweepOK
<1>4. \A w \in Rest(i) : w \in sweep.todo /\ w[1] # i  BY DEF Rest
<1>5. CASE sweep' = Advance(Rest(i))
  <2>1. sweep'.todo = Rest(i) /\ sweep'.at \in {"resting", "polling"}
    BY <1>1, <1>5, SweepType
  <2>2. SweepOK'  BY <1>2, <1>3, <1>4, <2>1 DEF SweepOK, Watched
  <2>. QED  BY <1>2, <2>2, TaskStep
<1>6. ASSUME NEW w \in sweep.todo, w[1] = i,
             sweep' = [sweep EXCEPT !.at = "verdict", !.item = i,
                              !.verdict = run[w[2]].pr, !.todo = Rest(i)]
      PROVE  BoardInv'
  <2>1. /\ sweep'.todo = Rest(i) /\ sweep'.at = "verdict" /\ sweep'.item = i
        /\ sweep'.verdict = run[w[2]].pr
    BY <1>6 DEF TypeInv, Sweeps
  <2>2. Watched(i, w[2]) /\ w[2] \in Runs  BY <1>1, <1>3, <1>6
  <2>3. item[i].status = "in_review" => item[i].run = w[2]
    BY <2>2 DEF Watched, BoardInv, RowsOK, Runs
  <2>4. SweepOK'
    <3>1. \A v \in Rest(i) : Watched(v[1], v[2])'
      BY <1>2, <1>3, <1>4 DEF Watched
    <3>2. \/ item'[i].status \in {"done", "deleted"}
          \/ /\ item'[i].status = "in_review"
             /\ sweep'.verdict = "merged" => run'[item'[i].run].pr = "merged"
      BY <1>2, <2>1, <2>2, <2>3 DEF Watched
    <3>3. \A v \in Rest(i) : v[1] # i  BY <1>4
    <3> HIDE DEF Watched
    <3>. QED  BY <2>1, <3>1, <3>2, <3>3 DEF SweepOK
  <2>. QED  BY <1>2, <2>4, TaskStep
<1>. QED  BY <1>2, <1>5, <1>6

\* Every step keeps it.
LEMMA BoardStep == ASSUME TypeInv, BoardInv, [Next]_vars PROVE BoardInv'
<1> USE DEF boardVars, sweepVars
<1>1. ASSUME TickEnds PROVE BoardInv'
  <2>1. drainer'.at = "idle"  BY <1>1, DrainerType DEF TickEnds, TypeInv
  <2>2. ClaimOK' /\ SettlingOK'  BY <2>1 DEF ClaimOK, SettlingOK
  <2>. QED  BY <1>1, <2>2, TaskStep DEF TickEnds
<1>2. ASSUME NEW r \in Runs, RunEnds(r) \/ RunDeleted(r) \/ PrMoves(r) \/ MergeReturns(r)
      PROVE  BoardInv'
  <2>0. \A q \in Runs : run[q] \in RunRows  BY DEF TypeInv
  <2>1. UNCHANGED <<item, drainer, sweep, ruledDone>>
    BY <1>2 DEF RunEnds, RunDeleted, PrMoves, MergeReturns
  <2>2. \A q \in Runs : q # r => run'[q] = run[q]
    BY <1>2 DEF RunEnds, RunDeleted, PrMoves, MergeReturns, TypeInv
  <2>3. /\ run'[r].item = run[r].item
        /\ run'[r].state = "live" => run[r].state = "live" /\ run'[r].row = run[r].row
        /\ run[r].state = "done" =>
              /\ run'[r].state = "done"
              /\ run[r].pr \in {"none", "merged"} => run'[r].pr = run[r].pr
    <3>1. CASE RunEnds(r)
      <4>1. PICK st \in {"failed", "done"}, pr \in {"none", "unnumbered", "open"} :
              run' = [run EXCEPT ![r].state = st, ![r].pr = pr]
        <5>1. PICK end \in {<<"failed", "none">>, <<"done", "none">>,
                            <<"done", "unnumbered">>, <<"done", "open">>} :
                run' = [run EXCEPT ![r].state = end[1], ![r].pr = end[2]]
          BY <3>1 DEF RunEnds
        <5>2. end[1] \in {"failed", "done"} /\ end[2] \in {"none", "unnumbered", "open"}
          OBVIOUS
        <5>. QED  BY <5>1, <5>2
      <4>2. run[r].state = "live"  BY <3>1 DEF RunEnds
      <4>3. run'[r].item = run[r].item /\ run'[r].state = st
        BY <2>0, <4>1 DEF TypeInv, RunRows
      <4>. QED  BY <4>2, <4>3
    <3>2. CASE RunDeleted(r)
      <4>1. run' = [run EXCEPT ![r].row = FALSE] /\ run[r].state \in {"done", "failed"}
        BY <3>2 DEF RunDeleted
      <4>. QED  BY <2>0, <4>1 DEF TypeInv, RunRows
    <3>3. CASE UNCHANGED run  BY <3>3
    <3>4. CASE run[r].pr = "open" /\ \E to \in {"merged", "closed"} :
                 run' = [run EXCEPT ![r].pr = to]
      <4>1. PICK to \in {"merged", "closed"} : run' = [run EXCEPT ![r].pr = to]
        BY <3>4
      <4>2. /\ run'[r].item = run[r].item /\ run'[r].state = run[r].state
            /\ run'[r].row = run[r].row
        BY <2>0, <4>1 DEF TypeInv, RunRows
      <4>. QED  BY <3>4, <4>2
    <3>5. PrMoves(r) \/ MergeReturns(r) =>
             \/ UNCHANGED run
             \/ run[r].pr = "open" /\ \E to \in {"merged", "closed"} :
                   run' = [run EXCEPT ![r].pr = to]
      BY DEF PrMoves, MergeReturns
    <3>. QED  BY <1>2, <3>1, <3>2, <3>3, <3>4, <3>5
  <2>4. RunsGoOn  BY <2>2, <2>3 DEF RunsGoOn
  <2>. QED  BY <2>1, <2>4, RunsStep
<1>3. ASSUME NEW i \in Items, UserWritesRow(i) PROVE BoardInv'
  BY <1>3, UserEdits, UserStep
<1>4. ASSUME NEW i \in Items, SetRank(i) \/ PickWorkflow(i) \/ AskMerge(i) PROVE BoardInv'
  <2>1. UNCHANGED <<item, run, drainer, sweep, ruledDone>>
    BY <1>4 DEF SetRank, PickWorkflow, AskMerge
  <2>. QED  BY <2>1, TaskStep
<1>5. ASSUME HoldProject \/ UNCHANGED vars PROVE BoardInv'
  <2>1. UNCHANGED <<item, run, drainer, sweep, ruledDone>>
    BY <1>5 DEF HoldProject, vars
  <2>. QED  BY <2>1, TaskStep
<1>6. ASSUME Restart PROVE BoardInv'
  <2>1. drainer' = Idle /\ sweep' = Resting /\ UNCHANGED <<item, run, ruledDone>>
    BY <1>6 DEF Restart
  <2>2. ClaimOK' /\ SettlingOK' /\ SweepOK'
    BY <2>1 DEF Idle, Resting, ClaimOK, SettlingOK, SweepOK
  <2>. QED  BY <2>1, <2>2, TaskStep
<1>. QED
  BY <1>1, <1>2, <1>3, <1>4, <1>5, <1>6, StartStep, SettleStep, ClaimStep, LaunchStep,
     StampStep, FailStep, VerdictStep, PassStarts, PassGoesOn
     DEF Next, Tick, Sweep, User, UserWritesRow

-----------------------------------------------------------------------------
(* What a step may do to a row's status and dependencies                   *)

Final(old, new) ==
    /\ old = "done" => new \in {"done", "deleted"}
    /\ old = "deleted" => new = "deleted"

\* A user's edit: only an edit of the dependencies changes them.
LEMMA UserKeepsDeps ==
    ASSUME TypeInv, NEW i \in Items, UserWritesRow(i)
    PROVE  \A j \in Items : /\ Final(item[j].status, item'[j].status)
                            /\ \/ item'[j].deps = item[j].deps
                               \/ \E new \in SUBSET Items : EditDeps(j, new)
<1> DEFINE d == item[i]
<1>1. UserEdit(i)  BY UserEdits
<1>2. \A j \in Items : j # i => item'[j] = item[j]
  BY <1>1 DEF UserEdit, TypeInv
<1>3. Final(item[i].status, item'[i].status)
  BY <1>1 DEF UserEdit, Final, Unclaimed
<1>4. d \in Row /\ item \in [Items -> Row]  BY DEF TypeInv
<1>5. ASSUME NEW row, UserWrites(i, row), row.deps = d.deps
      PROVE  item'[i].deps = d.deps
  BY <1>4, <1>5 DEF UserWrites, Write
<1>6. \/ item'[i].deps = d.deps
      \/ \E new \in SUBSET Items : EditDeps(i, new)
  <2>1. ASSUME NEW st, UserWrites(i, [d EXCEPT !.status = st])
        PROVE  item'[i].deps = d.deps
    BY <1>4, <1>5, <2>1 DEF Row
  <2>2. ASSUME NEW b, UserWrites(i, [d EXCEPT !.agent = b])
        PROVE  item'[i].deps = d.deps
    BY <1>4, <1>5, <2>2 DEF Row
  <2>3. ASSUME NEW b, UserWrites(i, [d EXCEPT !.held = b])
        PROVE  item'[i].deps = d.deps
    BY <1>4, <1>5, <2>3 DEF Row
  <2>4. ASSUME UserWrites(i, [d EXCEPT !.status = "rejected", !.held = FALSE,
                                       !.agent = FALSE])
        PROVE  item'[i].deps = d.deps
    BY <1>4, <1>5, <2>4 DEF Row
  <2>5. ASSUME UserWrites(i, [d EXCEPT !.status = "open", !.held = FALSE])
        PROVE  item'[i].deps = d.deps
    BY <1>4, <1>5, <2>5 DEF Row
  <2>6. CASE \E b \in BOOLEAN : Accept(i, b)  BY <2>1, <2>6 DEF Accept
  <2>7. CASE Queue(i) \/ Unqueue(i) \/ MarkDone(i) \/ Delete(i)
    BY <2>1, <2>7 DEF Queue, Unqueue, MarkDone, Delete
  <2>8. CASE \E b \in BOOLEAN : HandOff(i, b)  BY <2>2, <2>8 DEF HandOff
  <2>9. CASE \E b \in BOOLEAN : Hold(i, b)  BY <2>3, <2>9 DEF Hold
  <2>10. CASE Reject(i)  BY <2>4, <2>10 DEF Reject
  <2>11. CASE Reopen(i)  BY <2>5, <2>11 DEF Reopen
  <2>. QED
    BY <2>6, <2>7, <2>8, <2>9, <2>10, <2>11 DEF UserWritesRow
<1>. QED  BY <1>2, <1>3, <1>6 DEF Final

\* No step brings a deleted row back or takes one out of done, and only an edit
\* of the dependencies changes them.
LEMMA RowStep ==
    ASSUME TypeInv, BoardInv, [Next]_vars
    PROVE  \A j \in Items : /\ Final(item[j].status, item'[j].status)
                            /\ \/ item'[j].deps = item[j].deps
                               \/ \E new \in SUBSET Items : EditDeps(j, new)
<1> DEFINE Kept == \A j \in Items : /\ Final(item[j].status, item'[j].status)
                                    /\ item'[j].deps = item[j].deps
<1>1. ASSUME NEW i \in Items, NEW row \in Row,
             Write(i, row) \/ Update(i, row) \/ UpdateWhere(i, "in_review", row),
             item[i].status \in {"queued", "active", "deleted", "in_review"},
             item[i].status = "deleted" => Update(i, row),
             row.deps = item[i].deps
      PROVE  Kept
  <2>1. \/ UNCHANGED item
        \/ item' = [item EXCEPT ![i] = row] /\ item[i].status # "deleted"
    BY <1>1 DEF Write, Update, UpdateWhere, Known
  <2>2. CASE UNCHANGED item  BY <2>2 DEF Final
  <2>3. CASE item' = [item EXCEPT ![i] = row] /\ item[i].status # "deleted"
    <3>1. item'[i] = row /\ \A j \in Items : j # i => item'[j] = item[j]
      BY <2>3 DEF TypeInv
    <3>. QED  BY <1>1, <2>3, <3>1 DEF Final
  <2>. QED  BY <2>1, <2>2, <2>3
<1>2. CASE UNCHANGED item  BY <1>2 DEF Final
<1>3. CASE TickSettles
  <2> DEFINE s == First(drainer.todo)
  <2>1. s \in drainer.todo /\ drainer.todo \in SUBSET Settlements /\ drainer.at = "settle"
    BY <1>3, FirstIsOfTodo DEF TickSettles, TypeInv, TasksOK, Drainers
  <2>2. s \in Settlements /\ s.item \in Items /\ Pending(s.item)
    BY <2>1 DEF Settlements, BoardInv, SettlingOK, SettlementOK
  <2>3. Update(s.item, Patched(s))  BY <1>3 DEF TickSettles
  <2> HIDE DEF s
  <2>4. Patched(s) \in Row /\ Patched(s).deps = item[s.item].deps
    BY <2>2, PatchedRow
  <2> HIDE DEF Kept
  <2>5. Kept  BY <1>1, <2>2, <2>3, <2>4 DEF Pending
  <2>. QED  BY <2>5 DEF Kept
<1>4. ASSUME NEW i \in Items, TickClaims(i) PROVE Kept
  <2> DEFINE row == [item[i] EXCEPT !.status = "active"]
  <2>1. Write(i, row) /\ item[i].status = "queued"
    BY <1>4 DEF TickClaims, PickNext, Dispatchable
  <2>2. row \in Row /\ row.deps = item[i].deps
    BY DEF TypeInv, Row, Status
  <2> HIDE DEF row, Kept
  <2>. QED  BY <1>1, <2>1, <2>2
<1>5. CASE TickStamps
  <2> DEFINE i == drainer.item
             row == [item[i] EXCEPT !.run = drainer.run]
  <2>1. i \in Items /\ Pending(i) /\ Update(i, row) /\ drainer.run \in Runs
    BY <1>5 DEF TickStamps, BoardInv, ClaimOK, TypeInv, TasksOK
  <2>2. row \in Row /\ row.deps = item[i].deps
    <3>1. item[i] \in Row  BY <2>1 DEF TypeInv
    <3> HIDE DEF i
    <3>. QED  BY <2>1, <3>1 DEF Row
  <2> HIDE DEF row, Kept, i
  <2>3. Kept  BY <1>1, <2>1, <2>2 DEF Pending
  <2>. QED  BY <2>3 DEF Kept
<1>6. CASE LaunchFails
  <2> DEFINE i == drainer.item
             row == [item[i] EXCEPT !.status = "open", !.run = 0]
  <2>1. i \in Items /\ Pending(i) /\ Update(i, row)
    BY <1>6 DEF LaunchFails, BoardInv, ClaimOK, TypeInv, TasksOK
  <2>2. row \in Row /\ row.deps = item[i].deps
    <3>1. item[i] \in Row  BY <2>1 DEF TypeInv
    <3> HIDE DEF i
    <3>. QED  BY <3>1 DEF Row, Status
  <2> HIDE DEF row, Kept, i
  <2>3. Kept  BY <1>1, <2>1, <2>2 DEF Pending
  <2>. QED  BY <2>3 DEF Kept
<1>7. CASE SweepWrites
  <2> DEFINE i == sweep.item
             row == PatchFor(item[i], sweep.verdict)
  <2>1. i \in Items /\ UpdateWhere(i, "in_review", row)
    BY <1>7 DEF SweepWrites, WriteVerdictWhere, TypeInv, TasksOK
  <2>2. row \in Row /\ row.deps = item[i].deps
    <3>1. item[i] \in Row /\ {"done", "open"} \subseteq Status
      BY <2>1 DEF TypeInv, Status
    <3>2. CASE sweep.verdict = "merged"
      <4>1. row = [item[i] EXCEPT !.status = "done"]  BY <3>2 DEF PatchFor
      <4>. QED  BY <3>1, <4>1 DEF Row
    <3>3. CASE sweep.verdict # "merged"
      <4>1. row = [item[i] EXCEPT !.status = "open", !.run = 0]
        BY <3>3 DEF PatchFor
      <4>. QED  BY <3>1, <4>1 DEF Row
    <3>. QED  BY <3>2, <3>3
  <2> HIDE DEF row, Kept, i
  <2>3. CASE item[i].status # "in_review"
    BY <1>2, <2>1, <2>3 DEF UpdateWhere
  <2>4. CASE item[i].status = "in_review"
    <3>1. Kept  BY <1>1, <2>1, <2>2, <2>4
    <3>. QED  BY <3>1 DEF Kept
  <2>. QED  BY <2>3, <2>4
<1>8. ASSUME NEW i \in Items, SweepPasses(i) \/ SweepGivesUp(i) \/ SweepHears(i)
                              \/ SetRank(i) \/ PickWorkflow(i) \/ AskMerge(i)
      PROVE  UNCHANGED item
  BY <1>8 DEF SweepPasses, SweepGivesUp, SweepHears, SetRank, PickWorkflow, AskMerge,
     boardVars
<1>9. ASSUME NEW r \in Runs, RunEnds(r) \/ RunDeleted(r) \/ PrMoves(r) \/ MergeReturns(r)
      PROVE  UNCHANGED item
  BY <1>9 DEF RunEnds, RunDeleted, PrMoves, MergeReturns, boardVars
<1>10. TickStarts \/ TickEnds \/ LaunchReturns \/ SweepStarts \/ HoldProject \/ Restart
         => UNCHANGED item
  BY DEF TickStarts, TickEnds, LaunchReturns, SweepStarts, HoldProject, Restart, boardVars
<1>11. UNCHANGED vars => UNCHANGED item  BY DEF vars, boardVars
<1>12. (\E i \in Items : TickClaims(i)) => Kept  BY <1>4
<1> HIDE DEF Kept
<1>13. \/ UNCHANGED item \/ TickSettles \/ TickStamps \/ LaunchFails \/ SweepWrites
       \/ Kept \/ \E i \in Items : UserWritesRow(i)
  BY <1>8, <1>9, <1>10, <1>11, <1>12 DEF Next, Tick, Sweep, User, UserWritesRow
<1>14. Kept => \A j \in Items : /\ Final(item[j].status, item'[j].status)
                                /\ item'[j].deps = item[j].deps
  BY DEF Kept
<1>. QED  BY <1>2, <1>3, <1>5, <1>6, <1>7, <1>13, <1>14, UserKeepsDeps

\* No edit, and nothing else, closes a loop of dependencies.
LEMMA LoopStep ==
    ASSUME TypeInv, TypeInv', BoardInv, NoLoop, [Next]_vars
    PROVE  NoLoop'
<1> DEFINE g == Deps(item)
           h == Deps(item')
<1>1. /\ g \in Graphs /\ LoopFree(g) /\ h \in Graphs
      /\ LoopFree(h) => NoLoop'
  <2>1. g \in Graphs /\ LoopFree(g)  BY NoLoopIsLoopFree
  <2>2. h \in Graphs  BY DEF TypeInv, Row, Deps, Graphs
  <2>3. LoopFree(h) => NoLoop'
    <3>1. LoopFree(h) => \A i \in Items : ~FindCycle(h, i)
      BY <2>2, FoundIsLoop
    <3>. QED  BY <3>1 DEF NoLoop, Deps
  <2>. QED  BY <2>1, <2>2, <2>3
<1>2. \A j \in Items : /\ Final(item[j].status, item'[j].status)
                       /\ \/ item'[j].deps = item[j].deps
                          \/ \E new \in SUBSET Items : EditDeps(j, new)
  BY RowStep
<1>3. CASE \E i \in Items, new \in SUBSET Items : EditDeps(i, new)
  <2>1. PICK i \in Items, new \in SUBSET Items : EditDeps(i, new)
    BY <1>3
  <2> DEFINE row == [item[i] EXCEPT !.deps = new]
  <2>2. /\ i \in Known /\ ~FindCycle([g EXCEPT ![i] = new], i)
        /\ item' = [item EXCEPT ![i] = row]
    BY <2>1 DEF EditDeps, CheckEdit, UserWrites, Write
  <2>3. row.deps = new /\ row.status = item[i].status
    BY DEF TypeInv, Row
  <2> HIDE DEF row
  <2>4. item'[i] = row /\ \A j \in Items : j # i => item'[j] = item[j]
    BY <2>2 DEF TypeInv
  <2>5. h = [g EXCEPT ![i] = new]
    <3>1. h[i] = new  BY <2>2, <2>3, <2>4 DEF Deps, Known
    <3>2. \A j \in Items : j # i => h[j] = g[j]  BY <2>4 DEF Deps
    <3> HIDE DEF g, h
    <3>. QED  BY <1>1, <3>1, <3>2 DEF Graphs
  <2> HIDE DEF g, h
  <2>6. LoopFree([g EXCEPT ![i] = new])  BY <1>1, <2>2, EditFromRowSuffices
  <2>. QED  BY <1>1, <2>5, <2>6
<1>4. CASE ~\E i \in Items, new \in SUBSET Items : EditDeps(i, new)
  <2>1. \A j \in Items : h[j] \subseteq g[j]
    BY <1>2, <1>4 DEF Deps, Final
  <2> HIDE DEF g, h
  <2>. QED  BY <1>1, <2>1, FewerEdges
<1>. QED  BY <1>3, <1>4

-----------------------------------------------------------------------------
(* The cap                                                                 *)

\* A launch starts one run; no other step starts any.
LEMMA LiveStep ==
    ASSUME TypeInv, [Next]_vars, ~LaunchReturns
    PROVE  Live' \subseteq Live
<1> USE DEF boardVars, sweepVars
<1>1. ASSUME NEW r \in Runs, RunEnds(r) \/ RunDeleted(r) \/ PrMoves(r) \/ MergeReturns(r)
      PROVE  Live' \subseteq Live
  <2>0. run \in [Runs -> RunRows]  BY DEF TypeInv
  <2>1. ASSUME NEW pr, run' = [run EXCEPT ![r].pr = pr] PROVE Live' \subseteq Live
    BY <2>0, <2>1 DEF Live, RunRows
  <2>2. ASSUME run' = [run EXCEPT ![r].row = FALSE] PROVE Live' \subseteq Live
    BY <2>0, <2>2 DEF Live, RunRows
  <2>3. ASSUME RunEnds(r) PROVE Live' \subseteq Live
    <3>1. PICK end \in {<<"failed", "none">>, <<"done", "none">>,
                        <<"done", "unnumbered">>, <<"done", "open">>} :
            run' = [run EXCEPT ![r].state = end[1], ![r].pr = end[2]]
      BY <2>3 DEF RunEnds
    <3>2. end[1] \in {"failed", "done"}  OBVIOUS
    <3>3. \A q \in Runs : run'[q].state \in {run[q].state, end[1]}
      BY <2>0, <3>1 DEF RunRows
    <3>. QED  BY <3>2, <3>3 DEF Live
  <2>4. UNCHANGED run => Live' \subseteq Live  BY DEF Live
  <2>. QED  BY <1>1, <2>1, <2>2, <2>3, <2>4 DEF RunDeleted, PrMoves, MergeReturns
<1>2. ASSUME NEW i \in Items, UserWritesRow(i) PROVE UNCHANGED run
  BY <1>2, UserEdits DEF UserEdit
<1>3. ASSUME NEW i \in Items, TickClaims(i) \/ SweepPasses(i) \/ SweepGivesUp(i)
                \/ SweepHears(i) \/ SetRank(i) \/ PickWorkflow(i) \/ AskMerge(i)
      PROVE  UNCHANGED run
  BY <1>3 DEF TickClaims, SweepPasses, SweepGivesUp, SweepHears, SetRank, PickWorkflow,
     AskMerge
<1>4. TickStarts \/ TickSettles \/ TickEnds \/ TickStamps \/ LaunchFails \/ SweepStarts
        \/ SweepWrites \/ HoldProject \/ Restart \/ UNCHANGED vars => UNCHANGED run
  BY DEF TickStarts, TickSettles, TickEnds, TickStamps, LaunchFails, SweepStarts,
     SweepWrites, HoldProject, Restart, vars
<1>5. UNCHANGED run => Live' \subseteq Live  BY DEF Live
<1>. QED
  BY <1>1, <1>2, <1>3, <1>4, <1>5 DEF Next, Tick, Sweep, User, UserWritesRow

\* A claim is the only step to a launch.
LEMMA ClaimsBeforeLaunch ==
    ASSUME TypeInv, [Next]_vars, drainer'.at = "launch"
    PROVE  UNCHANGED drainer \/ \E i \in Items : TickClaims(i)
<1> USE DEF boardVars, sweepVars
<1>1. ASSUME NEW r \in Runs, RunEnds(r) \/ RunDeleted(r) \/ PrMoves(r) \/ MergeReturns(r)
      PROVE  UNCHANGED drainer
  BY <1>1 DEF RunEnds, RunDeleted, PrMoves, MergeReturns
<1>2. ASSUME NEW i \in Items, UserWritesRow(i) PROVE UNCHANGED drainer
  BY <1>2, UserEdits DEF UserEdit
<1>3. ASSUME NEW i \in Items, SweepPasses(i) \/ SweepGivesUp(i)
                \/ SweepHears(i) \/ SetRank(i) \/ PickWorkflow(i) \/ AskMerge(i)
      PROVE  UNCHANGED drainer
  BY <1>3 DEF SweepPasses, SweepGivesUp, SweepHears, SetRank, PickWorkflow, AskMerge
<1>4. SweepStarts \/ SweepWrites \/ HoldProject \/ UNCHANGED vars => UNCHANGED drainer
  BY DEF SweepStarts, SweepWrites, HoldProject, vars
<1>5. ~TickStarts /\ ~TickSettles
  <2>1. /\ [Idle EXCEPT !.left = Cap] \in Drainers /\ drainer \in Drainers
        /\ Collect \in SUBSET Settlements
        /\ \A s : drainer.todo \ {s} \in SUBSET Settlements
    BY DrainerType, CollectType DEF TypeInv, Drainers
  <2>2. \A todo \in SUBSET Settlements :
           /\ Settling([Idle EXCEPT !.left = Cap], todo).at # "launch"
           /\ Settling(drainer, todo).at # "launch"
    BY <2>1, DrainerType
  <2>. QED  BY <2>1, <2>2 DEF TickStarts, TickSettles
<1>6. ~TickEnds /\ ~Restart
  BY DEF TickEnds, Restart, Idle
<1>7. ~LaunchReturns
  BY DEF LaunchReturns, TypeInv, Drainers
<1>8. ~TickStamps /\ ~LaunchFails
  BY DEF TickStamps, LaunchFails, Dispatched, Idle
<1>. QED
  BY <1>1, <1>2, <1>3, <1>4, <1>5, <1>6, <1>7, <1>8
     DEF Next, Tick, Sweep, User, UserWritesRow

\* A run is launched only after a claim that found fewer than Cap live, and
\* nobody else launches.
LEMMA CapStep ==
    ASSUME TypeInv, CapOK, [Next]_vars
    PROVE  CapOK'
<1>1. Live \subseteq Runs /\ IsFiniteSet(Live) /\ Cardinality(Live) \in Nat /\ Cap \in Nat
  <2>1. IsFiniteSet(Runs)
    BY RoadmapAssumption, FS_Interval DEF Runs
  <2>2. Live \subseteq Runs  BY DEF Live
  <2>. QED  BY <2>1, <2>2, FS_Subset, FS_CardinalityType, RoadmapAssumption
<1>2. CASE LaunchReturns
  <2>1. PICK r \in Runs :
          /\ run' = [run EXCEPT ![r] = [NoRun EXCEPT
                       !.item = drainer.item, !.state = "live", !.row = TRUE]]
          /\ drainer' = [drainer EXCEPT !.at = "stamp", !.run = r]
    BY <1>2 DEF LaunchReturns
  <2>2. Live' \subseteq Live \union {r}
    BY <2>1 DEF Live, TypeInv
  <2>3. IsFiniteSet(Live \union {r})
        /\ Cardinality(Live \union {r}) <= Cardinality(Live) + 1
        /\ Cardinality(Live \union {r}) \in Nat
    BY <1>1, FS_AddElement, FS_CardinalityType
  <2>4. Cardinality(Live') <= Cardinality(Live \union {r}) /\ Cardinality(Live') \in Nat
    BY <2>2, <2>3, FS_Subset, FS_CardinalityType
  <2>5. Cardinality(Live) < Cap  BY <1>2 DEF CapOK, LaunchReturns
  <2>6. Cardinality(Live') <= Cap  BY <1>1, <2>3, <2>4, <2>5
  <2>7. drainer'.at # "launch"  BY <2>1 DEF TypeInv, Drainers
  <2>. QED  BY <2>6, <2>7 DEF CapOK, CapHolds
<1>3. CASE ~LaunchReturns
  <2>1. Live' \subseteq Live  BY <1>3, LiveStep
  <2>2. Cardinality(Live') <= Cardinality(Live) /\ Cardinality(Live') \in Nat
    BY <1>1, <2>1, FS_Subset, FS_CardinalityType
  <2>3. drainer'.at = "launch" => Cardinality(Live) < Cap
    BY ClaimsBeforeLaunch DEF CapOK, TickClaims, PickNext
  <2>. QED  BY <1>1, <2>2, <2>3 DEF CapOK, CapHolds
<1>. QED  BY <1>2, <1>3

-----------------------------------------------------------------------------
(* Theorems                                                                *)

\* The inductive invariant: the types, what the tasks rely on, the cap and the
\* absence of loops.
RoadmapInv == TypeInv /\ BoardInv /\ CapOK /\ NoLoop

\* The invariant holds of every reachable state of the queue.
THEOREM RoadmapInductive == Spec => []RoadmapInv
<1>1. Init => RoadmapInv
  <2> SUFFICES ASSUME Init PROVE RoadmapInv
    OBVIOUS
  <2>1. Live = {}  BY DEF Init, Live, NoRun
  <2>2. CapOK  BY <2>1, FS_EmptySet, RoadmapAssumption DEF CapOK, CapHolds
  <2>. QED  BY <2>2, TypeInit, BoardInit DEF RoadmapInv, Init, NoLoop
<1>2. RoadmapInv /\ [Next]_vars => RoadmapInv'
  <2> SUFFICES ASSUME RoadmapInv, [Next]_vars PROVE RoadmapInv'
    OBVIOUS
  <2>1. TypeInv /\ BoardInv /\ CapOK /\ NoLoop  BY DEF RoadmapInv
  <2>2. TypeInv'  BY <2>1, TypeStep
  <2>3. BoardInv'  BY <2>1, BoardStep
  <2>4. CapOK'  BY <2>1, CapStep
  <2>5. NoLoop'  BY <2>1, <2>2, LoopStep
  <2>. QED  BY <2>2, <2>3, <2>4, <2>5 DEF RoadmapInv
<1>. QED  BY <1>1, <1>2, PTL DEF Spec

\* The types hold: whatever the drainer, the sweep and the users write onto a
\* row is a row, a row in the queue names no run, and every row keeps a rank.
THEOREM RoadmapTyped == Spec => []TypeOK
<1>1. RoadmapInv => TypeOK
  BY DEF RoadmapInv, TypeInv, BoardInv, RowsOK, TypeOK, Drainers, Sweeps
<1>. QED  BY <1>1, RoadmapInductive, PTL

\* No live run is lost: its row is active and names it or no run yet, or was
\* deleted (drainer.rs: dispatched_run_id and the stamp of dispatch).
THEOREM LiveRunsAreWatched == Spec => []LiveRunIsWatched
<1>1. RoadmapInv => LiveRunIsWatched  BY DEF RoadmapInv, BoardInv
<1>. QED  BY <1>1, RoadmapInductive, PTL

\* The cap is never exceeded (drainer.rs: live_run_count at the claim).
THEOREM CapIsKept == Spec => []CapHolds
<1>1. RoadmapInv => CapHolds  BY DEF RoadmapInv, CapOK
<1>. QED  BY <1>1, RoadmapInductive, PTL

\* What is done has landed and stays done until it is deleted, whatever verdict
\* or settlement was decided about it before (drainer.rs, merge_sweep.rs).
THEOREM DoneIsFinal == Spec => DoneStands
<1>1. RoadmapInv => \A i \in Items : item[i].status = "done" => HasLanded(i)
  BY DEF RoadmapInv, BoardInv, DoneOK
<1>2. RoadmapInv /\ [Next]_vars =>
        [\A i \in Items : item[i].status = "done"
                              => item'[i].status \in {"done", "deleted"}]_vars
  BY RowStep DEF RoadmapInv, Final
<1>. QED  BY <1>1, <1>2, RoadmapInductive, PTL DEF Spec, DoneStands

\* No loop of dependencies, although an edit is checked from the edited row
\* only (deps.rs: check_edit), the first half of QueuedMoves.
THEOREM NeverALoop == Spec => []NoLoop
<1>1. RoadmapInv => NoLoop  BY DEF RoadmapInv
<1>. QED  BY <1>1, RoadmapInductive, PTL
=============================================================================
