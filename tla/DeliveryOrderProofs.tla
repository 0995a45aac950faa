------------------------ MODULE DeliveryOrderProofs ------------------------
(***************************************************************************)
(* Theorems about MessageDelivery for every set of messages, both          *)
(* injection modes and every number of disturbances: a message is handed   *)
(* to the process once for each life of the host, and at turn boundaries   *)
(* in the order in which the sends were routed.                            *)
(*                                                                         *)
(* Both rest on one invariant: mirror, queue and the batch in hand are in  *)
(* the order of the routing, so none of them holds a message twice, and    *)
(* the message whose send holds the lock is the last of that order and     *)
(* nowhere else until it is placed.                                        *)
(***************************************************************************)
EXTENDS MessageDeliveryProofs, FiniteSetTheorems

-----------------------------------------------------------------------------
(* 1. The invariants                                                       *)

\* The position of a message in an order of messages.
TurnIn(a, m) == CHOOSE i \in DOMAIN a : a[i] = m

\* A sequence follows an order.
Follows(s, a) ==
    \A i, j \in DOMAIN s : i < j => TurnIn(a, s[i]) < TurnIn(a, s[j])

\* What is still to be handed over.
Ahead == Members(queue) \cup (IF at = "clear" THEN {} ELSE Range(hand))

\* The message of the send that holds the lock has not been placed yet.
Unplaced == lock \in Msgs /\ (at \notin Placed \/ direct)

\* The order of the routing: each message once, the one being sent last.
AcceptInv ==
    /\ IsInjective(accepted)
    /\ \A m \in Msgs : sender[m] \in {"new", "waiting"} => m \notin Range(accepted)
    /\ lock \in Msgs => accepted # <<>> /\ lock = accepted[Len(accepted)]

\* Mirror, queue and hand follow it.
LineInv ==
    /\ Range(given) \cup Range(mirror) \cup Members(queue) \cup Range(hand)
         \subseteq Range(accepted)
    /\ Follows(mirror, accepted) /\ Follows(hand, accepted)
    /\ Follows(Coalesce(queue), accepted)
    /\ Unplaced => lock \notin Range(given) \cup Range(mirror) \cup Members(queue)

\* How often a message occurs in a sequence.
Occurs(s, m) == Cardinality({i \in DOMAIN s : s[i] = m})

\* A message was given once for each life of the host at most, and what is
\* still to be handed over once less.
CountInv ==
    /\ \A m \in Msgs : Occurs(given, m) <= 1 + restarts
    /\ \A m \in Ahead : Occurs(given, m) <= restarts

\* What was given comes before what is still to be handed over.
OrderInv ==
    mode = "AtTurnBoundary" /\ restarts = 0 =>
       /\ Follows(given, accepted)
       /\ \A g \in Range(given), m \in Ahead :
             TurnIn(accepted, g) < TurnIn(accepted, m)

\* What a step does to the messages: one of nine moves.
\* A send is routed.
Joins(m) ==
    /\ sender[m] = "waiting" /\ accepted' = Append(accepted, m)
    /\ hand = <<>> /\ UNCHANGED <<given, mirror, queue, hand, restarts>>
    /\ lock' = m

\* Nothing, or messages are dropped.
Drops ==
    /\ UNCHANGED <<accepted, given, restarts>>
    /\ mirror' \in {mirror, <<>>} /\ queue' \in {queue, <<>>}
    /\ hand' = <<>> \/ (hand' = hand /\ (at = "clear" => at' = "clear"))
    /\ Unplaced' => Unplaced /\ UNCHANGED lock

\* The message being sent is taken in hand.
Takes ==
    /\ UNCHANGED <<accepted, given, restarts, mirror, queue, lock>>
    /\ Unplaced /\ hand' = <<lock>>

\* It is written into the running turn.
Injects ==
    /\ UNCHANGED <<accepted, restarts, mirror, queue>>
    /\ Unplaced /\ ~Unplaced' /\ mode = "Live"
    /\ given' = Append(given, lock) /\ hand' = <<>>

\* It joins the queue and the mirror.
Places ==
    /\ UNCHANGED <<accepted, given, restarts>>
    /\ Unplaced /\ ~Unplaced' /\ PersistAndEnqueue(lock) /\ hand' = <<>>

\* The queue is taken in hand.
Drains ==
    /\ UNCHANGED <<accepted, given, restarts, mirror>>
    /\ ~Unplaced' /\ hand' = Coalesce(queue) /\ queue' = <<>>

\* The hand is handed over to the process.
HandsOver ==
    /\ UNCHANGED <<accepted, restarts, mirror, queue>>
    /\ queue = <<>> /\ at # "clear" /\ ~Unplaced'
    /\ given' = given \o hand
    /\ hand' = <<>> \/ (hand' = hand /\ at' = "clear")

\* The hand goes back to the queue.
PutsBack ==
    /\ UNCHANGED <<accepted, given, restarts, mirror>>
    /\ at # "clear" /\ ~Unplaced'
    /\ queue' = <<hand>> /\ hand' = <<>>

\* The host restarts, and reloads the queue from the mirror.
Reloads ==
    /\ UNCHANGED <<accepted, given, mirror>>
    /\ restarts' = restarts + 1 /\ ~Unplaced' /\ hand' = <<>>
    /\ queue' \in {<<>>, [i \in DOMAIN mirror |-> <<mirror[i]>>]}

-----------------------------------------------------------------------------
(* 2. Orders, and sequences that follow them                               *)

\* The elements of a sequence, by their places.
LEMMA InRange ==
  ASSUME NEW s \in Batch
  PROVE  /\ DOMAIN s = 1..Len(s) /\ Len(s) \in Nat
         /\ \A i \in DOMAIN s : s[i] \in Range(s) /\ s[i] \in Msgs
         /\ \A x \in Range(s) : \E i \in DOMAIN s : s[i] = x
<1>1. s \in Seq(Msgs)  BY DEF Batch
<1>2. DOMAIN s = 1..Len(s) /\ Len(s) \in Nat  BY <1>1, LenProperties
<1>3. \A i \in DOMAIN s : s[i] \in Msgs  BY <1>1, <1>2, ElementOfSeq
<1>. QED  BY <1>2, <1>3 DEF Range

\* The places of a concatenation, and of an append.
LEMMA PlacesOfConcat ==
  ASSUME NEW s \in Batch, NEW t \in Batch
  PROVE  /\ s \o t \in Batch
         /\ Len(s) \in Nat /\ Len(t) \in Nat
         /\ DOMAIN (s \o t) = 1..(Len(s) + Len(t))
         /\ \A i \in 1..Len(s) : (s \o t)[i] = s[i]
         /\ \A i \in (Len(s)+1)..(Len(s)+Len(t)) :
               (s \o t)[i] = t[i - Len(s)] /\ i - Len(s) \in 1..Len(t)
<1> DEFINE u == s \o t
<1>1. s \in Seq(Msgs) /\ t \in Seq(Msgs)  BY DEF Batch
<1>2. /\ u \in Seq(Msgs) /\ Len(u) = Len(s) + Len(t)
      /\ \A i \in 1..Len(s)+Len(t) : u[i] = IF i <= Len(s) THEN s[i] ELSE t[i - Len(s)]
  BY <1>1, ConcatProperties
<1>3. Len(s) \in Nat /\ Len(t) \in Nat /\ DOMAIN u = 1..Len(u)
  BY <1>1, <1>2, LenProperties
<1> HIDE DEF u
<1>4. \A i \in 1..Len(s) : u[i] = s[i]  BY <1>2, <1>3
<1>5. ASSUME NEW i \in (Len(s)+1)..(Len(s)+Len(t))
      PROVE  u[i] = t[i - Len(s)] /\ i - Len(s) \in 1..Len(t)
  <2>1. i \in 1..Len(s)+Len(t) /\ ~(i <= Len(s)) /\ i - Len(s) \in 1..Len(t)
    BY <1>3
  <2>. QED  BY <1>2, <2>1
<1>6. u \in Batch /\ DOMAIN u = 1..(Len(s)+Len(t))  BY <1>2, <1>3 DEF Batch
<1>. QED  BY <1>3, <1>4, <1>5, <1>6 DEF u

LEMMA OneMore ==
  ASSUME NEW s \in Batch, NEW m \in Msgs
  PROVE  /\ Append(s, m) \in Batch /\ Len(s) \in Nat
         /\ Len(Append(s, m)) = Len(s) + 1 /\ Append(s, m) # <<>>
         /\ DOMAIN Append(s, m) = 1..(Len(s)+1)
         /\ \A i \in 1..Len(s) : Append(s, m)[i] = s[i]
         /\ Append(s, m)[Len(s)+1] = m
         /\ Range(Append(s, m)) = Range(s) \cup {m}
<1> DEFINE u == Append(s, m)
<1>1. s \in Seq(Msgs)  BY DEF Batch
<1>2. /\ u \in Seq(Msgs) /\ Len(u) = Len(s)+1 /\ u # <<>>
      /\ \A i \in 1..Len(s) : u[i] = s[i]
      /\ u[Len(s)+1] = m
  BY <1>1, AppendProperties
<1>3. Len(s) \in Nat /\ DOMAIN u = 1..Len(u)  BY <1>1, <1>2, LenProperties
<1>4. Range(u) = Range(s) \cup {m}  BY <1>1, RangeOfAppend
<1> HIDE DEF u
<1>5. u \in Batch /\ DOMAIN u = 1..(Len(s)+1)  BY <1>2, <1>3 DEF Batch
<1>. QED  BY <1>2, <1>3, <1>4, <1>5 DEF u

\* A message of an order has one position in it.
LEMMA TurnIs ==
  ASSUME NEW a \in Batch, IsInjective(a), NEW i \in DOMAIN a
  PROVE  TurnIn(a, a[i]) = i
<1>1. \A j \in DOMAIN a : a[j] = a[i] => j = i  BY DEF IsInjective
<1>. QED  BY <1>1 DEF TurnIn

LEMMA HasTurn ==
  ASSUME NEW a \in Batch, IsInjective(a), NEW m \in Range(a)
  PROVE  TurnIn(a, m) \in DOMAIN a /\ a[TurnIn(a, m)] = m /\ TurnIn(a, m) \in Nat
<1>1. PICK i \in DOMAIN a : a[i] = m  BY InRange
<1>2. TurnIn(a, m) = i  BY <1>1, TurnIs
<1>3. DOMAIN a = 1..Len(a) /\ Len(a) \in Nat  BY InRange
<1>. QED  BY <1>1, <1>2, <1>3

\* A message joins the order: last, and the others keep their positions.
LEMMA TurnJoins ==
  ASSUME NEW a \in Batch, IsInjective(a), NEW m \in Msgs, m \notin Range(a)
  PROVE  /\ IsInjective(Append(a, m))
         /\ \A x \in Range(a) : TurnIn(Append(a, m), x) = TurnIn(a, x)
<1> DEFINE u == Append(a, m)
<1>1. /\ u \in Batch /\ Len(a) \in Nat /\ DOMAIN u = 1..(Len(a)+1)
      /\ \A i \in 1..Len(a) : u[i] = a[i]
      /\ u[Len(a)+1] = m
  BY OneMore
<1>2. DOMAIN a = 1..Len(a) /\ \A i \in DOMAIN a : a[i] \in Range(a)  BY InRange
<1> HIDE DEF u
<1>3. IsInjective(u)
  <2> SUFFICES ASSUME NEW i \in DOMAIN u, NEW j \in DOMAIN u, u[i] = u[j]
               PROVE  i = j
    BY DEF IsInjective
  <2>1. CASE i \in 1..Len(a) /\ j \in 1..Len(a)
    <3>1. i \in DOMAIN a /\ j \in DOMAIN a /\ a[i] = a[j]  BY <1>1, <1>2, <2>1
    <3>. QED  BY <3>1 DEF IsInjective
  <2>2. CASE i = Len(a)+1 /\ j = Len(a)+1  BY <2>2
  <2>3. CASE i \in 1..Len(a) /\ j = Len(a)+1
    <3>1. u[i] \in Range(a) /\ u[j] = m  BY <1>1, <1>2, <2>3
    <3>. QED  BY <3>1
  <2>4. CASE j \in 1..Len(a) /\ i = Len(a)+1
    <3>1. u[j] \in Range(a) /\ u[i] = m  BY <1>1, <1>2, <2>4
    <3>. QED  BY <3>1
  <2>. QED  BY <1>1, <2>1, <2>2, <2>3, <2>4
<1>4. ASSUME NEW x \in Range(a) PROVE TurnIn(u, x) = TurnIn(a, x)
  <2>1. PICK i \in DOMAIN a : a[i] = x  BY InRange
  <2>2. TurnIn(a, x) = i  BY <2>1, TurnIs
  <2>3. i \in DOMAIN u /\ u[i] = x  BY <1>1, <1>2, <2>1
  <2>4. TurnIn(u, x) = i  BY <1>1, <1>3, <2>3, TurnIs
  <2>. QED  BY <2>2, <2>4
<1>. QED  BY <1>3, <1>4 DEF u

\* Every other message comes before the last.
LEMMA LastTurn ==
  ASSUME NEW a \in Batch, IsInjective(a), a # <<>>, NEW m, m = a[Len(a)],
         NEW x \in Range(a), x # m
  PROVE  TurnIn(a, x) < TurnIn(a, m)
<1>1. DOMAIN a = 1..Len(a) /\ Len(a) \in Nat /\ Len(a) # 0
  BY InRange, EmptySeq DEF Batch
<1>2. Len(a) \in DOMAIN a  BY <1>1
<1>3. TurnIn(a, m) = Len(a)  BY <1>2, TurnIs
<1>4. TurnIn(a, x) \in 1..Len(a) /\ a[TurnIn(a, x)] = x  BY <1>1, HasTurn
<1>5. TurnIn(a, x) # Len(a)  BY <1>4
<1>. QED  BY <1>1, <1>3, <1>4, <1>5

\* What follows an order still does when a message joins it.
LEMMA FollowsLater ==
  ASSUME NEW a \in Batch, IsInjective(a), NEW m \in Msgs, m \notin Range(a),
         NEW s \in Batch, Range(s) \subseteq Range(a), Follows(s, a)
  PROVE  Follows(s, Append(a, m))
<1>1. \A i \in DOMAIN s : TurnIn(Append(a, m), s[i]) = TurnIn(a, s[i])
  BY InRange, TurnJoins
<1>. QED  BY <1>1 DEF Follows

\* What follows an order holds nothing twice.
LEMMA FollowsOnce ==
  ASSUME NEW a \in Batch, IsInjective(a), NEW s \in Batch,
         Range(s) \subseteq Range(a), Follows(s, a)
  PROVE  IsInjective(s)
<1> SUFFICES ASSUME NEW i \in DOMAIN s, NEW j \in DOMAIN s, s[i] = s[j]
             PROVE  i = j
  BY DEF IsInjective
<1>1. DOMAIN s = 1..Len(s) /\ Len(s) \in Nat /\ s[i] \in Range(a)  BY InRange
<1>2. TurnIn(a, s[i]) \in Nat  BY <1>1, HasTurn
<1>3. ~(i < j) /\ ~(j < i)  BY <1>2 DEF Follows
<1>. QED  BY <1>1, <1>3

\* Of the empty sequence and of one message there is nothing to compare.
LEMMA FollowsShort ==
  ASSUME NEW a
  PROVE  Follows(<<>>, a) /\ \A m \in Msgs : Follows(<<m>>, a)
<1>1. DOMAIN <<>> = {} /\ \A m \in Msgs : DOMAIN <<m>> = {1}  OBVIOUS
<1>. QED  BY <1>1 DEF Follows

\* Two sequences follow an order together, the one after the other.
LEMMA FollowsBoth ==
  ASSUME NEW a, NEW s \in Batch, NEW t \in Batch, Follows(s, a), Follows(t, a),
         \A x \in Range(s), y \in Range(t) : TurnIn(a, x) < TurnIn(a, y)
  PROVE  Follows(s \o t, a)
<1> DEFINE u == s \o t
           n == Len(s)
           l == Len(t)
<1>1. /\ n \in Nat /\ l \in Nat /\ DOMAIN u = 1..(n+l)
      /\ \A i \in 1..n : u[i] = s[i]
      /\ \A i \in (n+1)..(n+l) : u[i] = t[i-n] /\ i-n \in 1..l
  BY PlacesOfConcat
<1>2. /\ DOMAIN s = 1..n /\ DOMAIN t = 1..l
      /\ \A i \in DOMAIN s : s[i] \in Range(s)
      /\ \A i \in DOMAIN t : t[i] \in Range(t)
  BY InRange
<1> HIDE DEF u, n, l
<1> SUFFICES ASSUME NEW i \in 1..(n+l), NEW j \in 1..(n+l), i < j
             PROVE  TurnIn(a, u[i]) < TurnIn(a, u[j])
  BY <1>1 DEF Follows, u
<1>3. CASE j \in 1..n
  <2>1. i \in 1..n  BY <1>1, <1>3
  <2>. QED  BY <1>1, <1>2, <1>3, <2>1 DEF Follows
<1>4. CASE i \in 1..n /\ j \in (n+1)..(n+l)
  <2>1. u[i] \in Range(s) /\ u[j] \in Range(t)  BY <1>1, <1>2, <1>4
  <2>. QED  BY <2>1
<1>5. CASE i \in (n+1)..(n+l)
  <2>1. j \in (n+1)..(n+l) /\ i-n < j-n  BY <1>1, <1>5
  <2>2. /\ u[i] = t[i-n] /\ u[j] = t[j-n] /\ i-n \in DOMAIN t /\ j-n \in DOMAIN t
    BY <1>1, <1>2, <1>5, <2>1
  <2>. QED  BY <2>1, <2>2 DEF Follows
<1>. QED  BY <1>1, <1>3, <1>4, <1>5

\* The message whose turn is the last is appended.
LEMMA FollowsAppended ==
  ASSUME NEW a \in Batch, IsInjective(a), a # <<>>, NEW m \in Msgs, m = a[Len(a)],
         NEW s \in Batch, Range(s) \subseteq Range(a), m \notin Range(s), Follows(s, a)
  PROVE  Follows(Append(s, m), a)
<1> DEFINE b == <<m>>
<1>1. b \in Batch /\ Range(b) = {m} /\ Follows(b, a)  BY Single, FollowsShort
<1>2. Append(s, m) = s \o b  BY AppendIsConcat DEF Batch
<1> HIDE DEF b
<1>3. \A x \in Range(s), y \in Range(b) : TurnIn(a, x) < TurnIn(a, y)
  BY <1>1, LastTurn
<1>. QED  BY <1>1, <1>2, <1>3, FollowsBoth

-----------------------------------------------------------------------------
(* 3. The coalesced queue                                                  *)

\* Flattening entry after entry has one result.
LEMMA FlatteningIs ==
  ASSUME NEW q \in Seq(Batch), q # <<>>, NEW f, Flattening(q, f)
  PROVE  Coalesce(q) = f[Len(q)]
<1> DEFINE n == Len(q)
<1>1. n \in Nat \ {0}  BY EmptySeq
<1>2. PICK g : Flattening(q, g) /\ Coalesce(q) = g[n]  BY FlattenIs
<1> DEFINE T == {i \in 1..n : f[i] = g[i]}
<1>3. \A i \in 1..n : i \in T
  <2>1. 1 \in T  BY <1>1, <1>2 DEF Flattening
  <2>2. ASSUME NEW i \in 1..(n-1), i \in T PROVE i+1 \in T
    <3>1. i \in 1..(Len(q)-1) /\ i+1 \in 1..n  BY <1>1
    <3>2. f[i+1] = f[i] \o q[i+1]  BY <3>1 DEF Flattening
    <3>3. g[i+1] = g[i] \o q[i+1]  BY <1>2, <3>1 DEF Flattening
    <3>. QED  BY <2>2, <3>1, <3>2, <3>3
  <2> HIDE DEF T, n
  <2>. QED  BY <1>1, <2>1, <2>2, UpTo
<1>4. n \in T  BY <1>1, <1>3
<1>. QED  BY <1>2, <1>4

\* An entry that joins the queue goes to the end of the prompt.
LEMMA CoalesceJoins ==
  ASSUME NEW q \in Seq(Batch), NEW b \in Batch
  PROVE  Coalesce(Append(q, b)) = Coalesce(q) \o b
<1> DEFINE n == Len(q)
           u == Append(q, b)
<1>1. /\ u \in Seq(Batch) /\ u # <<>> /\ Len(u) = n+1 /\ n \in Nat
      /\ \A i \in 1..n : u[i] = q[i]
      /\ u[n+1] = b
  BY AppendProperties, LenProperties
<1> HIDE DEF u
<1>2. CASE q = <<>>
  <2>1. n = 0 /\ Coalesce(q) = <<>>
    BY <1>2, EmptySeq DEF Coalesce, FlattenSeq
  <2>2. Coalesce(u) = b  BY <1>1, <2>1, CoalesceOne
  <2>3. <<>> \o b = b  BY ConcatEmptySeq DEF Batch
  <2>4. Coalesce(q) \o b = b  BY <2>1, <2>3
  <2>. QED  BY <2>2, <2>4 DEF u
<1>3. CASE q # <<>>
  <2>1. PICK f : Flattening(q, f) /\ Coalesce(q) = f[n]  BY <1>3, FlattenIs
  <2>2. f \in [1..n -> Batch] /\ n \in 1..n /\ n # 0
    BY <1>1, <1>3, <2>1, EmptySeq DEF Flattening
  <2> DEFINE e == f[n] \o b
             g == [i \in 1..(n+1) |-> IF i = n+1 THEN e ELSE f[i]]
  <2>3. e \in Batch  BY <2>2, ConcatProperties DEF Batch
  <2>4. Flattening(u, g)
    <3>1. g \in [1..Len(u) -> Batch]
      <4> HIDE DEF e
      <4>. QED  BY <1>1, <2>2, <2>3
    <3>2. g[1] = u[1]  BY <1>1, <2>1, <2>2 DEF Flattening
    <3>3. ASSUME NEW i \in 1..(Len(u)-1) PROVE g[i+1] = g[i] \o u[i+1]
      <4>1. i \in 1..n /\ i \in 1..(n+1) /\ i+1 \in 1..(n+1) /\ i # n+1  BY <1>1
      <4>2. CASE i = n
        <5>1. g[i+1] = e /\ g[i] = f[n] /\ u[i+1] = b  BY <1>1, <4>1, <4>2
        <5>. QED  BY <5>1
      <4>3. CASE i # n
        <5>1. i \in 1..(n-1) /\ i+1 # n+1 /\ i+1 \in 1..n  BY <4>1, <4>3
        <5>2. g[i+1] = f[i+1] /\ g[i] = f[i] /\ u[i+1] = q[i+1]  BY <1>1, <4>1, <5>1
        <5>. QED  BY <2>1, <5>1, <5>2 DEF Flattening
      <4>. QED  BY <4>2, <4>3
    <3> HIDE DEF g
    <3>. QED  BY <3>1, <3>2, <3>3 DEF Flattening
  <2>5. g[n+1] = e  BY <1>1
  <2> HIDE DEF g
  <2>6. Coalesce(u) = g[n+1]  BY <1>1, <2>4, FlatteningIs
  <2>. QED  BY <2>1, <2>5, <2>6 DEF u
<1>. QED  BY <1>2, <1>3

\* The reloaded mirror is one entry for each row: coalesced, the mirror.
LEMMA CoalesceReloaded ==
  ASSUME NEW s \in Batch
  PROVE  Coalesce([i \in DOMAIN s |-> <<s[i]>>]) = s
<1> DEFINE q == [i \in DOMAIN s |-> <<s[i]>>]
           n == Len(s)
<1>1. /\ s \in Seq(Msgs) /\ DOMAIN s = 1..n /\ n \in Nat
      /\ \A i \in DOMAIN s : s[i] \in Msgs
  BY InRange DEF Batch
<1>2. q \in Seq(Batch) /\ DOMAIN q = 1..n /\ \A i \in 1..n : q[i] = <<s[i]>>
  BY <1>1, Reloaded
<1> HIDE DEF q
<1>3. Len(q) = n  BY <1>1, <1>2, LenProperties
<1>4. CASE n = 0
  <2>1. Coalesce(q) = <<>>  BY <1>3, <1>4 DEF Coalesce, FlattenSeq
  <2>2. s = <<>>  BY <1>1, <1>4, EmptySeq
  <2>. QED  BY <2>1, <2>2 DEF q
<1>5. CASE n # 0
  <2> DEFINE f == [i \in 1..n |-> SubSeq(s, 1, i)]
  <2>1. Flattening(q, f)
    <3>1. ASSUME NEW i \in 1..n PROVE f[i] \in Batch /\ Len(f[i]) = i /\
                 \A j \in 1..i : f[i][j] = s[j]
      BY <1>1, SubSeqProperties DEF Batch
    <3>2. f \in [1..n -> Batch]
      <4>1. f = [i \in 1..n |-> f[i]]  OBVIOUS
      <4> HIDE DEF f
      <4>. QED  BY <3>1, <4>1
    <3>3. f[1] = q[1]
      <4>1. 1 \in 1..n  BY <1>1, <1>5
      <4>2. /\ f[1] \in Seq(Msgs) /\ Len(f[1]) = 1 /\ f[1][1] = s[1] /\ s[1] \in Msgs
        BY <1>1, <3>1, <4>1 DEF Batch
      <4> DEFINE b == <<s[1]>>
      <4>3. b \in Seq(Msgs) /\ Len(b) = 1 /\ b[1] = s[1] /\ q[1] = b
        BY <1>2, <4>1, <4>2
      <4> HIDE DEF b, f
      <4>. QED  BY <4>2, <4>3, SeqEqual
    <3>4. ASSUME NEW i \in 1..(n-1) PROVE f[i+1] = f[i] \o q[i+1]
      <4>1. i \in 1..n /\ i+1 \in 1..n /\ s[i+1] \in Msgs  BY <1>1
      <4>2. /\ f[i+1] \in Batch /\ Len(f[i+1]) = i+1 /\ f[i] \in Batch /\ Len(f[i]) = i
            /\ \A j \in 1..(i+1) : f[i+1][j] = s[j]
            /\ \A j \in 1..i : f[i][j] = s[j]
        BY <3>1, <4>1
      <4>3. q[i+1] = <<s[i+1]>>  BY <1>2, <4>1
      <4> DEFINE m == s[i+1]
      <4>4. f[i] \o q[i+1] = Append(f[i], m)
        <5> HIDE DEF f
        <5>. QED  BY <4>1, <4>2, <4>3, AppendIsConcat DEF Batch
      <4>5. /\ Append(f[i], m) \in Batch /\ Len(Append(f[i], m)) = i+1
            /\ \A j \in 1..i : Append(f[i], m)[j] = f[i][j]
            /\ Append(f[i], m)[i+1] = m
        <5>1. m \in Msgs  BY <4>1
        <5> HIDE DEF f, m
        <5>2. PICK u : u = f[i]  OBVIOUS
        <5>3. u \in Batch /\ Len(u) = i  BY <4>2, <5>2
        <5>4. /\ Append(u, m) \in Batch /\ Len(Append(u, m)) = Len(u) + 1
              /\ \A j \in 1..Len(u) : Append(u, m)[j] = u[j]
              /\ Append(u, m)[Len(u)+1] = m
          BY <5>1, <5>3, OneMore
        <5>. QED  BY <5>2, <5>3, <5>4
      <4>6. \A j \in 1..(i+1) : f[i+1][j] = Append(f[i], m)[j]
        <5> SUFFICES ASSUME NEW j \in 1..(i+1) PROVE f[i+1][j] = Append(f[i], m)[j]
          OBVIOUS
        <5>1. CASE j \in 1..i
          <6> HIDE DEF f
          <6>. QED  BY <4>2, <4>5, <5>1
        <5>2. CASE j = i+1
          <6> HIDE DEF f
          <6>. QED  BY <4>2, <4>5, <5>2
        <5>. QED  BY <5>1, <5>2
      <4> HIDE DEF f, m
      <4>. QED  BY <4>2, <4>4, <4>5, <4>6, SeqEqual DEF Batch
    <3> HIDE DEF f
    <3>. QED  BY <1>3, <3>2, <3>3, <3>4 DEF Flattening
  <2>2. f[n] = s
    <3>1. f[n] = SubSeq(s, 1, n)  BY <1>1, <1>5
    <3>2. SubSeq(s, 1, n) = s  BY <1>1, SubSeqFull
    <3>. QED  BY <3>1, <3>2
  <2>3. q # <<>>
    <3>1. q = <<>> => Len(q) = 0  BY EmptySeq, Zenon
    <3>. QED  BY <1>3, <1>5, <3>1
  <2> HIDE DEF f
  <2>4. Coalesce(q) = f[n]  BY <1>2, <1>3, <2>1, <2>3, FlatteningIs
  <2>. QED  BY <2>2, <2>4 DEF q
<1>. QED  BY <1>4, <1>5

\* What coalesces out of what the steps leave of the queue.
LEMMA CoalesceNone == Coalesce(<<>>) = <<>>
BY DEF Coalesce, FlattenSeq

LEMMA CoalesceBack ==
  ASSUME NEW b \in Batch
  PROVE  Coalesce(<<b>>) = b
<1> DEFINE q == <<b>>
<1>1. q \in Seq(Batch) /\ Len(q) = 1 /\ q[1] = b  OBVIOUS
<1> HIDE DEF q
<1>2. Coalesce(q) = b  BY <1>1, CoalesceOne
<1>. QED  BY <1>2 DEF q

-----------------------------------------------------------------------------
(* 4. Every step is one of the moves                                       *)

\* A step that moves no message.
LEMMA NothingMoves ==
  ASSUME UNCHANGED <<accepted, given, restarts, mirror, queue, hand>>,
         at = "clear" => at' = "clear", Unplaced' => Unplaced /\ UNCHANGED lock
  PROVE  Drops
BY DEF Drops

\* The holder leaves the lock.
LEMMA HolderLeaves ==
  ASSUME NEW r, Release(r)
  PROVE  hand' = <<>> /\ ~Unplaced'
<1>1. lock' = "nobody"  BY DEF Release
<1>2. "nobody" \notin Msgs  BY DeliveryAssumption DEF DeliveryAssumption
<1>. QED  BY <1>1, <1>2 DEF Release, Unplaced

\* The steps of the holder.
LEMMA HolderMoves ==
  ASSUME TypeInv, HolderInv, HolderStep
  PROVE  Drops \/ Takes \/ Injects \/ Places \/ Drains \/ HandsOver \/ PutsBack
<1>0. LockInv /\ HandInv /\ LockTypes /\ StoreTypes /\ GivenTypes /\ LifeInv
  BY TypeParts DEF HolderInv
<1>1. CASE LoginFine \/ LoginDue \/ LoginTake \/ Recheck \/ Checkpointed
           \/ StartTurn \/ HandOffFails
  <2>1. UNCHANGED <<accepted, given, restarts, mirror, queue, hand, lock, direct>>
    BY <1>1
    DEF LoginFine, LoginDue, LoginTake, Recheck, Checkpointed, StartTurn,
        HandOffFails, Goto, storeVars, bookVars
  <2>2. at # "clear" /\ (at \in Placed => at' \in Placed)
    BY <1>1
    DEF LoginFine, LoginDue, LoginTake, Recheck, Checkpointed, StartTurn,
        HandOffFails, Goto, Placed, Delivering
  <2>3. Unplaced' => Unplaced /\ UNCHANGED lock  BY <2>1, <2>2 DEF Unplaced
  <2>. QED  BY <2>1, <2>2, <2>3, NothingMoves
<1>2. CASE Route
  <2>1. /\ at = "route" /\ lock \in Msgs /\ hand = <<>>
        /\ UNCHANGED <<accepted, given, restarts, mirror, queue, lock>>
    BY <1>0, <1>2 DEF Route, storeVars, LockInv, HandInv, LockTypes, Delivering
  <2>2. Unplaced  BY <2>1 DEF Unplaced, Placed, Delivering
  <2>3. hand' = <<lock>> \/ hand' = <<>>  BY <1>2 DEF Route
  <2>4. CASE hand' = <<lock>>  BY <2>1, <2>2, <2>4 DEF Takes
  <2>5. CASE hand' = <<>>  BY <2>1, <2>2, <2>5, NothingMoves
  <2>. QED  BY <2>3, <2>4, <2>5
<1>3. CASE RouteFails \/ Report \/ (SenderFlush /\ queue = <<>>)
  <2>1. \E r \in SendState : Release(r)
    BY <1>3 DEF RouteFails, Report, SenderFlush, SendState
  <2>2. UNCHANGED <<accepted, given, restarts, mirror, queue>>
    BY <1>3 DEF RouteFails, Report, SenderFlush, storeVars, bookVars
  <2>. QED  BY <2>1, <2>2, HolderLeaves DEF Drops
<1>4. CASE Inject
  <2>1. at = "inject" /\ lock \in Msgs /\ mode = "Live" /\ Release("sent")
    BY <1>0, <1>4 DEF Inject, LockInv, LockTypes, Delivering
  <2>2. Unplaced  BY <2>1 DEF Unplaced, Placed, Delivering
  <2>. QED  BY <1>4, <2>1, <2>2, HolderLeaves DEF Inject, Injects
<1>5. CASE InjectFails \/ Hold \/ EnqueueAndFlush
  <2>1. /\ lock \in Msgs /\ PersistAndEnqueue(lock) /\ hand = <<>> /\ ~direct
        /\ UNCHANGED <<hand, direct, accepted, given, restarts>>
        /\ at \notin Placed /\ at' \in Placed
    BY <1>0, <1>5
    DEF InjectFails, Hold, EnqueueAndFlush, Goto, LockInv, HandInv, Delivering,
        Placed, LockTypes, bookVars
  <2>2. Unplaced /\ ~Unplaced'  BY <2>1 DEF Unplaced
  <2>. QED  BY <2>1, <2>2 DEF Places
<1>6. CASE SenderFlush /\ queue # <<>>
  <2>1. /\ DrainCoalesced /\ at' = "checkpoint" /\ ~direct'
        /\ UNCHANGED <<mirror, accepted, given, restarts>>
    BY <1>6 DEF SenderFlush, bookVars
  <2>2. ~Unplaced'  BY <2>1 DEF Unplaced, Placed, Delivering
  <2>. QED  BY <2>1, <2>2 DEF Drains, DrainCoalesced
<1>7. CASE HandOff
  <2>1. /\ UNCHANGED <<accepted, restarts, mirror, queue>> /\ at = "handoff"
        /\ given' = given \o hand /\ queue = <<>>
    BY <1>0, <1>7 DEF HandOff, storeVars, HandInv, Delivering
  <2>2. CASE direct  BY <1>7, <2>1, <2>2, HolderLeaves DEF HandOff, HandsOver
  <2>3. CASE ~direct
    <3>1. hand' = hand /\ at' = "clear" /\ UNCHANGED direct
      BY <1>7, <2>3 DEF HandOff, Goto
    <3>2. ~Unplaced'  BY <2>3, <3>1 DEF Unplaced, Placed, Delivering
    <3>. QED  BY <2>1, <3>1, <3>2 DEF HandsOver
  <2>. QED  BY <2>2, <2>3
<1>8. CASE Requeue
  <2>1. /\ UNCHANGED <<accepted, given, restarts>> /\ at = "failed"
        /\ hand' = <<>> /\ ~direct'
    BY <1>8 DEF Requeue
  <2>2. CASE direct
    <3>1. lock \in Msgs /\ PersistAndEnqueue(lock) /\ at' = "flush"
      BY <1>0, <1>8, <2>2 DEF Requeue, HandInv
    <3>2. Unplaced /\ ~Unplaced'
      BY <2>1, <2>2, <3>1 DEF Unplaced, Placed, Delivering
    <3>. QED  BY <2>1, <3>1, <3>2 DEF Places
  <2>3. CASE ~direct
    <3>1. queue' = <<hand>> /\ UNCHANGED mirror
      BY <1>0, <1>8, <2>3, Requeued DEF Requeue
    <3>2. lock' = "nobody" \/ at' = "report"
      BY <1>8, <2>3 DEF Requeue
    <3>3. ~Unplaced'
      BY <2>1, <3>2, DeliveryAssumption DEF Unplaced, Placed, DeliveryAssumption
    <3>. QED  BY <2>1, <3>1, <3>3 DEF PutsBack
  <2>. QED  BY <2>2, <2>3
<1>9. CASE ClearDelivered
  <2>1. queue = <<>> /\ UNCHANGED <<accepted, given, restarts, queue>>
    BY <1>0, <1>9 DEF ClearDelivered, HandInv, Delivering, bookVars
  <2>2. mirror' = <<>>
    BY <1>9, <2>1, MembersOfNone DEF ClearDelivered, RowsExcept
  <2>. QED  BY <1>9, <2>1, <2>2, HolderLeaves DEF ClearDelivered, Drops
<1>. QED
  BY <1>1, <1>2, <1>3, <1>4, <1>5, <1>6, <1>7, <1>8, <1>9 DEF HolderStep

\* Every step.
LEMMA Moves ==
  ASSUME TypeInv, HolderInv, Next
  PROVE  /\ UNCHANGED mode
         /\ \/ \E m \in Msgs : Joins(m)
            \/ Drops \/ Takes \/ Injects \/ Places \/ Drains \/ HandsOver
            \/ PutsBack \/ Reloads
<1>m. UNCHANGED mode
  BY DEF Next, SendStep, Send, Acquire, HolderStep, LoginFine, LoginDue, LoginTake,
     Route, RouteFails, Inject, InjectFails, Hold, Recheck, EnqueueAndFlush, Report,
     SenderFlush, Checkpointed, StartTurn, HandOff, HandOffFails, Requeue,
     ClearDelivered, TaskFlush, TurnStep, TurnEnd, TurnEndUnseen, TurnEndRespawn,
     TurnEndQueue, StreamOpens, Stop, ProcessStep, Die, TurnCrash, Resume, Revive, Refused,
     ResumeBy, AskRespawn, Respawn, RespawnSettles, Restart, Launch, LaunchFails,
     Claim, StartDrain,
     Started, SpawnTimeout, Exit, ArchiveStep, Detach, Archived, Archive, HostRestart
<1> SUFFICES \/ \E m \in Msgs : Joins(m)
             \/ Drops \/ Takes \/ Injects \/ Places \/ Drains \/ HandsOver
             \/ PutsBack \/ Reloads
  BY <1>m
<1>0. LockInv /\ HandInv /\ LockTypes /\ StoreTypes /\ GivenTypes /\ LifeInv
  BY TypeParts DEF HolderInv
<1>1. ASSUME NEW m \in Msgs, SendStep(m) PROVE Drops \/ Joins(m)
  <2>1. CASE Send(m)
    BY <2>1, NothingMoves DEF Send, lockVars, storeVars, bookVars, Unplaced
  <2>2. CASE Acquire(m) /\ Reserved
    BY <2>2, NothingMoves DEF Acquire, storeVars, Unplaced
  <2>3. CASE Acquire(m) /\ ~Reserved
    BY <1>0, <2>3 DEF Acquire, Joins, storeVars, LockInv, HandInv, Delivering
  <2>. QED  BY <1>1, <2>1, <2>2, <2>3 DEF SendStep
<1>2. CASE TaskFlush
  <2>1. CASE Reserved \/ queue = <<>>
    BY <1>2, <2>1, NothingMoves DEF TaskFlush, bookVars, Unplaced
  <2>2. CASE ~(Reserved \/ queue = <<>>)
    <3>1. /\ DrainCoalesced /\ at' = "checkpoint" /\ ~direct'
          /\ UNCHANGED <<mirror, accepted, given, restarts>>
      BY <1>2, <2>2 DEF TaskFlush, bookVars
    <3>2. ~Unplaced'  BY <3>1 DEF Unplaced, Placed, Delivering
    <3>. QED  BY <3>1, <3>2 DEF Drains, DrainCoalesced
  <2>. QED  BY <2>1, <2>2
<1>3. CASE TurnStep
  BY <1>3, NothingMoves
  DEF TurnStep, TurnEnd, TurnEndUnseen, TurnEndRespawn, TurnEndQueue, StreamOpens,
      Stop, lockVars, storeVars, bookVars, Unplaced
<1>4. CASE ProcessStep
  <2>1. UNCHANGED <<accepted, given, restarts, mirror, queue, hand, lock, direct>>
    BY <1>4
    DEF ProcessStep, Die, TurnCrash, Resume, Revive, Refused, ResumeBy, AskRespawn, Respawn,
        RespawnSettles, Restart, Launch, LaunchFails,
        Claim, StartDrain, Started, SpawnTimeout, Exit,
        EndStart, storeVars, lockVars, bookVars
  <2>2. at' = at \/ (at = "relaunch" /\ at' = "route")
    BY <1>0, <1>4
    DEF ProcessStep, Die, TurnCrash, Resume, Revive, Refused, ResumeBy, AskRespawn, Respawn,
        RespawnSettles, Restart, Launch, LaunchFails,
        Claim, StartDrain, Started, SpawnTimeout, Exit,
        EndStart, lockVars, LifeInv
  <2>3. Unplaced' => Unplaced /\ UNCHANGED lock
    BY <2>1, <2>2 DEF Unplaced, Placed, Delivering
  <2>. QED  BY <2>1, <2>2, <2>3, NothingMoves
<1>5. CASE Detach
  BY <1>5 DEF Detach, Drops, lockVars, bookVars, Unplaced
<1>6. CASE Archived \/ \E trigger \in {"User", "Sweep"} : Archive(trigger)
  BY <1>6, NothingMoves DEF Archived, Archive, lockVars, storeVars, bookVars, Unplaced
<1>7. CASE HostRestart
  <2>1. lock' = "nobody" /\ "nobody" \notin Msgs
    BY <1>7, DeliveryAssumption DEF HostRestart, DeliveryAssumption
  <2>2. ~Unplaced'  BY <2>1 DEF Unplaced
  <2>. QED  BY <1>7, <2>2 DEF HostRestart, Reloads
<1>. QED
  BY <1>1, <1>2, <1>3, <1>4, <1>5, <1>6, <1>7, HolderMoves DEF Next, ArchiveStep

-----------------------------------------------------------------------------
(* 5. The order of the routing                                             *)

\* A send is routed once, and is the last of the order while it has the lock.
LEMMA AcceptStep ==
  ASSUME TypeInv, HolderInv, AcceptInv, Next
  PROVE  AcceptInv'
<1>0. LockInv /\ LockTypes /\ SendTypes /\ GivenTypes /\ accepted \in Batch
  BY TypeParts DEF HolderInv, GivenTypes, Batch
<1>1. ASSUME UNCHANGED accepted, lock' \in Msgs => lock' = lock,
             \A m \in Msgs : sender'[m] \in {"new", "waiting"} =>
                             sender[m] \in {"new", "waiting"}
      PROVE  AcceptInv'
  BY <1>1 DEF AcceptInv
<1>2. ASSUME NEW m \in Msgs, SendStep(m) PROVE AcceptInv'
  <2>1. CASE Send(m)
    BY <1>0, <1>1, <2>1 DEF Send, lockVars, bookVars, SendTypes
  <2>2. CASE Acquire(m) /\ Reserved
    BY <1>0, <1>1, <2>2 DEF Acquire, SendTypes
  <2>3. CASE Acquire(m) /\ ~Reserved
    <3>1. /\ accepted' = Append(accepted, m) /\ lock' = m /\ sender[m] = "waiting"
          /\ sender' = [sender EXCEPT ![m] = "routing"]
      BY <2>3 DEF Acquire
    <3>2. m \notin Range(accepted)  BY <3>1 DEF AcceptInv
    <3>3. IsInjective(accepted')  BY <1>0, <3>1, <3>2, TurnJoins DEF AcceptInv
    <3>4. /\ Range(accepted') = Range(accepted) \cup {m} /\ accepted' # <<>>
          /\ accepted'[Len(accepted')] = m
      BY <1>0, <3>1, OneMore
    <3>5. \A n \in Msgs : sender'[n] \in {"new", "waiting"} => n \notin Range(accepted')
      BY <1>0, <3>1, <3>4 DEF SendTypes, AcceptInv
    <3>. QED  BY <3>1, <3>3, <3>4, <3>5 DEF AcceptInv
  <2>. QED  BY <1>2, <2>1, <2>2, <2>3 DEF SendStep
<1>3. CASE HolderStep
  <2>1. UNCHANGED accepted
    BY <1>3
    DEF HolderStep, LoginFine, LoginDue, LoginTake, Route, RouteFails, Inject,
        InjectFails, Hold, Recheck, EnqueueAndFlush, Report, SenderFlush,
        Checkpointed, StartTurn, HandOff, HandOffFails, Requeue, ClearDelivered,
        bookVars
  <2>2. /\ UNCHANGED <<lock, sender>> \/ (lock' = "nobody" /\ UNCHANGED sender)
           \/ \E r \in {"sent", "held", "failed"} : Release(r)
    BY <1>3
    DEF HolderStep, LoginFine, LoginDue, LoginTake, Route, RouteFails, Inject,
        InjectFails, Hold, Recheck, EnqueueAndFlush, Report, SenderFlush,
        Checkpointed, StartTurn, HandOff, HandOffFails, Requeue, ClearDelivered,
        Goto
  <2>3. ASSUME NEW r \in {"sent", "held", "failed"}, Release(r)
        PROVE  /\ lock' = "nobody"
               /\ \A m \in Msgs : sender'[m] \in {"new", "waiting"} =>
                                  sender[m] \in {"new", "waiting"}
    BY <1>0, <2>3 DEF Release, SendTypes
  <2>. QED
    BY <1>1, <2>1, <2>2, <2>3, DeliveryAssumption DEF DeliveryAssumption
<1>4. CASE TaskFlush
  <2>1. /\ UNCHANGED <<accepted, sender>> /\ lock' \in {lock, "flush"}
    BY <1>4 DEF TaskFlush, bookVars
  <2>. QED  BY <1>1, <2>1, DeliveryAssumption DEF DeliveryAssumption
<1>5. CASE TurnStep \/ ProcessStep \/ ArchiveStep
  <2>1. UNCHANGED <<accepted, sender, lock>>
    BY <1>5
    DEF TurnStep, TurnEnd, TurnEndUnseen, TurnEndRespawn, TurnEndQueue, StreamOpens,
        Stop, ProcessStep, Die, TurnCrash, Resume, Revive, Refused, ResumeBy, AskRespawn,
        Respawn, RespawnSettles, Restart, Launch, LaunchFails, Claim, StartDrain, Started,
        SpawnTimeout, Exit, EndStart, ArchiveStep, Detach, Archived, Archive,
        lockVars, bookVars
  <2>. QED  BY <1>1, <2>1
<1>6. CASE HostRestart
  <2>1. /\ UNCHANGED accepted /\ lock' = "nobody"
        /\ \A m \in Msgs : sender'[m] \in {"new", "waiting"} =>
                           sender[m] \in {"new", "waiting"}
    BY <1>6 DEF HostRestart
  <2>. QED  BY <1>1, <2>1, DeliveryAssumption DEF DeliveryAssumption
<1>. QED  BY <1>2, <1>3, <1>4, <1>5, <1>6 DEF Next

-----------------------------------------------------------------------------
(* 6. Mirror, queue and hand follow it                                     *)

\* A message that joins the order is nowhere yet.
LEMMA LineJoins ==
  ASSUME TypeInv, AcceptInv, LineInv, NEW m \in Msgs, Joins(m)
  PROVE  LineInv'
<1> DEFINE a == accepted
           c == Coalesce(queue)
<1>0. /\ a \in Batch /\ IsInjective(a) /\ m \notin Range(a)
      /\ mirror \in Batch /\ hand \in Batch /\ queue \in Seq(Batch)
  BY TypeParts DEF AcceptInv, Joins, GivenTypes, StoreTypes, LockTypes, Batch
<1>1. c \in Batch /\ Range(c) = Members(queue)  BY <1>0, CoalesceHolds
<1>2. /\ accepted' = Append(a, m) /\ lock' = m
      /\ UNCHANGED <<given, mirror, queue, hand>>
  BY DEF Joins
<1>3. Range(accepted') = Range(a) \cup {m}  BY <1>0, <1>2, OneMore
<1>4. /\ Follows(mirror, a) /\ Follows(hand, a) /\ Follows(c, a)
      /\ Range(given) \cup Range(mirror) \cup Members(queue) \cup Range(hand)
           \subseteq Range(a)
  BY DEF LineInv
<1> HIDE DEF a, c
<1>5. Follows(mirror, accepted') /\ Follows(hand, accepted') /\ Follows(c, accepted')
  BY <1>0, <1>1, <1>2, <1>4, FollowsLater
<1>6. Follows(Coalesce(queue), accepted')  BY <1>5 DEF c
<1>7. m \notin Range(given) \cup Range(mirror) \cup Members(queue)
  BY <1>0, <1>4
<1>. QED  BY <1>2, <1>3, <1>4, <1>5, <1>6, <1>7 DEF LineInv

\* The message being sent is placed at the end of queue and mirror.
LEMMA LinePlaces ==
  ASSUME TypeInv, AcceptInv, LineInv, Places
  PROVE  LineInv'
<1> DEFINE a == accepted
           c == Coalesce(queue)
           b == <<lock>>
<1>0. /\ a \in Batch /\ IsInjective(a) /\ a # <<>> /\ lock \in Msgs /\ lock = a[Len(a)]
      /\ mirror \in Batch /\ queue \in Seq(Batch) /\ lock \in Range(a)
  <2>1. a \in Batch /\ mirror \in Batch /\ queue \in Seq(Batch)
    BY TypeParts DEF GivenTypes, StoreTypes, Batch
  <2>2. lock \in Msgs /\ IsInjective(a) /\ a # <<>> /\ lock = a[Len(a)]
    BY DEF AcceptInv, Places, Unplaced
  <2>3. Len(a) \in DOMAIN a
    BY <2>1, <2>2, LenProperties, EmptySeq DEF Batch
  <2>4. lock \in Range(a)  BY <2>1, <2>2, <2>3, InRange
  <2>. QED  BY <2>1, <2>2, <2>4
<1>1. c \in Batch /\ Range(c) = Members(queue)  BY <1>0, CoalesceHolds
<1>2. b \in Batch /\ Range(b) = {lock}  BY <1>0, Single
<1>3. /\ mirror' = Append(mirror, lock) /\ queue' = Append(queue, b)
      /\ hand' = <<>> /\ UNCHANGED <<accepted, given>> /\ ~Unplaced'
  BY DEF Places, PersistAndEnqueue
<1>4. /\ Follows(mirror, a) /\ Follows(c, a)
      /\ Range(given) \cup Range(mirror) \cup Members(queue) \subseteq Range(a)
      /\ lock \notin Range(mirror) \cup Members(queue)
  BY DEF LineInv, Places
<1>5. Append(c, lock) = c \o b  BY <1>0, <1>1, AppendIsConcat DEF Batch
<1> HIDE DEF a, b, c
<1>6. Coalesce(queue') = Append(c, lock)
  BY <1>0, <1>2, <1>3, <1>5, CoalesceJoins DEF c
<1>7. Follows(mirror', a) /\ Follows(Coalesce(queue'), a)
  BY <1>0, <1>1, <1>3, <1>4, <1>6, FollowsAppended
<1>8. /\ Range(mirror') = Range(mirror) \cup {lock}
      /\ Members(queue') = Members(queue) \cup {lock}
  <2>1. Range(Append(mirror, lock)) = Range(mirror) \cup {lock}  BY <1>0, OneMore
  <2>2. Members(Append(queue, b)) = Members(queue) \cup Range(b)
    BY <1>0, <1>2, MembersOfAppend
  <2>. QED  BY <1>2, <1>3, <2>1, <2>2
<1>9. Follows(hand', a) /\ Range(hand') = {}
  BY <1>3, FollowsShort, MembersOfNone
<1>. QED
  BY <1>0, <1>3, <1>4, <1>7, <1>8, <1>9 DEF LineInv, a

\* Every move keeps them in order.
LEMMA LineStep ==
  ASSUME TypeInv, HolderInv, AcceptInv, LineInv, Next
  PROVE  LineInv'
<1> DEFINE a == accepted
           c == Coalesce(queue)
<1>0. /\ a \in Batch /\ mirror \in Batch /\ hand \in Batch /\ queue \in Seq(Batch)
      /\ given \in Batch
  BY TypeParts DEF GivenTypes, StoreTypes, LockTypes, Batch
<1>1. c \in Batch /\ Range(c) = Members(queue)  BY <1>0, CoalesceHolds
<1>2. /\ Follows(mirror, a) /\ Follows(hand, a) /\ Follows(c, a)
      /\ Range(given) \cup Range(mirror) \cup Members(queue) \cup Range(hand)
           \subseteq Range(a)
      /\ Unplaced => lock \notin Range(given) \cup Range(mirror) \cup Members(queue)
  BY DEF LineInv
<1>3. /\ Follows(<<>>, a) /\ Range(<<>>) = {} /\ Members(<<>>) = {}
      /\ Coalesce(<<>>) = <<>>
  BY FollowsShort, MembersOfNone, CoalesceNone
<1>4. ASSUME Unplaced
      PROVE  lock \in Msgs /\ lock \in Range(a)
  <2>1. lock \in Msgs /\ a # <<>> /\ lock = a[Len(a)]
    BY <1>4 DEF AcceptInv, Unplaced
  <2>2. Len(a) \in DOMAIN a  BY <1>0, <2>1, LenProperties, EmptySeq DEF Batch
  <2>. QED  BY <1>0, <2>1, <2>2, InRange
<1>5. ASSUME UNCHANGED accepted,
             Follows(mirror', a), Follows(hand', a), Follows(Coalesce(queue'), a),
             Range(given') \cup Range(mirror') \cup Members(queue') \cup Range(hand')
               \subseteq Range(a),
             Unplaced' => lock' \notin Range(given') \cup Range(mirror') \cup Members(queue')
      PROVE  LineInv'
  BY <1>5 DEF LineInv
<1> HIDE DEF a
<1>6. CASE \E m \in Msgs : Joins(m)  BY <1>6, LineJoins
<1>7. CASE Drops
  <2>1. /\ UNCHANGED <<accepted, given>>
        /\ mirror' \in {mirror, <<>>} /\ queue' \in {queue, <<>>} /\ hand' \in {hand, <<>>}
        /\ Unplaced' => Unplaced /\ lock' = lock
    BY <1>7 DEF Drops
  <2>2. Follows(mirror', a) /\ Range(mirror') \subseteq Range(mirror)
    BY <1>2, <1>3, <2>1
  <2>3. Follows(hand', a) /\ Range(hand') \subseteq Range(hand)
    BY <1>2, <1>3, <2>1
  <2>4. Follows(Coalesce(queue'), a) /\ Members(queue') \subseteq Members(queue)
    BY <1>2, <1>3, <2>1
  <2>. QED  BY <1>2, <1>5, <2>1, <2>2, <2>3, <2>4
<1>8. CASE Takes
  <2>1. /\ UNCHANGED <<accepted, given, mirror, queue, lock>> /\ Unplaced
        /\ hand' = <<lock>>
    BY <1>8 DEF Takes
  <2>2. Follows(hand', a) /\ Range(hand') = {lock} /\ lock \in Range(a)
    BY <1>4, <2>1, FollowsShort, Single
  <2>3. Follows(Coalesce(queue'), a)  BY <1>2, <2>1
  <2>. QED  BY <1>2, <1>5, <2>1, <2>2, <2>3
<1>9. CASE Injects
  <2>1. /\ UNCHANGED <<accepted, mirror, queue>> /\ Unplaced /\ ~Unplaced'
        /\ given' = Append(given, lock) /\ hand' = <<>>
    BY <1>9 DEF Injects
  <2>2. Range(given') = Range(given) \cup {lock} /\ lock \in Range(a)
    BY <1>0, <1>4, <2>1, OneMore
  <2>3. Follows(Coalesce(queue'), a)  BY <1>2, <2>1
  <2>. QED  BY <1>2, <1>3, <1>5, <2>1, <2>2, <2>3
<1>10. CASE Places  BY <1>10, LinePlaces
<1>11. CASE Drains
  <2>1. /\ UNCHANGED <<accepted, given, mirror>> /\ ~Unplaced' /\ hand' = c
        /\ queue' = <<>>
    BY <1>11 DEF Drains
  <2>. QED  BY <1>1, <1>2, <1>3, <1>5, <2>1
<1>12. CASE HandsOver
  <2>1. /\ UNCHANGED <<accepted, mirror, queue>> /\ ~Unplaced' /\ hand' \in {<<>>, hand}
        /\ given' = given \o hand
    BY <1>12 DEF HandsOver
  <2>2. Range(given') = Range(given) \cup Range(hand)
    BY <1>0, <2>1, RangeOfConcat DEF Batch
  <2>3. Follows(Coalesce(queue'), a)  BY <1>2, <2>1
  <2>4. Follows(hand', a) /\ Range(hand') \subseteq Range(hand)
    BY <1>2, <1>3, <2>1
  <2>. QED  BY <1>2, <1>5, <2>1, <2>2, <2>3, <2>4
<1>13. CASE PutsBack
  <2>1. /\ UNCHANGED <<accepted, given, mirror>> /\ ~Unplaced' /\ hand' = <<>>
        /\ queue' = <<hand>>
    BY <1>13 DEF PutsBack
  <2>2. Coalesce(queue') = hand /\ Members(queue') = Range(hand)
    BY <1>0, <2>1, CoalesceBack, MembersOfOne
  <2>. QED  BY <1>2, <1>3, <1>5, <2>1, <2>2
<1>14. CASE Reloads
  <2>1. /\ UNCHANGED <<accepted, given, mirror>> /\ ~Unplaced' /\ hand' = <<>>
        /\ queue' \in {<<>>, [i \in DOMAIN mirror |-> <<mirror[i]>>]}
    BY <1>14 DEF Reloads
  <2>2. Follows(Coalesce(queue'), a) /\ Members(queue') \subseteq Range(mirror)
    <3> DEFINE q == [i \in DOMAIN mirror |-> <<mirror[i]>>]
    <3>1. Coalesce(q) = mirror /\ Members(q) = Range(mirror)
      BY <1>0, CoalesceReloaded, Reloaded DEF Batch
    <3> HIDE DEF q
    <3>2. queue' = <<>> \/ queue' = q  BY <2>1 DEF q
    <3>. QED  BY <1>2, <1>3, <3>1, <3>2
  <2>. QED  BY <1>2, <1>3, <1>5, <2>1, <2>2
<1>. QED
  BY <1>6, <1>7, <1>8, <1>9, <1>10, <1>11, <1>12, <1>13, <1>14, Moves

-----------------------------------------------------------------------------
(* 7. What is still to be handed over                                      *)

\* The moves add the message being sent at most, and take what is given away.
LEMMA AheadMoves ==
  ASSUME TypeInv, LineInv
  PROVE  /\ (\E m \in Msgs : Joins(m)) \/ Drops \/ Drains \/ PutsBack =>
               Ahead' \subseteq Ahead
         /\ Takes \/ Places => Ahead' \subseteq Ahead \cup {lock}
         /\ Injects => Ahead' \subseteq Ahead /\ lock \notin Ahead'
         /\ HandsOver => Ahead' = {} /\ Range(hand) \subseteq Ahead
<1>0. hand \in Batch /\ queue \in Seq(Batch)
  BY TypeParts DEF StoreTypes, LockTypes
<1>1. Range(<<>>) = {} /\ Members(<<>>) = {}  BY MembersOfNone
<1>2. ASSUME NEW m \in Msgs, Joins(m) PROVE Ahead' \subseteq Ahead
  BY <1>1, <1>2 DEF Joins, Ahead
<1>3. ASSUME Drops PROVE Ahead' \subseteq Ahead
  BY <1>1, <1>3 DEF Drops, Ahead
<1>4. ASSUME Drains PROVE Ahead' \subseteq Ahead
  <2>1. Range(hand') = Members(queue) /\ Members(queue') = {}
    BY <1>0, <1>1, <1>4, CoalesceHolds DEF Drains
  <2>. QED  BY <2>1 DEF Ahead
<1>5. ASSUME PutsBack PROVE Ahead' \subseteq Ahead
  <2>1. Members(queue') = Range(hand) /\ Range(hand') = {} /\ at # "clear"
    BY <1>0, <1>1, <1>5, MembersOfOne DEF PutsBack
  <2>. QED  BY <2>1 DEF Ahead
<1>6. ASSUME Takes PROVE Ahead' \subseteq Ahead \cup {lock}
  <2>1. Range(hand') = {lock} /\ UNCHANGED queue
    BY <1>6, Single DEF Takes, Unplaced
  <2>. QED  BY <2>1 DEF Ahead
<1>7. ASSUME Places PROVE Ahead' \subseteq Ahead \cup {lock}
  <2>1. lock \in Msgs  BY <1>7 DEF Places, Unplaced
  <2>2. Members(queue') = Members(queue) \cup {lock} /\ Range(hand') = {}
    BY <1>1, <1>7, <2>1, Enqueued DEF Places
  <2>. QED  BY <2>2 DEF Ahead
<1>8. ASSUME Injects PROVE Ahead' \subseteq Ahead /\ lock \notin Ahead'
  BY <1>1, <1>8 DEF Injects, Ahead, LineInv
<1>9. ASSUME HandsOver PROVE Ahead' = {} /\ Range(hand) \subseteq Ahead
  BY <1>1, <1>9 DEF HandsOver, Ahead
<1>. QED  BY <1>2, <1>3, <1>4, <1>5, <1>6, <1>7, <1>8, <1>9

\* What is still to be handed over, and what is being sent, are messages of
\* the order.
LEMMA AheadAccepted ==
  ASSUME TypeInv, LineInv
  PROVE  Ahead \subseteq Range(accepted) /\ Ahead \subseteq Msgs
<1>1. accepted \in Batch  BY TypeParts DEF GivenTypes, Batch
<1>2. Range(accepted) \subseteq Msgs
  <2>1. \A x \in Range(accepted) : \E i \in DOMAIN accepted : accepted[i] = x
    BY <1>1, InRange
  <2>2. \A i \in DOMAIN accepted : accepted[i] \in Msgs  BY <1>1, InRange
  <2>. QED  BY <2>1, <2>2
<1>. QED  BY <1>2 DEF Ahead, LineInv

-----------------------------------------------------------------------------
(* 8. Once for each life of the host                                       *)

\* A message that is not in a sequence does not occur in it.
LEMMA OccursNot ==
  ASSUME NEW s \in Batch, NEW m
  PROVE  /\ IsFiniteSet({i \in DOMAIN s : s[i] = m}) /\ Occurs(s, m) \in Nat
         /\ m \notin Range(s) => Occurs(s, m) = 0
<1> DEFINE P == {i \in DOMAIN s : s[i] = m}
<1>1. DOMAIN s = 1..Len(s) /\ Len(s) \in Nat  BY InRange
<1>2. IsFiniteSet(1..Len(s))  BY <1>1, FS_Interval
<1>3. P \in SUBSET (1..Len(s))  BY <1>1
<1>4. IsFiniteSet(P) /\ Cardinality(P) \in Nat
  BY <1>2, <1>3, FS_Subset, FS_CardinalityType
<1>5. m \notin Range(s) => P = {}  BY InRange
<1>6. P = {} => Cardinality(P) = 0  BY FS_EmptySet
<1>. QED  BY <1>4, <1>5, <1>6 DEF Occurs

\* A sequence that holds nothing twice adds one occurrence at most.
LEMMA OccursOnceMore ==
  ASSUME NEW s \in Batch, NEW t \in Batch, IsInjective(t), NEW m
  PROVE  /\ Occurs(s \o t, m) <= Occurs(s, m) + 1
         /\ m \notin Range(t) => Occurs(s \o t, m) = Occurs(s, m)
<1> DEFINE u == s \o t
           n == Len(s)
           l == Len(t)
           P == {i \in DOMAIN s : s[i] = m}
           Q == {i \in DOMAIN u : u[i] = m}
<1>1. /\ n \in Nat /\ l \in Nat /\ DOMAIN u = 1..(n+l)
      /\ \A i \in 1..n : u[i] = s[i]
      /\ \A i \in (n+1)..(n+l) : u[i] = t[i-n] /\ i-n \in 1..l
  BY PlacesOfConcat
<1>2. /\ DOMAIN s = 1..n /\ DOMAIN t = 1..l
      /\ \A i \in DOMAIN t : t[i] \in Range(t)
      /\ \A x \in Range(t) : \E i \in DOMAIN t : t[i] = x
  BY InRange
<1> HIDE DEF u, n, l
<1>3. IsFiniteSet(P) /\ Cardinality(P) \in Nat /\ Occurs(s, m) = Cardinality(P)
  BY OccursNot DEF Occurs
<1>4. CASE m \notin Range(t)
  <2>1. Q = P
    <3>1. ASSUME NEW i \in Q PROVE i \in P
      <4>1. i \in 1..(n+l) /\ u[i] = m  BY <1>1
      <4>2. i \notin (n+1)..(n+l)
        <5>1. i \in (n+1)..(n+l) => m \in Range(t)  BY <1>1, <1>2, <4>1
        <5>. QED  BY <1>4, <5>1
      <4>3. i \in 1..n  BY <1>1, <4>1, <4>2
      <4>. QED  BY <1>1, <1>2, <4>1, <4>3
    <3>2. ASSUME NEW i \in P PROVE i \in Q
      <4>1. i \in 1..n /\ s[i] = m /\ i \in 1..(n+l)  BY <1>1, <1>2
      <4>. QED  BY <1>1, <4>1
    <3>. QED  BY <3>1, <3>2
  <2>2. Occurs(u, m) = Cardinality(P)  BY <2>1 DEF Occurs
  <2>. QED  BY <1>3, <2>2 DEF u
<1>5. CASE m \in Range(t)
  <2>1. PICK k \in 1..l : t[k] = m  BY <1>2, <1>5
  <2>2. Q \subseteq P \cup {n+k}
    <3> SUFFICES ASSUME NEW i \in Q, i # n+k PROVE i \in P  OBVIOUS
    <3>1. i \in 1..(n+l) /\ u[i] = m  BY <1>1
    <3>2. i \notin (n+1)..(n+l)
      <4> SUFFICES ASSUME i \in (n+1)..(n+l) PROVE FALSE  OBVIOUS
      <4>1. t[i-n] = m /\ i-n \in 1..l  BY <1>1, <3>1
      <4>2. i-n = k  BY <1>2, <2>1, <4>1 DEF IsInjective
      <4>. QED  BY <1>1, <3>1, <4>2
    <3>3. i \in 1..n  BY <1>1, <3>1, <3>2
    <3>. QED  BY <1>1, <1>2, <3>1, <3>3
  <2>3. /\ IsFiniteSet(P \cup {n+k})
        /\ Cardinality(P \cup {n+k}) <= Cardinality(P) + 1
    <3> HIDE DEF P
    <3>. QED  BY <1>3, FS_AddElement
  <2>4. Cardinality(Q) <= Cardinality(P \cup {n+k}) /\ Cardinality(Q) \in Nat
        /\ Cardinality(P \cup {n+k}) \in Nat
    <3> HIDE DEF P, Q
    <3>. QED  BY <2>2, <2>3, FS_Subset, FS_CardinalityType
  <2>5. Occurs(u, m) = Cardinality(Q)  BY DEF Occurs
  <2> HIDE DEF P, Q
  <2>6. Occurs(u, m) <= Occurs(s, m) + 1  BY <1>3, <2>3, <2>4, <2>5
  <2>. QED  BY <1>5, <2>6 DEF u
<1>. QED  BY <1>4, <1>5

\* Every move keeps the counts.
LEMMA CountStep ==
  ASSUME TypeInv, HolderInv, AcceptInv, LineInv, CountInv, Next
  PROVE  CountInv'
<1>0. /\ given \in Batch /\ hand \in Batch /\ mirror \in Batch /\ queue \in Seq(Batch)
      /\ accepted \in Batch /\ restarts \in Nat
  BY TypeParts DEF GivenTypes, StoreTypes, LockTypes, CountTypes, Batch
<1>1. \A m \in Msgs : Occurs(given, m) \in Nat /\ Occurs(given, m) <= 1 + restarts
  BY <1>0, OccursNot DEF CountInv
<1>2. \A m \in Ahead : m \in Msgs /\ Occurs(given, m) <= restarts
  BY AheadAccepted DEF CountInv
<1>3. ASSUME UNCHANGED <<given, restarts>>, Ahead' \subseteq Ahead PROVE CountInv'
  BY <1>1, <1>2, <1>3 DEF CountInv
<1>4. CASE (\E m \in Msgs : Joins(m)) \/ Drops \/ Drains \/ PutsBack
  <2>1. UNCHANGED <<given, restarts>>  BY <1>4 DEF Joins, Drops, Drains, PutsBack
  <2>. QED  BY <1>3, <1>4, <2>1, AheadMoves
<1>5. CASE Takes \/ Places
  <2>1. UNCHANGED <<given, restarts>> /\ Unplaced  BY <1>5 DEF Takes, Places
  <2>2. Occurs(given, lock) <= restarts
    <3>1. lock \notin Range(given)  BY <2>1 DEF LineInv
    <3>2. Occurs(given, lock) = 0  BY <1>0, <3>1, OccursNot
    <3>. QED  BY <1>0, <3>2
  <2>3. Ahead' \subseteq Ahead \cup {lock}  BY <1>5, AheadMoves
  <2>. QED  BY <1>1, <1>2, <2>1, <2>2, <2>3 DEF CountInv
<1>6. CASE Injects
  <2> DEFINE b == <<lock>>
  <2>1. /\ UNCHANGED restarts /\ lock \in Msgs /\ lock \notin Range(given)
        /\ given' = Append(given, lock)
    BY <1>6 DEF Injects, Unplaced, LineInv
  <2>2. b \in Batch /\ Range(b) = {lock} /\ IsInjective(b)
    <3>1. DOMAIN b = {1}  OBVIOUS
    <3>2. IsInjective(b)  BY <3>1 DEF IsInjective
    <3>. QED  BY <2>1, <3>2, Single
  <2>3. given' = given \o b  BY <1>0, <2>1, AppendIsConcat DEF Batch
  <2> HIDE DEF b
  <2>4. \A m \in Msgs : /\ Occurs(given', m) <= Occurs(given, m) + 1
                        /\ m # lock => Occurs(given', m) = Occurs(given, m)
    BY <1>0, <2>2, <2>3, OccursOnceMore
  <2>5. Occurs(given, lock) = 0  BY <1>0, <2>1, OccursNot
  <2>6. Ahead' \subseteq Ahead /\ lock \notin Ahead'  BY <1>6, AheadMoves
  <2>7. given' \in Batch  BY <1>0, <2>1, OneMore
  <2>8. \A m \in Msgs : Occurs(given', m) \in Nat  BY <2>7, OccursNot
  <2>9. ASSUME NEW m \in Msgs PROVE Occurs(given', m) <= 1 + restarts
    <3>1. CASE m = lock  BY <1>0, <2>4, <2>5, <2>8, <3>1
    <3>2. CASE m # lock  BY <1>1, <2>4, <3>2
    <3>. QED  BY <3>1, <3>2
  <2>10. ASSUME NEW m \in Ahead' PROVE Occurs(given', m) <= restarts
    <3>1. m \in Ahead /\ m # lock /\ m \in Msgs  BY <1>2, <2>6
    <3>. QED  BY <1>2, <2>4, <3>1
  <2>. QED  BY <2>1, <2>9, <2>10 DEF CountInv
<1>7. CASE HandsOver
  <2>1. /\ UNCHANGED restarts /\ given' = given \o hand
    BY <1>7 DEF HandsOver
  <2>2. Ahead' = {} /\ Range(hand) \subseteq Ahead  BY <1>7, AheadMoves
  <2>3. IsInjective(hand)  BY <1>0, FollowsOnce DEF AcceptInv, LineInv
  <2>4. \A m \in Msgs : /\ Occurs(given', m) <= Occurs(given, m) + 1
                        /\ m \notin Range(hand) => Occurs(given', m) = Occurs(given, m)
    BY <1>0, <2>1, <2>3, OccursOnceMore
  <2>5. given' \in Batch  BY <1>0, <2>1, PlacesOfConcat
  <2>6. \A m \in Msgs : Occurs(given', m) \in Nat  BY <2>5, OccursNot
  <2>7. ASSUME NEW m \in Msgs PROVE Occurs(given', m) <= 1 + restarts
    <3>1. CASE m \in Range(hand)
      <4>1. Occurs(given, m) <= restarts  BY <1>2, <2>2, <3>1
      <4>. QED  BY <1>0, <1>1, <2>4, <2>6, <4>1
    <3>2. CASE m \notin Range(hand)  BY <1>1, <2>4, <3>2
    <3>. QED  BY <3>1, <3>2
  <2>. QED  BY <2>1, <2>2, <2>7 DEF CountInv
<1>8. CASE Reloads
  <2>1. UNCHANGED given /\ restarts' = restarts + 1 /\ UNCHANGED accepted
    BY <1>8 DEF Reloads
  <2>2. Ahead' \subseteq Msgs
    <3>1. TypeInv' /\ LineInv'  BY TypeStep, LineStep
    <3>2. accepted' \in Batch  BY <1>0, <2>1
    <3>3. Ahead' \subseteq Range(accepted)  BY <2>1, <3>1 DEF Ahead, LineInv
    <3>4. \A x \in Range(accepted) : x \in Msgs  BY <1>0, InRange
    <3>. QED  BY <3>3, <3>4
  <2>3. \A m \in Msgs : Occurs(given, m) <= restarts'  BY <1>0, <1>1, <2>1
  <2>4. \A m \in Msgs : Occurs(given, m) <= 1 + restarts'  BY <1>0, <1>1, <2>1
  <2>. QED  BY <2>1, <2>2, <2>3, <2>4 DEF CountInv
<1>. QED  BY <1>4, <1>5, <1>6, <1>7, <1>8, Moves

-----------------------------------------------------------------------------
(* 9. In the order of the routing                                          *)

\* Every move keeps what was given before what is still to be handed over.
LEMMA OrderStep ==
  ASSUME TypeInv, HolderInv, AcceptInv, LineInv, OrderInv, Next
  PROVE  OrderInv'
<1> DEFINE a == accepted
<1>0. /\ given \in Batch /\ hand \in Batch /\ a \in Batch /\ restarts \in Nat
      /\ IsInjective(a)
  BY TypeParts DEF GivenTypes, LockTypes, CountTypes, Batch, AcceptInv
<1>1. UNCHANGED mode  BY Moves
<1>2. Range(given) \subseteq Range(a) /\ Ahead \subseteq Range(a) /\ Follows(hand, a)
  BY AheadAccepted DEF LineInv
<1>3. SUFFICES ASSUME mode = "AtTurnBoundary", restarts' = 0
               PROVE  /\ Follows(given', a')
                      /\ \A g \in Range(given'), m \in Ahead' :
                            TurnIn(a', g) < TurnIn(a', m)
  BY <1>1 DEF OrderInv
<1>4. ASSUME restarts = 0
      PROVE  /\ Follows(given, a)
             /\ \A g \in Range(given), m \in Ahead : TurnIn(a, g) < TurnIn(a, m)
  BY <1>3, <1>4 DEF OrderInv
<1>5. ASSUME NEW m \in Msgs, Joins(m)
      PROVE  /\ Follows(given', a')
             /\ \A g \in Range(given'), n \in Ahead' : TurnIn(a', g) < TurnIn(a', n)
  <2>1. /\ restarts = 0 /\ given' = given /\ a' = Append(a, m) /\ m \notin Range(a)
    BY <1>3, <1>5 DEF Joins, AcceptInv
  <2>2. Ahead' \subseteq Ahead  BY <1>5, AheadMoves
  <2>3. \A x \in Range(a) : TurnIn(Append(a, m), x) = TurnIn(a, x)
    BY <1>0, <2>1, TurnJoins
  <2>4. Follows(given, Append(a, m))
    BY <1>0, <1>2, <1>4, <2>1, FollowsLater
  <2> HIDE DEF a
  <2>5. \A g \in Range(given), n \in Ahead' :
           TurnIn(Append(a, m), g) < TurnIn(Append(a, m), n)
    BY <1>2, <1>4, <2>1, <2>2, <2>3
  <2>. QED  BY <2>1, <2>4, <2>5
<1>6. CASE Drops \/ Drains \/ PutsBack
  <2>1. UNCHANGED <<given, restarts, accepted>>  BY <1>6 DEF Drops, Drains, PutsBack
  <2>2. Ahead' \subseteq Ahead  BY <1>6, AheadMoves
  <2>. QED  BY <1>3, <1>4, <2>1, <2>2
<1>7. CASE Takes \/ Places
  <2>1. UNCHANGED <<given, restarts, accepted>> /\ Unplaced
    BY <1>7 DEF Takes, Places
  <2>2. Ahead' \subseteq Ahead \cup {lock}  BY <1>7, AheadMoves
  <2>3. /\ lock = a[Len(a)] /\ a # <<>> /\ lock \notin Range(given)
    BY <2>1 DEF AcceptInv, LineInv, Unplaced
  <2>4. \A g \in Range(given) : TurnIn(a, g) < TurnIn(a, lock)
    BY <1>0, <1>2, <2>3, LastTurn
  <2>. QED  BY <1>3, <1>4, <2>1, <2>2, <2>4
<1>8. CASE Injects  BY <1>3, <1>8 DEF Injects
<1>9. CASE HandsOver
  <2>1. UNCHANGED <<restarts, accepted>> /\ given' = given \o hand
    BY <1>9 DEF HandsOver
  <2>2. Ahead' = {} /\ Range(hand) \subseteq Ahead  BY <1>9, AheadMoves
  <2>3. Follows(given \o hand, a)
    <3>1. \A x \in Range(given), y \in Range(hand) : TurnIn(a, x) < TurnIn(a, y)
      BY <1>3, <1>4, <2>1, <2>2
    <3>2. Follows(given, a)  BY <1>3, <1>4, <2>1
    <3> HIDE DEF a
    <3>. QED  BY <1>0, <1>2, <3>1, <3>2, FollowsBoth
  <2>. QED  BY <2>1, <2>2, <2>3
<1>10. CASE Reloads
  <2>1. restarts' = restarts + 1  BY <1>10 DEF Reloads
  <2>. QED  BY <1>0, <1>3, <2>1
<1>. QED  BY <1>5, <1>6, <1>7, <1>8, <1>9, <1>10, Moves

-----------------------------------------------------------------------------
(* 10. Theorems                                                            *)

LineUp == TypeInv /\ HolderInv /\ AcceptInv /\ LineInv /\ CountInv /\ OrderInv

\* The invariant holds initially.
LEMMA LineUpInit == Init => LineUp
<1> SUFFICES ASSUME Init PROVE LineUp  OBVIOUS
<1>1. /\ given = <<>> /\ accepted = <<>> /\ mirror = <<>> /\ queue = <<>> /\ hand = <<>>
      /\ lock = "nobody" /\ "nobody" \notin Msgs /\ restarts = 0
  BY DeliveryAssumption DEF Init, DeliveryAssumption
<1>2. /\ Range(<<>>) = {} /\ Members(<<>>) = {} /\ Coalesce(<<>>) = <<>>
      /\ Follows(<<>>, accepted) /\ <<>> \in Batch /\ DOMAIN <<>> = {}
  BY MembersOfNone, CoalesceNone, FollowsShort
<1>3. Ahead = {} /\ ~Unplaced  BY <1>1, <1>2 DEF Ahead, Unplaced
<1>4. AcceptInv
  <2>1. IsInjective(accepted)  BY <1>1, <1>2 DEF IsInjective
  <2>. QED  BY <1>1, <1>2, <2>1 DEF AcceptInv
<1>5. LineInv  BY <1>1, <1>2, <1>3 DEF LineInv
<1>6. CountInv
  <2>1. \A m \in Msgs : Occurs(given, m) = 0  BY <1>1, <1>2, OccursNot
  <2>. QED  BY <1>1, <1>3, <2>1 DEF CountInv
<1>7. OrderInv  BY <1>1, <1>2, <1>3 DEF OrderInv
<1>. QED  BY <1>4, <1>5, <1>6, <1>7, TypeInit, HolderInit DEF LineUp

\* Every step keeps the invariant.
LEMMA LineUpStep == LineUp /\ [Next]_vars => LineUp'
<1> SUFFICES ASSUME LineUp, [Next]_vars PROVE LineUp'  OBVIOUS
<1>1. TypeInv /\ HolderInv /\ AcceptInv /\ LineInv /\ CountInv /\ OrderInv
  BY DEF LineUp
<1>2. TypeInv' /\ HolderInv'  BY <1>1, TypeStep, HolderInvStep
<1>3. CASE Next
  BY <1>1, <1>2, <1>3, AcceptStep, LineStep, CountStep, OrderStep DEF LineUp
<1>4. CASE UNCHANGED vars
  <2>1. /\ UNCHANGED <<mode, accepted, sender, lock, given, mirror, queue, hand, at,
                       direct, restarts>>
    BY <1>4 DEF vars, storeVars, lockVars, bookVars
  <2>2. AcceptInv'  BY <1>1, <2>1 DEF AcceptInv
  <2>3. LineInv'  BY <1>1, <2>1 DEF LineInv, Unplaced
  <2>4. CountInv'  BY <1>1, <2>1 DEF CountInv, Ahead
  <2>5. OrderInv'  BY <1>1, <2>1 DEF OrderInv, Ahead
  <2>. QED  BY <1>2, <2>2, <2>3, <2>4, <2>5 DEF LineUp
<1>. QED  BY <1>3, <1>4

\* The invariant holds of every reachable state: mirror, queue and hand follow
\* the order of the routing, and what is in line was given once less.
THEOREM LineInductive == Spec => []LineUp
<1>. QED  BY LineUpInit, LineUpStep, PTL DEF Spec

\* However its delivery was retried, a message is handed to the process once,
\* and once more at most for each restart of the host (flush_queued).
THEOREM GivenAtMostOnce == Spec => []AtMostOnce
<1>1. LineUp => AtMostOnce  BY DEF LineUp, CountInv, Occurs, AtMostOnce
<1>. QED  BY <1>1, LineInductive, PTL

\* A provider that takes messages at turn boundaries gets them in the order in
\* which their sends were routed (decide_delivery, requeue_front).
THEOREM GivenInOrder == Spec => []InOrder
<1>1. LineUp => InOrder
  BY DEF LineUp, OrderInv, Follows, TurnIn, InOrder, Turn
<1>. QED  BY <1>1, LineInductive, PTL
=============================================================================
