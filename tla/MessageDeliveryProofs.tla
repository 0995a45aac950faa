----------------------- MODULE MessageDeliveryProofs -----------------------
(***************************************************************************)
(* Theorems about MessageDelivery for every set of messages, both          *)
(* injection modes and every number of disturbances.                       *)
(*                                                                         *)
(* The invariant has six parts: the types; who holds the delivery and the  *)
(* lifecycle lock and what the holder has in hand; when a status of        *)
(* Running comes with a turn; where held messages are; which turn rows     *)
(* may be waiting; and who is on the way to the queue.  Each part has a    *)
(* section of its own.                                                     *)
(***************************************************************************)
EXTENDS MessageDelivery, SequenceTheorems, WellFoundedInduction, TLAPS

-----------------------------------------------------------------------------
(* 1. Induction over a set of numbers                                      *)

\* Every non-empty set of natural numbers has a least element: the library's
\* well-foundedness of < on Nat, applied to a set.
LEMMA Least ==
  ASSUME NEW T \in SUBSET Nat, T # {}
  PROVE  \E n \in T : \A k \in T : n <= k
<1> DEFINE R == OpToRel(<, Nat)
<1>1. PICK n \in T : \A k \in T : ~ (<<k, n>> \in R)
  <2>1. IsWellFoundedOn(R, Nat)  BY NatLessThanWellFounded
  <2> HIDE DEF R
  <2>. QED  BY <2>1, WFMin
<1>2. \A k \in T : <<k, n>> \in R <=> k < n
  BY DEF OpToRel
<1> HIDE DEF R
<1>3. n \in Nat /\ \A k \in T : k \in Nat  OBVIOUS
<1>4. \A k \in T : ~ (k < n)  BY <1>1, <1>2
<1>5. \A k \in T : n <= k  BY <1>3, <1>4
<1>. QED  BY <1>5

\* A set that holds 1 and, with a number below m, the next one, holds 1..m.
LEMMA UpTo ==
  ASSUME NEW m \in Nat, NEW T, m >= 1 => 1 \in T,
         \A i \in 1..(m-1) : i \in T => i+1 \in T
  PROVE  \A i \in 1..m : i \in T
<1> DEFINE Bad == {i \in 1..m : i \notin T}
<1>1. SUFFICES ASSUME Bad # {} PROVE FALSE  OBVIOUS
<1>2. Bad \in SUBSET Nat  OBVIOUS
<1>3. PICK n \in Bad : \A k \in Bad : n <= k  BY <1>1, <1>2, Least
<1>4. n \in 1..m /\ n \notin T  BY <1>3
<1>5. n # 1  BY <1>4
<1>6. n-1 \in 1..(m-1) /\ n-1 \in T
  BY <1>3, <1>4, <1>5
<1>7. (n-1)+1 = n  BY <1>4
<1>. QED  BY <1>4, <1>6, <1>7

-----------------------------------------------------------------------------
(* 2. What the coalesced queue holds                                       *)

\* FlattenSeq is computed one entry after another.
Flattening(q, f) ==
    /\ f \in [1..Len(q) -> Batch]
    /\ f[1] = q[1]
    /\ \A i \in 1..(Len(q)-1) : f[i+1] = f[i] \o q[i+1]

\* The recursion of FlattenSeq has a solution.
LEMMA FlattensExist ==
  ASSUME NEW q \in Seq(Batch), q # <<>>
  PROVE  \E f : Flattening(q, f)
<1> DEFINE n == Len(q)
           G(i) == \E f \in [1..i -> Batch] :
                      /\ f[1] = q[1]
                      /\ \A j \in 1..(i-1) : f[j+1] = f[j] \o q[j+1]
           T == {i \in 1..n : G(i)}
<1>1. n \in Nat \ {0} /\ \A i \in 1..n : q[i] \in Batch
  BY EmptySeq, ElementOfSeq
<1>2. G(1)
  <2> DEFINE f == [j \in 1..1 |-> q[1]]
  <2>1. f \in [1..1 -> Batch] /\ f[1] = q[1]  BY <1>1
  <2>2. \A j \in 1..(1-1) : FALSE  OBVIOUS
  <2> HIDE DEF f
  <2>. QED  BY <2>1, <2>2
<1>3. ASSUME NEW i \in 1..(n-1), G(i) PROVE G(i+1)
  <2>1. PICK f \in [1..i -> Batch] :
           /\ f[1] = q[1]
           /\ \A j \in 1..(i-1) : f[j+1] = f[j] \o q[j+1]
    BY <1>3
  <2> DEFINE e == f[i] \o q[i+1]
             g == [j \in 1..(i+1) |-> IF j = i+1 THEN e ELSE f[j]]
  <2>2. e \in Batch
    <3>1. f[i] \in Batch /\ q[i+1] \in Batch  BY <1>1, <2>1
    <3>. QED  BY <3>1, ConcatProperties DEF Batch
  <2>3. g \in [1..(i+1) -> Batch]
    <3> HIDE DEF e
    <3>. QED  BY <2>1, <2>2
  <2>4. g[1] = q[1]  BY <1>1, <2>1
  <2>5. \A j \in 1..i : g[j+1] = g[j] \o q[j+1]
    <3> SUFFICES ASSUME NEW j \in 1..i PROVE g[j+1] = g[j] \o q[j+1]  OBVIOUS
    <3>1. CASE j = i
      <4>1. i \in 1..(i+1) /\ i+1 \in 1..(i+1) /\ i # i+1  BY <1>1
      <4>. QED  BY <3>1, <4>1
    <3>2. CASE j # i
      <4>1. j \in 1..(i-1) /\ j+1 # i+1 /\ j # i+1 /\ j+1 \in 1..(i+1) /\ j \in 1..(i+1)
        BY <3>2
      <4>. QED  BY <2>1, <4>1
    <3>. QED  BY <3>1, <3>2
  <2>6. (i+1)-1 = i  OBVIOUS
  <2> HIDE DEF g
  <2>. QED  BY <2>3, <2>4, <2>5, <2>6
<1> HIDE DEF G
<1>4. \A i \in 1..n : i \in T
  <2>1. 1 \in T  BY <1>1, <1>2
  <2>2. \A i \in 1..(n-1) : i \in T => i+1 \in T  BY <1>1, <1>3
  <2> HIDE DEF T, n
  <2>. QED  BY <1>1, <2>1, <2>2, UpTo
<1>5. G(n)  BY <1>1, <1>4
<1>. QED  BY <1>5 DEF Flattening, G


\* Coalesce is the last of those.
LEMMA FlattenIs ==
  ASSUME NEW q \in Seq(Batch), q # <<>>
  PROVE  \E f : Flattening(q, f) /\ Coalesce(q) = f[Len(q)]
<1> DEFINE n == Len(q)
           E(f) == [i \in 1..n |-> IF i = 1 THEN q[i] ELSE f[i-1] \o q[i]]
           g == CHOOSE f : f = E(f)
<1>1. n \in Nat \ {0} /\ \A i \in 1..n : q[i] \in Batch
  BY EmptySeq, ElementOfSeq
<1>2. \E f : f = E(f)
  <2>1. PICK f : Flattening(q, f)  BY FlattensExist
  <2>2. f \in [1..n -> Batch] /\ DOMAIN f = 1..n  BY <2>1 DEF Flattening
  <2>3. \A i \in 1..n : f[i] = E(f)[i]
    <3> SUFFICES ASSUME NEW i \in 1..n PROVE f[i] = E(f)[i]  OBVIOUS
    <3>1. CASE i = 1  BY <2>1, <3>1 DEF Flattening
    <3>2. CASE i # 1
      <4>1. i-1 \in 1..(n-1) /\ (i-1)+1 = i  BY <1>1, <3>2
      <4>2. f[i] = f[i-1] \o q[i]  BY <2>1, <4>1 DEF Flattening
      <4>. QED  BY <3>2, <4>2
    <3>. QED  BY <3>1, <3>2
  <2>4. f = E(f)  BY <2>2, <2>3
  <2> HIDE DEF E
  <2>. QED  BY <2>4
<1>3. g = E(g)
  <2> HIDE DEF E
  <2>. QED  BY <1>2
<1>4. Coalesce(q) = g[n]
  <2>1. n # 0  BY <1>1
  <2>. QED  BY <2>1 DEF Coalesce, FlattenSeq
<1> HIDE DEF g
<1>5. Flattening(q, g)
  <2>1. DOMAIN g = 1..n  BY <1>3
  <2>2. \A i \in 1..n : g[i] = IF i = 1 THEN q[i] ELSE g[i-1] \o q[i]  BY <1>3
  <2>3. g[1] = q[1]  BY <1>1, <2>2
  <2>4. \A i \in 1..(n-1) : g[i+1] = g[i] \o q[i+1]
    <3> SUFFICES ASSUME NEW i \in 1..(n-1) PROVE g[i+1] = g[i] \o q[i+1]  OBVIOUS
    <3>1. i+1 \in 1..n /\ i+1 # 1 /\ (i+1)-1 = i  BY <1>1
    <3>. QED  BY <2>2, <3>1
  <2> DEFINE T == {i \in 1..n : g[i] \in Batch}
  <2>5. \A i \in 1..n : i \in T
    <3>1. 1 \in T  BY <1>1, <2>3
    <3>2. ASSUME NEW i \in 1..(n-1), i \in T PROVE i+1 \in T
      <4>1. i+1 \in 1..n /\ g[i] \in Batch /\ q[i+1] \in Batch  BY <1>1, <3>2
      <4>2. g[i] \o q[i+1] \in Batch  BY <4>1, ConcatProperties DEF Batch
      <4>. QED  BY <2>4, <4>1, <4>2
    <3> HIDE DEF T, n
    <3>. QED  BY <1>1, <3>1, <3>2, UpTo
  <2>6. g \in [1..n -> Batch]
    <3>1. \A i \in 1..n : g[i] \in Batch  BY <2>5
    <3>2. g = [i \in 1..n |-> g[i]]  BY <1>3
    <3> HIDE DEF n
    <3>. QED  BY <3>1, <3>2
  <2>. QED  BY <2>3, <2>4, <2>6 DEF Flattening
<1>. QED  BY <1>4, <1>5

\* The members of a coalesced batch are those of the entries.
Members(q) == UNION {Range(q[i]) : i \in DOMAIN q}

\* A concatenation holds what its parts hold.
LEMMA RangeOfConcat ==
  ASSUME NEW S, NEW s \in Seq(S), NEW t \in Seq(S)
  PROVE  Range(s \o t) = Range(s) \cup Range(t)
<1> DEFINE u == s \o t
<1>1. /\ u \in Seq(S) /\ Len(u) = Len(s) + Len(t)
      /\ \A i \in 1 .. Len(s) + Len(t) :
            u[i] = IF i <= Len(s) THEN s[i] ELSE t[i - Len(s)]
  BY ConcatProperties
<1>2. /\ Len(s) \in Nat /\ Len(t) \in Nat
      /\ DOMAIN s = 1..Len(s) /\ DOMAIN t = 1..Len(t) /\ DOMAIN u = 1..(Len(s)+Len(t))
  BY <1>1, LenProperties
<1> HIDE DEF u
<1>3. ASSUME NEW x \in Range(s) PROVE x \in Range(u)
  <2>1. PICK i \in 1..Len(s) : x = s[i]  BY <1>2 DEF Range
  <2>2. i \in 1..(Len(s)+Len(t)) /\ i <= Len(s)  BY <1>2
  <2>. QED  BY <1>1, <1>2, <2>1, <2>2 DEF Range
<1>4. ASSUME NEW x \in Range(t) PROVE x \in Range(u)
  <2>1. PICK i \in 1..Len(t) : x = t[i]  BY <1>2 DEF Range
  <2>2. /\ i+Len(s) \in 1..(Len(s)+Len(t)) /\ ~(i+Len(s) <= Len(s))
        /\ (i+Len(s)) - Len(s) = i
    BY <1>2
  <2>3. u[i+Len(s)] = t[i]  BY <1>1, <2>2
  <2>. QED  BY <1>2, <2>1, <2>2, <2>3 DEF Range
<1>5. ASSUME NEW x \in Range(u) PROVE x \in Range(s) \cup Range(t)
  <2>1. PICK i \in 1..(Len(s)+Len(t)) : x = u[i]  BY <1>2 DEF Range
  <2>2. CASE i <= Len(s)
    <3>1. i \in 1..Len(s) /\ u[i] = s[i]  BY <1>1, <1>2, <2>2
    <3>. QED  BY <1>2, <2>1, <3>1 DEF Range
  <2>3. CASE ~(i <= Len(s))
    <3>1. i - Len(s) \in 1..Len(t) /\ u[i] = t[i - Len(s)]  BY <1>1, <1>2, <2>3
    <3>. QED  BY <1>2, <2>1, <3>1 DEF Range
  <2>. QED  BY <2>2, <2>3
<1>6. Range(u) = Range(s) \cup Range(t)  BY <1>3, <1>4, <1>5
<1>. QED  BY <1>6 DEF u

\* Coalescing the queue keeps every message and adds none.
LEMMA CoalesceHolds ==
  ASSUME NEW q \in Seq(Batch)
  PROVE  Coalesce(q) \in Batch /\ Range(Coalesce(q)) = Members(q)
<1>1. CASE q = <<>>
  <2>1. Len(q) = 0 /\ DOMAIN q = {}  BY <1>1, EmptySeq, LenProperties
  <2>2. Coalesce(q) = <<>>  BY <1>1, <2>1 DEF Coalesce, FlattenSeq
  <2>3. Range(<<>>) = {} /\ Members(q) = {} /\ <<>> \in Batch
    BY <1>1, <2>1, EmptySeq DEF Range, Members, Batch
  <2>. QED  BY <2>2, <2>3
<1>2. CASE q # <<>>
  <2> DEFINE n == Len(q)
             Upto(i) == UNION {Range(q[j]) : j \in 1..i}
  <2>1. PICK f : Flattening(q, f) /\ Coalesce(q) = f[n]  BY <1>2, FlattenIs
  <2>2. n \in Nat \ {0} /\ DOMAIN q = 1..n /\ \A i \in 1..n : q[i] \in Batch
    BY <1>2, EmptySeq, ElementOfSeq, LenProperties
  <2>3. f \in [1..n -> Batch]  BY <2>1 DEF Flattening
  <2> DEFINE T == {i \in 1..n : Range(f[i]) = Upto(i)}
  <2>4. \A i \in 1..n : i \in T
    <3>1. 1 \in T
      <4>1. Upto(1) = Range(q[1])  OBVIOUS
      <4>2. f[1] = q[1] /\ 1 \in 1..n  BY <2>1, <2>2 DEF Flattening
      <4> HIDE DEF Upto
      <4>. QED  BY <4>1, <4>2
    <3>2. ASSUME NEW i \in 1..(n-1), i \in T PROVE i+1 \in T
      <4>1. i \in 1..n /\ i+1 \in 1..n /\ q[i+1] \in Batch /\ f[i] \in Batch
        BY <2>2, <2>3
      <4>2. f[i+1] = f[i] \o q[i+1]  BY <2>1 DEF Flattening
      <4>3. Range(f[i+1]) = Range(f[i]) \cup Range(q[i+1])
        BY <4>1, <4>2, RangeOfConcat DEF Batch
      <4>4. Upto(i+1) = Upto(i) \cup Range(q[i+1])
        <5>1. 1..(i+1) = (1..i) \cup {i+1}  BY <4>1
        <5>. QED  BY <5>1
      <4> HIDE DEF Upto
      <4>. QED  BY <3>2, <4>1, <4>3, <4>4
    <3> HIDE DEF T, n
    <3>. QED  BY <2>2, <3>1, <3>2, UpTo
  <2>5. n \in T /\ f[n] \in Batch  BY <2>2, <2>3, <2>4
  <2>6. Upto(n) = Members(q)  BY <2>2 DEF Members
  <2> HIDE DEF Upto, n
  <2>. QED  BY <2>1, <2>5, <2>6
<1>. QED  BY <1>1, <1>2

\* A queue of one entry goes out as it is.
LEMMA CoalesceOne ==
  ASSUME NEW q \in Seq(Batch), Len(q) = 1
  PROVE  Coalesce(q) = q[1]
<1>1. Len(<<>>) = 0  BY EmptySeq
<1>2. q # <<>>
  <2>1. q = <<>> => Len(q) = 0  BY <1>1, Zenon
  <2>. QED  BY <2>1
<1>. QED  BY <1>2, FlattenIs DEF Flattening

\* What the steps on the queue do to its members.
LEMMA MembersOfAppend ==
  ASSUME NEW q \in Seq(Batch), NEW b \in Batch
  PROVE  /\ Append(q, b) \in Seq(Batch) /\ Append(q, b) # <<>>
         /\ Members(Append(q, b)) = Members(q) \cup Range(b)
<1> DEFINE u == Append(q, b)
<1>1. /\ u \in Seq(Batch) /\ u # <<>> /\ Len(u) = Len(q)+1
      /\ \A i \in 1..Len(q) : u[i] = q[i]
      /\ u[Len(q)+1] = b
  BY AppendProperties
<1>2. Len(q) \in Nat /\ DOMAIN q = 1..Len(q) /\ DOMAIN u = 1..(Len(q)+1)
  BY <1>1, LenProperties
<1> HIDE DEF u
<1>3. DOMAIN u = DOMAIN q \cup {Len(q)+1}  BY <1>2
<1>4. \A i \in DOMAIN q : u[i] = q[i]  BY <1>1, <1>2
<1>5. Members(u) = Members(q) \cup Range(b)  BY <1>1, <1>3, <1>4 DEF Members
<1>. QED  BY <1>1, <1>5 DEF u

\* A queue of one batch.
LEMMA MembersOfOne ==
  ASSUME NEW b \in Batch
  PROVE  /\ <<b>> \in Seq(Batch) /\ <<b>> # <<>> /\ Members(<<b>>) = Range(b)
         /\ TurnIds(<<b>>) = {Id(b)}
<1>1. <<b>> \in Seq(Batch) /\ <<b>> # <<>> /\ DOMAIN <<b>> = {1} /\ <<b>>[1] = b
  OBVIOUS
<1>. QED  BY <1>1 DEF Members, TurnIds

\* The empty queue.
LEMMA MembersOfNone ==
  /\ <<>> \in Seq(Batch) /\ Members(<<>>) = {} /\ TurnIds(<<>>) = {}
  /\ <<>> \in Batch /\ Range(<<>>) = {}
BY EmptySeq DEF Members, TurnIds, Batch, Range

\* Turn ids of what the steps do to the queue.
LEMMA TurnIdsOfAppend ==
  ASSUME NEW q \in Seq(Batch), NEW b \in Batch
  PROVE  TurnIds(Append(q, b)) = TurnIds(q) \cup {Id(b)}
<1> DEFINE u == Append(q, b)
<1>1. /\ u \in Seq(Batch) /\ Len(u) = Len(q)+1
      /\ \A i \in 1..Len(q) : u[i] = q[i]
      /\ u[Len(q)+1] = b
  BY AppendProperties
<1>2. Len(q) \in Nat /\ DOMAIN q = 1..Len(q) /\ DOMAIN u = 1..(Len(q)+1)
  BY <1>1, LenProperties
<1> HIDE DEF u
<1>3. DOMAIN u = DOMAIN q \cup {Len(q)+1}  BY <1>2
<1>4. \A i \in DOMAIN q : u[i] = q[i]  BY <1>1, <1>2
<1>5. TurnIds(u) = TurnIds(q) \cup {Id(b)}  BY <1>1, <1>3, <1>4 DEF TurnIds
<1>. QED  BY <1>5 DEF u

\* A message, as a batch.
LEMMA Single ==
  ASSUME NEW m \in Msgs
  PROVE  /\ <<m>> \in Batch /\ <<m>> # <<>> /\ Range(<<m>>) = {m} /\ Id(<<m>>) = m
<1>1. <<m>> \in Batch /\ <<m>> # <<>> /\ DOMAIN <<m>> = {1} /\ <<m>>[1] = m /\ Len(<<m>>) = 1
  BY DEF Batch
<1>. QED  BY <1>1 DEF Range, Id

\* The turn id of a batch is one of its messages.
LEMMA IdIsMember ==
  ASSUME NEW b \in Batch, b # <<>>
  PROVE  Id(b) \in Range(b) /\ Id(b) \in Msgs
<1>1. Len(b) \in 1..Len(b) /\ DOMAIN b = 1..Len(b)
  BY EmptySeq, LenProperties DEF Batch
<1>2. b[Len(b)] \in Msgs  BY <1>1, ElementOfSeq DEF Batch
<1>. QED  BY <1>1, <1>2 DEF Id, Range

-----------------------------------------------------------------------------
(* 3. The invariants                                                       *)

\* Where the holder of the delivery lock has a batch in hand, and where it has
\* not looked at the queue yet.
Delivering == {"checkpoint", "start", "handoff", "failed", "clear"}
Unrouted == {"free", "login", "loginWait", "relaunch", "route"}

\* Who holds the delivery lock, and how far it is.
LockInv ==
    /\ lock = "nobody" <=> at = "free"
    /\ lock = "flush" => at \in Delivering
    /\ \A m \in Msgs : sender[m] = "routing" <=> lock = m
    /\ Reserved => lock = "nobody"
    /\ at = "inject" => mode = "Live"

\* What it has in hand: the whole queue, or the message it sends.
HandInv ==
    /\ at \in Delivering => queue = <<>> /\ hand # <<>>
    /\ at \notin Delivering => hand = <<>> /\ ~direct
    /\ direct => lock \in Msgs /\ hand = <<lock>>
    /\ at = "clear" => ~direct /\ Range(hand) \subseteq Range(given)
    /\ \A i \in DOMAIN queue : queue[i] # <<>>

\* Who holds the lifecycle lock.
LifeInv ==
    /\ life = "nobody" <=> phase = "free"
    /\ life = "login" <=> at = "relaunch"
    /\ phase \in {"defer", "forget", "unflag"} => life = "respawn"

HolderInv == LockInv /\ HandInv /\ LifeInv

\* Where a start is before it has a process.
Starting == {"unflag", "taken", "launch"}

\* Running comes with a turn.
RunningInv ==
    /\ working => proc # "none"
    /\ phase \in Starting => proc = "none"
    /\ RunningEnds
    /\ at = "handoff" /\ status = "running" /\ resting = "running" =>
          working \/ proc = "broken"

\* Where a message is that was held: given, or in the mirror and with it in the
\* queue or in hand.
Safe(m) ==
    \/ m \in Range(given)
    \/ m \in Range(mirror) /\ m \in Members(queue) \cup Range(hand)

Placed == {"recheck", "flush", "report"} \cup Delivering

KeptInv ==
    /\ \A m \in Msgs :
          sender[m] = "held" /\ arch \in {"open", "begun", "swept"} => Safe(m)
    /\ lock \in Msgs /\ at \in Placed /\ ~direct => Safe(lock)
    /\ arch = "swept" => queue = <<>>

\* Under which ids turn rows may be waiting.
Due(m) ==
    \/ m \in Range(given) \/ m \in TurnIds(queue)
    \/ hand # <<>> /\ m = Id(hand)

RowsInv ==
    restarts = 0 => \A m \in Msgs : rows[m] = "pending" => Due(m)

\* The status once a hand-off under way has failed.
Reverted ==
    IF at = "handoff" /\ status = "running" /\ ~(mode = "Live" /\ proc = "alive")
    THEN resting ELSE status

\* With no process, the queue waits for a start: without one, whoever puts
\* something into it asks for a revive.
ReviveInv ==
    /\ proc = "none" /\ ~Busy(Reverted) /\ arch = "open" /\ excuse = "none"
    /\ (queue # <<>> \/ lock = "flush")
    /\ (lock \in Msgs => at \in Unrouted)
    => phase \in Starting \/ revives > 0

\* Beside a live process at rest, something is under way that looks at the
\* queue, which a sender that has looked already does not.
Awaited ==
    \/ (working /\ mode = "Live" /\ status = "idle")
    \/ ending # "no" \/ flushers > 0 \/ revives > 0 \/ respawns > 0
    \/ phase = "drain" \/ (phase = "claim" /\ status = "error")

LooksInv ==
    /\ proc = "alive" /\ ~Busy(status) /\ arch = "open" /\ excuse = "none"
    /\ queue # <<>> /\ at \in Unrouted \cup {"report"}
    => Awaited

\* What the status says of the process: a start finds the Spawning it set or the
\* watchdog's Error, and a live process is beside an Error only until the start
\* sees it.
StatusInv ==
    /\ phase = "launch" /\ arch = "open" => Reverted \in {"spawning", "error"}
    /\ phase = "claim" /\ proc = "none" => Reverted # "spawning"
    /\ proc = "alive" /\ Reverted = "error" => phase = "claim"
    /\ proc = "alive" /\ Reverted = "none" => arch # "open"
    /\ at = "handoff" /\ status = "running" /\ mode # "Live" => resting # "error"

OwnerInv == StatusInv /\ ReviveInv /\ LooksInv

-----------------------------------------------------------------------------
(* 4. Types                                                                *)

TypeInv == TypeOK /\ restarts <= faults

\* Its parts, by what the steps change together.
AgentTypes ==
    /\ status \in AgentStatus /\ proc \in {"none", "alive", "broken"}
    /\ working \in BOOLEAN /\ interrupted \in BOOLEAN
    /\ respawnPending \in BOOLEAN /\ ending \in {"no", "respawn", "queue"}
StoreTypes ==
    queue \in Seq(Batch) /\ mirror \in Seq(Msgs) /\ rows \in [Msgs -> RowState]
LockTypes ==
    /\ lock \in Msgs \cup {"nobody", "flush"} /\ at \in Steps /\ hand \in Batch
    /\ direct \in BOOLEAN /\ resting \in AgentStatus
SendTypes == sender \in [Msgs -> SendState]
LifeTypes ==
    /\ life \in {"nobody", "resume", "revive", "respawn", "login"}
    /\ phase \in {"free", "defer", "forget", "unflag", "taken", "launch",
                  "claim", "drain", "done"}
TaskTypes == flushers \in Nat /\ revives \in Nat /\ respawns \in Nat
ArchTypes == arch \in {"open", "begun", "swept", "detached", "archived"}
CountTypes ==
    /\ faults \in 0..MaxFaults /\ restarts \in 0..MaxFaults /\ restarts <= faults
GivenTypes == given \in Seq(Msgs) /\ accepted \in Seq(Msgs)

\* The type invariant is the conjunction of its parts, before and after a step.
LEMMA TypeParts ==
  /\ TypeInv <=> /\ mode \in Modes /\ AgentTypes /\ StoreTypes /\ LockTypes
                 /\ SendTypes /\ LifeTypes /\ TaskTypes /\ ArchTypes /\ CountTypes
                 /\ GivenTypes /\ excuse \in Excuses
  /\ TypeInv' <=> /\ mode' \in Modes /\ AgentTypes' /\ StoreTypes' /\ LockTypes'
                  /\ SendTypes' /\ LifeTypes' /\ TaskTypes' /\ ArchTypes'
                  /\ CountTypes' /\ GivenTypes' /\ excuse' \in Excuses
<1> USE DEF TypeInv, TypeOK, AgentTypes, StoreTypes, LockTypes, SendTypes, LifeTypes,
            TaskTypes, ArchTypes, CountTypes, GivenTypes
<1>1. TypeInv <=> /\ mode \in Modes /\ AgentTypes /\ StoreTypes /\ LockTypes
                  /\ SendTypes /\ LifeTypes /\ TaskTypes /\ ArchTypes /\ CountTypes
                  /\ GivenTypes /\ excuse \in Excuses
  BY Zenon
<1>2. TypeInv' <=> /\ mode' \in Modes /\ AgentTypes' /\ StoreTypes' /\ LockTypes'
                   /\ SendTypes' /\ LifeTypes' /\ TaskTypes' /\ ArchTypes'
                   /\ CountTypes' /\ GivenTypes' /\ excuse' \in Excuses
  BY Zenon
<1>. QED  BY <1>1, <1>2

\* What a step leaves alone, or counts, keeps its type.
LEMMA Unmoved ==
  ASSUME TypeInv
  PROVE  /\ UNCHANGED agentVars => AgentTypes'
         /\ UNCHANGED storeVars => StoreTypes'
         /\ UNCHANGED lockVars => LockTypes'
         /\ UNCHANGED sender => SendTypes'
         /\ UNCHANGED lifeVars => LifeTypes'
         /\ UNCHANGED taskVars => TaskTypes'
         /\ UNCHANGED arch => ArchTypes'
         /\ UNCHANGED <<faults, restarts>> => CountTypes'
         /\ Disturb /\ UNCHANGED restarts => CountTypes'
         /\ UNCHANGED <<given, accepted>> => GivenTypes'
         /\ UNCHANGED bookVars => CountTypes' /\ GivenTypes' /\ excuse' \in Excuses
<1>0. /\ AgentTypes /\ StoreTypes /\ LockTypes /\ SendTypes /\ LifeTypes /\ TaskTypes
      /\ ArchTypes /\ CountTypes /\ GivenTypes /\ excuse \in Excuses
  BY TypeParts
<1>1. UNCHANGED agentVars => AgentTypes'  BY <1>0 DEF AgentTypes, agentVars
<1>2. UNCHANGED storeVars => StoreTypes'  BY <1>0 DEF StoreTypes, storeVars
<1>3. UNCHANGED lockVars => LockTypes'  BY <1>0 DEF LockTypes, lockVars
<1>4. UNCHANGED sender => SendTypes'  BY <1>0 DEF SendTypes
<1>5. UNCHANGED lifeVars => LifeTypes'  BY <1>0 DEF LifeTypes, lifeVars
<1>6. UNCHANGED taskVars => TaskTypes'  BY <1>0 DEF TaskTypes, taskVars
<1>7. UNCHANGED arch => ArchTypes'  BY <1>0 DEF ArchTypes
<1>8. UNCHANGED <<faults, restarts>> => CountTypes'  BY <1>0 DEF CountTypes
<1>9. Disturb /\ UNCHANGED restarts => CountTypes'
  BY <1>0, DeliveryAssumption DEF CountTypes, Disturb, DeliveryAssumption
<1>10. UNCHANGED <<given, accepted>> => GivenTypes'  BY <1>0 DEF GivenTypes
<1>11. UNCHANGED bookVars => CountTypes' /\ GivenTypes' /\ excuse' \in Excuses
  BY <1>0 DEF CountTypes, GivenTypes, bookVars
<1>. QED
  BY <1>1, <1>2, <1>3, <1>4, <1>5, <1>6, <1>7, <1>8, <1>9, <1>10, <1>11

\* Flips of the status keep the rows' type.
LEMMA StatusTyped ==
  ASSUME TypeInv, NEW s \in AgentStatus, SetStatus(s)
  PROVE  status' \in AgentStatus /\ rows' \in [Msgs -> RowState]
BY DEF TypeInv, TypeOK, SetStatus, CloseTurns, RowState

\* What the steps on the rows do to their type.
LEMMA RowsTyped ==
  ASSUME NEW r \in [Msgs -> RowState], NEW m, NEW ids
  PROVE  /\ InsertTurn(r, m) \in [Msgs -> RowState]
         /\ WithdrawTurns(r, ids) \in [Msgs -> RowState]
         /\ StampStart(r, m) \in [Msgs -> RowState]
         /\ UnstampStart(r, m) \in [Msgs -> RowState]
BY DEF InsertTurn, WithdrawTurns, StampStart, UnstampStart, RowState

\* The queue is taken whole.
LEMMA DrainTyped ==
  ASSUME TypeInv, DrainCoalesced
  PROVE  /\ hand' = Coalesce(queue) /\ hand' \in Batch /\ Range(hand') = Members(queue)
         /\ queue' = <<>> /\ queue' \in Seq(Batch) /\ rows' \in [Msgs -> RowState]
<1>1. queue \in Seq(Batch) /\ rows \in [Msgs -> RowState]  BY DEF TypeInv, TypeOK
<1>2. WithdrawTurns(rows, TurnIds(queue)) \in [Msgs -> RowState]  BY <1>1, RowsTyped
<1>3. InsertTurn(WithdrawTurns(rows, TurnIds(queue)), Id(Coalesce(queue)))
        \in [Msgs -> RowState]
  BY <1>2, RowsTyped
<1>. QED  BY <1>1, <1>3, CoalesceHolds, MembersOfNone DEF DrainCoalesced

\* A message is put into the queue and into the mirror.
LEMMA Enqueued ==
  ASSUME TypeInv, NEW m \in Msgs, PersistAndEnqueue(m)
  PROVE  /\ queue' \in Seq(Batch) /\ queue' # <<>>
         /\ Members(queue') = Members(queue) \cup {m}
         /\ TurnIds(queue') = TurnIds(queue) \cup {m}
         /\ mirror' \in Seq(Msgs) /\ Range(mirror') = Range(mirror) \cup {m}
<1>1. queue \in Seq(Batch) /\ mirror \in Seq(Msgs)  BY DEF TypeInv, TypeOK
<1>2. /\ <<m>> \in Batch /\ <<m>> \in Seq(Msgs)
      /\ Range(<<m>>) = {m} /\ Id(<<m>>) = m
  BY Single DEF Batch
<1>3. mirror' \in Seq(Msgs) /\ Range(mirror') = Range(mirror) \cup {m}
  <2> DEFINE b == <<m>>
  <2>1. mirror' = mirror \o b
    BY <1>1, AppendIsConcat DEF PersistAndEnqueue
  <2>2. b \in Seq(Msgs) /\ Range(b) = {m}  BY <1>2
  <2> HIDE DEF b
  <2>3. mirror \o b \in Seq(Msgs)  BY <1>1, <2>2, ConcatProperties
  <2>4. Range(mirror \o b) = Range(mirror) \cup Range(b)
    BY <1>1, <2>2, RangeOfConcat
  <2>. QED  BY <2>1, <2>2, <2>3, <2>4
<1>. QED
  BY <1>1, <1>2, <1>3, MembersOfAppend, TurnIdsOfAppend DEF PersistAndEnqueue

\* The holder goes on or leaves.
LEMMA HolderTyped ==
  ASSUME TypeInv
  PROVE  /\ \A a \in Steps : Goto(a) => LockTypes' /\ SendTypes'
         /\ \A r \in SendState : Release(r) => LockTypes' /\ SendTypes'
<1>1. LockTypes /\ SendTypes  BY TypeParts
<1>2. ASSUME NEW a \in Steps, Goto(a) PROVE LockTypes' /\ SendTypes'
  BY <1>1, <1>2 DEF Goto, LockTypes, SendTypes
<1>3. ASSUME NEW r \in SendState, Release(r) PROVE LockTypes' /\ SendTypes'
  <2>1. LockTypes'
    BY <1>3, MembersOfNone DEF Release, LockTypes, Steps, AgentStatus
  <2>2. SendTypes'  BY <1>1, <1>3 DEF Release, SendTypes
  <2>. QED  BY <2>1, <2>2
<1>. QED  BY <1>2, <1>3

\* The types hold initially.
LEMMA TypeInit == Init => TypeInv
<1> SUFFICES ASSUME Init PROVE TypeInv  OBVIOUS
<1>1. queue \in Seq(Batch) /\ mirror \in Seq(Msgs) /\ given \in Seq(Msgs)
      /\ accepted \in Seq(Msgs) /\ hand \in Batch
  BY EmptySeq DEF Init, Batch
<1>2. /\ rows \in [Msgs -> RowState] /\ sender \in [Msgs -> SendState]
      /\ faults \in 0..MaxFaults /\ restarts \in 0..MaxFaults /\ restarts <= faults
  BY DeliveryAssumption DEF Init, DeliveryAssumption, RowState, SendState
<1>. QED  BY <1>1, <1>2 DEF Init, TypeInv, TypeOK, AgentStatus, Steps, Excuses


\* Each step keeps the types.  The delete of the mirror rows is the one that
\* needs more: the delivery took the whole queue, so no row is to be kept.
LEMMA HolderStepTyped ==
  ASSUME TypeInv, HolderInv, HolderStep
  PROVE  TypeInv'
<1>0. /\ mode \in Modes /\ AgentTypes /\ StoreTypes /\ LockTypes /\ SendTypes
      /\ LifeTypes /\ TaskTypes /\ ArchTypes /\ CountTypes /\ GivenTypes
      /\ excuse \in Excuses
  BY TypeParts
<1>1. CASE LoginFine
  <2>1. Goto("route")  BY <1>1 DEF LoginFine
  <2>2. "route" \in Steps  BY DEF Steps
  <2>. QED  BY <1>0, <1>1, <2>1, <2>2, HolderTyped, Unmoved, TypeParts DEF LoginFine
<1>2. CASE LoginDue
  <2>1. "loginWait" \in Steps  BY DEF Steps
  <2>. QED  BY <1>0, <1>2, <2>1, HolderTyped, Unmoved, TypeParts DEF LoginDue
<1>3. CASE LoginTake
  <2>1. LockTypes' /\ SendTypes'
    <3>1. "route" \in Steps /\ "relaunch" \in Steps  BY DEF Steps
    <3>. QED  BY <1>3, <3>1, HolderTyped DEF LoginTake
  <2>2. AgentTypes' /\ LifeTypes'
    BY <1>0, <1>3 DEF LoginTake, AgentTypes, LifeTypes, lifeVars
  <2>. QED  BY <1>0, <1>3, <2>1, <2>2, Unmoved, TypeParts DEF LoginTake
<1>4. CASE Route
  <2>1. at' \in Steps  BY <1>4 DEF Route, Decide, Steps
  <2>2. hand' \in Batch
    <3>1. <<>> \in Batch  BY MembersOfNone
    <3>2. at' = "checkpoint" => lock \in Msgs
      BY <1>0, <1>4 DEF Route, HolderInv, LockInv, Delivering, LockTypes
    <3>. QED  BY <1>4, <3>1, <3>2, Single DEF Route
  <2>3. LockTypes'  BY <1>0, <1>4, <2>1, <2>2 DEF Route, LockTypes
  <2>4. excuse' \in Excuses  BY <1>4 DEF Route, Excuses
  <2>. QED  BY <1>0, <1>4, <2>3, <2>4, Unmoved, TypeParts DEF Route
<1>5. CASE RouteFails
  <2>1. "failed" \in SendState  BY DEF SendState
  <2>. QED  BY <1>0, <1>5, <2>1, HolderTyped, Unmoved, TypeParts DEF RouteFails
<1>6. CASE Inject
  <2>1. "sent" \in SendState /\ "none" \in Excuses  BY DEF SendState, Excuses
  <2>2. lock \in Msgs  BY <1>0, <1>6 DEF Inject, HolderInv, LockInv, Delivering, LockTypes
  <2>3. StoreTypes'
    <3>1. rows' \in [Msgs -> RowState]
      <4>1. rows \in [Msgs -> RowState]  BY <1>0 DEF StoreTypes
      <4>. QED  BY <1>6, <4>1, RowsTyped DEF Inject
    <3>. QED  BY <1>0, <1>6, <3>1 DEF Inject, StoreTypes
  <2>4. GivenTypes'
    BY <1>0, <1>6, <2>2, AppendProperties DEF Inject, GivenTypes
  <2>5. AgentTypes'  BY <1>0, <1>6 DEF Inject, AgentTypes
  <2>. QED
    BY <1>0, <1>6, <2>1, <2>3, <2>4, <2>5, HolderTyped, Unmoved, TypeParts DEF Inject
<1>7. ASSUME InjectFails \/ Hold \/ EnqueueAndFlush PROVE TypeInv'
  <2>1. lock \in Msgs
    BY <1>0, <1>7 DEF InjectFails, Hold, EnqueueAndFlush, HolderInv, LockInv, Delivering, LockTypes
  <2>2. StoreTypes'
    <3>1. PersistAndEnqueue(lock) /\ UNCHANGED rows
      BY <1>7 DEF InjectFails, Hold, EnqueueAndFlush
    <3>. QED  BY <1>0, <2>1, <3>1, Enqueued DEF StoreTypes
  <2>3. "flush" \in Steps /\ "recheck" \in Steps  BY DEF Steps
  <2>. QED
    BY <1>0, <1>7, <2>2, <2>3, HolderTyped, Unmoved, TypeParts
    DEF InjectFails, Hold, EnqueueAndFlush
<1>8. CASE Recheck
  <2>1. "report" \in Steps /\ "flush" \in Steps  BY DEF Steps
  <2>. QED  BY <1>0, <1>8, <2>1, HolderTyped, Unmoved, TypeParts DEF Recheck
<1>9. CASE Report
  <2>1. "held" \in SendState  BY DEF SendState
  <2>2. TaskTypes'  BY <1>0, <1>9 DEF Report, TaskTypes
  <2>. QED  BY <1>0, <1>9, <2>1, <2>2, HolderTyped, Unmoved, TypeParts DEF Report
<1>10. CASE SenderFlush
  <2>1. CASE queue = <<>>
    <3>1. "sent" \in SendState  BY DEF SendState
    <3>2. StoreTypes'  BY <1>0, <1>10, <2>1 DEF SenderFlush, StoreTypes
    <3>. QED  BY <1>0, <1>10, <2>1, <3>1, <3>2, HolderTyped, Unmoved, TypeParts DEF SenderFlush
  <2>2. CASE queue # <<>>
    <3>1. DrainCoalesced  BY <1>10, <2>2 DEF SenderFlush
    <3>2. hand' \in Batch /\ queue' \in Seq(Batch) /\ rows' \in [Msgs -> RowState]
      BY <3>1, DrainTyped
    <3>3. StoreTypes'  BY <1>0, <1>10, <3>2 DEF SenderFlush, StoreTypes
    <3>4. LockTypes'  BY <1>0, <1>10, <2>2, <3>2 DEF SenderFlush, LockTypes, Steps
    <3>. QED  BY <1>0, <1>10, <2>2, <3>3, <3>4, Unmoved, TypeParts DEF SenderFlush
  <2>. QED  BY <2>1, <2>2
<1>11. CASE Checkpointed
  <2>1. "failed" \in Steps /\ "start" \in Steps  BY DEF Steps
  <2>. QED  BY <1>0, <1>11, <2>1, HolderTyped, Unmoved, TypeParts DEF Checkpointed
<1>12. CASE StartTurn
  <2>1. StoreTypes'
    <3>1. rows \in [Msgs -> RowState]  BY <1>0 DEF StoreTypes
    <3>2. InsertTurn(rows, Id(hand)) \in [Msgs -> RowState]  BY <3>1, RowsTyped
    <3>3. rows' \in [Msgs -> RowState]  BY <1>12, <3>2, RowsTyped DEF StartTurn
    <3>. QED  BY <1>0, <1>12, <3>3 DEF StartTurn, StoreTypes
  <2>2. AgentTypes'  BY <1>0, <1>12 DEF StartTurn, AgentTypes, AgentStatus
  <2>3. LockTypes'  BY <1>0, <1>12 DEF StartTurn, LockTypes, AgentTypes, Steps
  <2>. QED  BY <1>0, <1>12, <2>1, <2>2, <2>3, Unmoved, TypeParts DEF StartTurn
<1>13. CASE HandOff
  <2>1. "sent" \in SendState /\ "clear" \in Steps /\ "none" \in Excuses
    BY DEF SendState, Steps, Excuses
  <2>2. GivenTypes'
    <3>1. given \in Seq(Msgs) /\ hand \in Seq(Msgs)
      BY <1>0 DEF GivenTypes, LockTypes, Batch
    <3>2. given' \in Seq(Msgs)  BY <1>13, <3>1, ConcatProperties DEF HandOff
    <3>. QED  BY <1>0, <1>13, <3>2 DEF HandOff, GivenTypes
  <2>3. AgentTypes'  BY <1>0, <1>13 DEF HandOff, AgentTypes
  <2>4. LockTypes' /\ SendTypes'  BY <1>13, <2>1, HolderTyped DEF HandOff
  <2>. QED
    BY <1>0, <1>13, <2>1, <2>2, <2>3, <2>4, Unmoved, TypeParts DEF HandOff
<1>14. CASE HandOffFails
  <2>1. "failed" \in Steps  BY DEF Steps
  <2>2. StoreTypes'
    <3>1. rows \in [Msgs -> RowState]  BY <1>0 DEF StoreTypes
    <3>2. rows' \in [Msgs -> RowState]  BY <1>14, <3>1, RowsTyped DEF HandOffFails
    <3>. QED  BY <1>0, <1>14, <3>2 DEF HandOffFails, StoreTypes
  <2>3. AgentTypes'  BY <1>0, <1>14 DEF HandOffFails, AgentTypes, LockTypes
  <2>4. CountTypes'
    <3>1. Disturb \/ UNCHANGED faults  BY <1>14 DEF HandOffFails
    <3>2. UNCHANGED restarts  BY <1>14 DEF HandOffFails
    <3>. QED  BY <3>1, <3>2, Unmoved
  <2>. QED
    BY <1>0, <1>14, <2>1, <2>2, <2>3, <2>4, HolderTyped, Unmoved, TypeParts
    DEF HandOffFails
<1>15. CASE Requeue
  <2>1. hand' \in Batch  BY <1>15, MembersOfNone DEF Requeue
  <2>2. StoreTypes'
    <3>1. CASE direct
      <4>1. lock \in Msgs  BY <3>1 DEF HolderInv, HandInv
      <4>2. PersistAndEnqueue(lock) /\ UNCHANGED rows  BY <1>15, <3>1 DEF Requeue
      <4>. QED  BY <1>0, <4>1, <4>2, Enqueued DEF StoreTypes
    <3>2. CASE ~direct
      <4> DEFINE b == <<hand>>
      <4>1. b \in Seq(Batch)  BY <1>0, MembersOfOne DEF LockTypes
      <4>2. queue' = b \o queue  BY <1>15, <3>2 DEF Requeue
      <4> HIDE DEF b
      <4>3. queue' \in Seq(Batch)  BY <1>0, <4>1, <4>2, ConcatProperties DEF StoreTypes
      <4>. QED  BY <1>0, <1>15, <3>2, <4>3 DEF Requeue, StoreTypes
    <3>. QED  BY <3>1, <3>2
  <2>3. LockTypes'
    BY <1>0, <1>15, <2>1 DEF Requeue, LockTypes, Steps, AgentStatus
  <2>4. excuse' \in Excuses  BY <1>0, <1>15 DEF Requeue, Excuses
  <2>. QED  BY <1>0, <1>15, <2>2, <2>3, <2>4, Unmoved, TypeParts DEF Requeue
<1>16. CASE ClearDelivered
  <2>1. queue = <<>>  BY <1>16 DEF ClearDelivered, HolderInv, HandInv, Delivering
  <2>2. mirror' \in Seq(Msgs)
    BY <1>16, <2>1, MembersOfNone, EmptySeq DEF ClearDelivered, RowsExcept
  <2>3. "sent" \in SendState  BY DEF SendState
  <2>4. StoreTypes'  BY <1>0, <1>16, <2>2 DEF ClearDelivered, StoreTypes
  <2>. QED
    BY <1>0, <1>16, <2>3, <2>4, HolderTyped, Unmoved, TypeParts DEF ClearDelivered
<1>. QED
  BY <1>1, <1>2, <1>3, <1>4, <1>5, <1>6, <1>7, <1>8, <1>9, <1>10, <1>11, <1>12,
     <1>13, <1>14, <1>15, <1>16 DEF HolderStep


\* The drain of the queue keeps the types.
LEMMA DrainedTyped ==
  ASSUME TypeInv, DrainQueue
  PROVE  interrupted' \in BOOLEAN /\ flushers' \in Nat /\ excuse' \in Excuses
<1>0. AgentTypes /\ TaskTypes /\ excuse \in Excuses  BY TypeParts
<1>1. CASE respawnPending
  BY <1>0, <1>1 DEF DrainQueue, AgentTypes, TaskTypes, Excuses
<1>2. CASE ~respawnPending
  <2>1. interrupted' \in BOOLEAN  BY <1>2 DEF DrainQueue
  <2>2. flushers' \in {flushers, flushers + 1}  BY <1>2 DEF DrainQueue
  <2>3. excuse' \in {excuse, "stop"}  BY <1>2 DEF DrainQueue
  <2>. QED  BY <1>0, <2>1, <2>2, <2>3 DEF TaskTypes, Excuses
<1>. QED  BY <1>1, <1>2

\* Flush tasks and the steps of turns keep the types.
LEMMA TurnStepTyped ==
  ASSUME TypeInv, TaskFlush \/ TurnStep
  PROVE  TypeInv'
<1>0. /\ mode \in Modes /\ AgentTypes /\ StoreTypes /\ LockTypes /\ SendTypes
      /\ LifeTypes /\ TaskTypes /\ ArchTypes /\ CountTypes /\ GivenTypes
      /\ excuse \in Excuses
  BY TypeParts
<1>1. CASE TaskFlush
  <2>1. TaskTypes'  BY <1>0, <1>1 DEF TaskFlush, TaskTypes
  <2>2. StoreTypes' /\ LockTypes'
    <3>1. CASE DrainCoalesced /\ lock' = "flush" /\ at' = "checkpoint" /\ direct' = FALSE
      <4>1. hand' \in Batch /\ queue' \in Seq(Batch) /\ rows' \in [Msgs -> RowState]
        BY <3>1, DrainTyped
      <4>2. StoreTypes'  BY <1>0, <1>1, <4>1 DEF TaskFlush, StoreTypes
      <4>3. LockTypes'  BY <1>0, <1>1, <3>1, <4>1 DEF TaskFlush, LockTypes, Steps
      <4>. QED  BY <4>2, <4>3
    <3>2. CASE UNCHANGED <<queue, rows, lock, at, hand, direct>>
      BY <1>0, <1>1, <3>2 DEF TaskFlush, StoreTypes, LockTypes
    <3>. QED  BY <1>1, <3>1, <3>2 DEF TaskFlush
  <2>. QED  BY <1>0, <1>1, <2>1, <2>2, Unmoved, TypeParts DEF TaskFlush
<1>2. CASE TurnEnd
  <2>1. status' \in AgentStatus /\ rows' \in [Msgs -> RowState]
    BY <1>2, StatusTyped DEF TurnEnd, AgentStatus
  <2>2. AgentTypes' /\ StoreTypes'
    BY <1>0, <1>2, <2>1 DEF TurnEnd, AgentTypes, StoreTypes
  <2>. QED  BY <1>0, <1>2, <2>2, Unmoved, TypeParts DEF TurnEnd
<1>3. CASE TurnEndUnseen
  <2>1. AgentTypes'  BY <1>0, <1>3 DEF TurnEndUnseen, AgentTypes
  <2>. QED  BY <1>0, <1>3, <2>1, Unmoved, TypeParts DEF TurnEndUnseen
<1>4. CASE TurnEndRespawn
  <2>1. AgentTypes' /\ TaskTypes'
    BY <1>0, <1>4 DEF TurnEndRespawn, AgentTypes, TaskTypes
  <2>. QED  BY <1>0, <1>4, <2>1, Unmoved, TypeParts DEF TurnEndRespawn
<1>5. CASE TurnEndQueue
  <2>1. AgentTypes' /\ TaskTypes' /\ excuse' \in Excuses
    <3>1. DrainQueue  BY <1>5 DEF TurnEndQueue
    <3>2. interrupted' \in BOOLEAN /\ flushers' \in Nat /\ excuse' \in Excuses
      BY <3>1, DrainedTyped
    <3>. QED  BY <1>0, <1>5, <3>2 DEF TurnEndQueue, AgentTypes, TaskTypes
  <2>. QED  BY <1>0, <1>5, <2>1, Unmoved, TypeParts DEF TurnEndQueue
<1>6. CASE StreamOpens
  <2>1. AgentTypes'  BY <1>0, <1>6 DEF StreamOpens, AgentTypes, AgentStatus
  <2>2. CountTypes'
    <3>1. (Disturb \/ UNCHANGED faults) /\ UNCHANGED restarts  BY <1>6 DEF StreamOpens
    <3>. QED  BY <3>1, Unmoved
  <2>. QED  BY <1>0, <1>6, <2>1, <2>2, Unmoved, TypeParts DEF StreamOpens
<1>7. CASE Stop
  <2>1. AgentTypes'  BY <1>0, <1>7 DEF Stop, AgentTypes
  <2>. QED  BY <1>0, <1>7, <2>1, Unmoved, TypeParts DEF Stop
<1>. QED  BY <1>1, <1>2, <1>3, <1>4, <1>5, <1>6, <1>7 DEF TurnStep

\* The steps of the process keep the types.
LEMMA ProcessStepTyped ==
  ASSUME TypeInv, ProcessStep
  PROVE  TypeInv'
<1>0. /\ mode \in Modes /\ AgentTypes /\ StoreTypes /\ LockTypes /\ SendTypes
      /\ LifeTypes /\ TaskTypes /\ ArchTypes /\ CountTypes /\ GivenTypes
      /\ excuse \in Excuses
  BY TypeParts
<1>E. EndStart => LockTypes' /\ LifeTypes'
  BY <1>0 DEF EndStart, LockTypes, LifeTypes, Steps
<1>S. ASSUME NEW s \in AgentStatus, SetStatus(s), UNCHANGED <<queue, mirror>>
      PROVE  status' \in AgentStatus /\ StoreTypes'
  <2>1. status' \in AgentStatus /\ rows' \in [Msgs -> RowState]  BY <1>S, StatusTyped
  <2>. QED  BY <1>0, <1>S, <2>1 DEF StoreTypes
<1>C. (Disturb \/ UNCHANGED faults) /\ UNCHANGED restarts => CountTypes'  BY Unmoved
<1>X. "failed" \in Excuses /\ "exit" \in Excuses  BY DEF Excuses
<1>T. {"spawning", "idle", "error"} \subseteq AgentStatus  BY DEF AgentStatus
<1>1. CASE Die
  <2>1. AgentTypes'  BY <1>0, <1>1 DEF Die, AgentTypes
  <2>. QED  BY <1>0, <1>1, <2>1, Unmoved, TypeParts DEF Die
<1>2. ASSUME NEW s \in {"idle", "error"}, Exit(s) PROVE TypeInv'
  <2>1. status' \in AgentStatus /\ StoreTypes'
    <3>1. CASE status = "error"
      BY <1>0, <1>2, <3>1 DEF Exit, StoreTypes, AgentTypes
    <3>2. CASE status # "error"
      <4>1. SetStatus(s) /\ UNCHANGED <<queue, mirror>>  BY <1>2, <3>2 DEF Exit
      <4>. QED  BY <1>S, <1>T, <4>1
    <3>. QED  BY <3>1, <3>2
  <2>2. AgentTypes'  BY <1>0, <1>2, <2>1 DEF Exit, AgentTypes
  <2>. QED  BY <1>0, <1>2, <1>X, <2>1, <2>2, Unmoved, TypeParts DEF Exit
<1>3. CASE TurnCrash
  <2>1. status' \in AgentStatus /\ StoreTypes'
    BY <1>3, <1>S, <1>T DEF TurnCrash
  <2>2. AgentTypes'  BY <1>0, <1>3, <2>1 DEF TurnCrash, AgentTypes
  <2>. QED  BY <1>0, <1>3, <1>X, <2>1, <2>2, Unmoved, TypeParts DEF TurnCrash
<1>4. ASSUME NEW who \in {"resume", "revive"}, ResumeBy(who), revives' \in Nat,
             Disturb \/ UNCHANGED faults
      PROVE  TypeInv'
  <2>1. status' \in AgentStatus /\ StoreTypes'
    <3>1. UNCHANGED <<queue, mirror>>  BY <1>4 DEF ResumeBy
    <3>2. CASE proc # "none"
      BY <1>0, <1>4, <3>1, <3>2 DEF ResumeBy, StoreTypes, AgentTypes
    <3>3. CASE proc = "none"
      <4>1. SetStatus("spawning")  BY <1>4, <3>3 DEF ResumeBy
      <4>. QED  BY <1>S, <1>T, <3>1, <4>1
    <3>. QED  BY <3>2, <3>3
  <2>2. AgentTypes'  BY <1>0, <1>4, <2>1 DEF ResumeBy, AgentTypes
  <2>3. LifeTypes' /\ TaskTypes'
    BY <1>0, <1>4 DEF ResumeBy, LifeTypes, TaskTypes, lifeVars
  <2>4. CountTypes'  BY <1>4, <1>C DEF ResumeBy
  <2>. QED
    BY <1>0, <1>4, <2>1, <2>2, <2>3, <2>4, Unmoved, TypeParts DEF ResumeBy
<1>5. CASE Resume
  <2>1. ResumeBy("resume") /\ revives' \in Nat /\ Disturb
    BY <1>0, <1>5 DEF Resume, TaskTypes
  <2>. QED  BY <1>4, <2>1
<1>6. CASE Revive
  <2>1. revives' \in Nat  BY <1>0, <1>6 DEF Revive, TaskTypes
  <2>2. CASE ResumeBy("revive") /\ UNCHANGED faults  BY <1>4, <2>1, <2>2
  <2>3. CASE Refused
    <3>1. TaskTypes' /\ CountTypes' /\ excuse' \in Excuses
      BY <1>0, <1>C, <1>X, <2>1, <2>3 DEF Refused, TaskTypes
    <3>. QED  BY <1>0, <2>3, <3>1, Unmoved, TypeParts DEF Refused
  <2>. QED  BY <1>6, <2>2, <2>3 DEF Revive
<1>7. CASE AskRespawn
  <2>1. TaskTypes'  BY <1>0, <1>7 DEF AskRespawn, TaskTypes
  <2>. QED  BY <1>0, <1>7, <2>1, Unmoved, TypeParts DEF AskRespawn
<1>8. CASE Respawn
  <2>1. AgentTypes'
    <3>1. proc' \in {proc, "none"} /\ working' \in {working, FALSE}
      BY <1>8 DEF Respawn
    <3>. QED  BY <1>0, <1>8, <3>1 DEF Respawn, AgentTypes
  <2>2. TaskTypes'  BY <1>0, <1>8 DEF Respawn, TaskTypes
  <2>3. LifeTypes'  BY <1>0, <1>8 DEF Respawn, LifeTypes
  <2>. QED  BY <1>0, <1>8, <2>1, <2>2, <2>3, Unmoved, TypeParts DEF Respawn
<1>16. CASE RespawnSettles
  <2>1. AgentTypes' /\ LifeTypes'
    BY <1>0, <1>16 DEF RespawnSettles, AgentTypes, LifeTypes
  <2>. QED  BY <1>0, <1>16, <2>1, Unmoved, TypeParts DEF RespawnSettles
<1>9. CASE Restart
  <2>1. status' \in AgentStatus /\ StoreTypes'  BY <1>9, <1>S, <1>T DEF Restart
  <2>2. AgentTypes' /\ LifeTypes'
    BY <1>0, <1>9, <2>1 DEF Restart, AgentTypes, LifeTypes
  <2>. QED  BY <1>0, <1>9, <2>1, <2>2, Unmoved, TypeParts DEF Restart
<1>10. CASE Launch
  <2>1. AgentTypes' /\ LifeTypes'
    BY <1>0, <1>10 DEF Launch, AgentTypes, LifeTypes
  <2>. QED  BY <1>0, <1>10, <2>1, Unmoved, TypeParts DEF Launch
<1>11. CASE LaunchFails
  <2>1. status' \in AgentStatus /\ StoreTypes'
    <3>1. UNCHANGED <<queue, mirror>>  BY <1>11 DEF LaunchFails
    <3>2. CASE SetStatus("error")  BY <1>S, <1>T, <3>1, <3>2
    <3>3. CASE UNCHANGED <<status, rows>>
      BY <1>0, <3>1, <3>3 DEF StoreTypes, AgentTypes
    <3>. QED  BY <1>11, <3>2, <3>3 DEF LaunchFails
  <2>2. AgentTypes'  BY <1>0, <1>11, <2>1 DEF LaunchFails, AgentTypes
  <2>3. CountTypes'  BY <1>11, <1>C DEF LaunchFails
  <2>4. LockTypes' /\ LifeTypes'  BY <1>E, <1>11 DEF LaunchFails
  <2>. QED
    BY <1>0, <1>11, <1>X, <2>1, <2>2, <2>3, <2>4, Unmoved, TypeParts DEF LaunchFails
<1>12. CASE Claim
  <2>1. status' \in AgentStatus /\ StoreTypes'
    <3>1. UNCHANGED <<queue, mirror>>  BY <1>12 DEF Claim
    <3>2. CASE status = "spawning"
      <4>1. SetStatus("idle")  BY <1>12, <3>2 DEF Claim
      <4>. QED  BY <1>S, <1>T, <3>1, <4>1
    <3>3. CASE status # "spawning"
      <4>1. UNCHANGED <<status, rows>>  BY <1>12, <3>3 DEF Claim
      <4>. QED  BY <1>0, <3>1, <4>1 DEF StoreTypes, AgentTypes
    <3>. QED  BY <3>2, <3>3
  <2>2. AgentTypes'  BY <1>0, <1>12, <2>1 DEF Claim, AgentTypes
  <2>3. LockTypes' /\ LifeTypes' /\ excuse' \in Excuses
    <3>1. CASE status = "error"  BY <1>E, <1>X, <1>12, <3>1 DEF Claim
    <3>2. CASE status # "error"
      <4>1. UNCHANGED lockVars /\ UNCHANGED <<life, excuse>> /\ phase' \in {"drain", "done"}
        BY <1>12, <3>2 DEF Claim
      <4>. QED  BY <1>0, <4>1, Unmoved DEF LifeTypes
    <3>. QED  BY <3>1, <3>2
  <2>. QED  BY <1>0, <1>12, <2>1, <2>2, <2>3, Unmoved, TypeParts DEF Claim
<1>13. CASE StartDrain
  <2>1. AgentTypes' /\ TaskTypes' /\ LifeTypes' /\ excuse' \in Excuses
    <3>1. DrainQueue  BY <1>13 DEF StartDrain
    <3>2. interrupted' \in BOOLEAN /\ flushers' \in Nat /\ excuse' \in Excuses
      BY <3>1, DrainedTyped
    <3>. QED  BY <1>0, <1>13, <3>2 DEF StartDrain, AgentTypes, TaskTypes, LifeTypes
  <2>. QED  BY <1>0, <1>13, <2>1, Unmoved, TypeParts DEF StartDrain
<1>14. CASE Started
  <2>1. AgentTypes' /\ TaskTypes' /\ excuse' \in Excuses
    BY <1>0, <1>14 DEF Started, AgentTypes, TaskTypes, Excuses
  <2>2. LockTypes' /\ LifeTypes'  BY <1>E, <1>14 DEF Started
  <2>. QED  BY <1>0, <1>14, <2>1, <2>2, Unmoved, TypeParts DEF Started
<1>15. CASE SpawnTimeout
  <2>1. status' \in AgentStatus /\ StoreTypes'  BY <1>15, <1>S, <1>T DEF SpawnTimeout
  <2>2. AgentTypes'  BY <1>0, <1>15, <2>1 DEF SpawnTimeout, AgentTypes
  <2>3. CountTypes'  BY <1>15, <1>C DEF SpawnTimeout
  <2>. QED
    BY <1>0, <1>15, <1>X, <2>1, <2>2, <2>3, Unmoved, TypeParts DEF SpawnTimeout
<1>. QED
  BY <1>1, <1>2, <1>3, <1>5, <1>6, <1>7, <1>8, <1>9, <1>10, <1>11, <1>12, <1>13,
     <1>14, <1>15, <1>16 DEF ProcessStep

\* A user's send, the archive and the restart of the host; the queue reloaded
\* from the mirror is one of batches of one message.
LEMMA Reloaded ==
  ASSUME NEW s \in Seq(Msgs)
  PROVE  LET q == [i \in DOMAIN s |-> <<s[i]>>] IN
         q \in Seq(Batch) /\ Members(q) = Range(s) /\ TurnIds(q) = Range(s)
<1> DEFINE q == [i \in DOMAIN s |-> <<s[i]>>]
<1>1. DOMAIN s = 1..Len(s) /\ Len(s) \in Nat /\ \A i \in DOMAIN s : s[i] \in Msgs
  BY LenProperties, ElementOfSeq
<1>2. \A i \in DOMAIN s : <<s[i]>> \in Batch  BY <1>1, Single
<1>3. q \in Seq(Batch)  BY <1>1, <1>2, IsASeq
<1>4. DOMAIN q = DOMAIN s /\ \A i \in DOMAIN s : Range(q[i]) = {s[i]} /\ Id(q[i]) = s[i]
  BY <1>1, Single
<1> HIDE DEF q
<1>5. Members(q) = Range(s)
  <2>1. Members(q) = UNION {{s[i]} : i \in DOMAIN s}  BY <1>4 DEF Members
  <2>2. UNION {{s[i]} : i \in DOMAIN s} = {s[i] : i \in DOMAIN s}  OBVIOUS
  <2>. QED  BY <2>1, <2>2 DEF Range
<1>6. TurnIds(q) = Range(s)  BY <1>4 DEF TurnIds, Range
<1>. QED  BY <1>3, <1>5, <1>6 DEF q

\* Sends, archives and restarts of the host keep the types.
LEMMA OtherStepTyped ==
  ASSUME TypeInv, (\E m \in Msgs : SendStep(m)) \/ ArchiveStep \/ HostRestart
  PROVE  TypeInv'
<1>0. /\ mode \in Modes /\ AgentTypes /\ StoreTypes /\ LockTypes /\ SendTypes
      /\ LifeTypes /\ TaskTypes /\ ArchTypes /\ CountTypes /\ GivenTypes
      /\ excuse \in Excuses
  BY TypeParts
<1>1. ASSUME NEW m \in Msgs, Send(m) PROVE TypeInv'
  <2>1. SendTypes'  BY <1>0, <1>1 DEF Send, SendTypes, SendState
  <2>. QED  BY <1>0, <1>1, <2>1, Unmoved, TypeParts DEF Send
<1>2. ASSUME NEW m \in Msgs, Acquire(m) PROVE TypeInv'
  <2>1. SendTypes'  BY <1>0, <1>2 DEF Acquire, SendTypes, SendState
  <2>2. LockTypes'  BY <1>0, <1>2 DEF Acquire, LockTypes, Steps
  <2>3. GivenTypes'  BY <1>0, <1>2, AppendProperties DEF Acquire, GivenTypes
  <2>. QED  BY <1>0, <1>2, <2>1, <2>2, <2>3, Unmoved, TypeParts DEF Acquire
<1>3. CASE Detach
  <2>1. AgentTypes' /\ ArchTypes'
    BY <1>0, <1>3 DEF Detach, AgentTypes, ArchTypes, AgentStatus
  <2>2. StoreTypes'
    <3>1. rows' \in [Msgs -> RowState]  BY <1>0, <1>3 DEF Detach, StoreTypes, RowState
    <3>. QED  BY <1>3, <3>1, EmptySeq DEF Detach, StoreTypes
  <2>. QED  BY <1>0, <1>3, <2>1, <2>2, Unmoved, TypeParts DEF Detach
<1>4. CASE Archived
  <2>1. ArchTypes'  BY <1>4 DEF Archived, ArchTypes
  <2>. QED  BY <1>0, <1>4, <2>1, Unmoved, TypeParts DEF Archived
<1>5. ASSUME NEW trigger, Archive(trigger) PROVE TypeInv'
  <2>1. ArchTypes'  BY <1>5 DEF Archive, ArchTypes
  <2>. QED  BY <1>0, <1>5, <2>1, Unmoved, TypeParts DEF Archive
<1>6. CASE HostRestart
  <2>1. AgentTypes' /\ ArchTypes' /\ TaskTypes' /\ LifeTypes' /\ excuse' \in Excuses
    BY <1>6 DEF HostRestart, AgentTypes, AgentStatus, ArchTypes, TaskTypes, LifeTypes,
                Excuses
  <2>2. LockTypes'
    BY <1>6, MembersOfNone DEF HostRestart, LockTypes, Steps, AgentStatus
  <2>3. SendTypes'  BY <1>0, <1>6 DEF HostRestart, SendTypes, SendState
  <2>4. StoreTypes'
    <3>1. [i \in DOMAIN mirror |-> <<mirror[i]>>] \in Seq(Batch)
      BY <1>0, Reloaded DEF StoreTypes
    <3>. QED  BY <1>0, <1>6, <3>1, MembersOfNone DEF HostRestart, StoreTypes
  <2>5. CountTypes'
    BY <1>0, <1>6, DeliveryAssumption
    DEF HostRestart, Disturb, CountTypes, DeliveryAssumption
  <2>. QED
    BY <1>0, <1>6, <2>1, <2>2, <2>3, <2>4, <2>5, Unmoved, TypeParts DEF HostRestart
<1>. QED
  BY <1>1, <1>2, <1>3, <1>4, <1>5, <1>6 DEF SendStep, ArchiveStep

\* Every step keeps the types.
LEMMA TypeStep ==
  ASSUME TypeInv, HolderInv, [Next]_vars
  PROVE  TypeInv'
<1>1. CASE UNCHANGED vars
  <2>1. /\ UNCHANGED agentVars /\ UNCHANGED storeVars /\ UNCHANGED lockVars
        /\ UNCHANGED lifeVars /\ UNCHANGED taskVars /\ UNCHANGED bookVars
        /\ UNCHANGED <<mode, sender, arch>>
    BY <1>1 DEF vars
  <2>. QED  BY <2>1, TypeParts, Unmoved
<1>. QED
  BY <1>1, HolderStepTyped, TurnStepTyped, ProcessStepTyped, OtherStepTyped DEF Next


-----------------------------------------------------------------------------
(* 5. The holder of the delivery lock                                      *)

\* Nobody holds a lock initially.
LEMMA HolderInit == Init => HolderInv
<1> SUFFICES ASSUME Init PROVE HolderInv  OBVIOUS
<1>1. LockInv
  BY DeliveryAssumption
  DEF Init, LockInv, Delivering, Reserved, DeliveryAssumption
<1>2. HandInv  BY DEF Init, HandInv, Delivering
<1>3. LifeInv  BY DEF Init, LifeInv
<1>. QED  BY <1>1, <1>2, <1>3 DEF HolderInv

\* A queue with entries has messages.
LEMMA CoalesceSome ==
  ASSUME TypeInv, HandInv, queue # <<>>
  PROVE  Coalesce(queue) # <<>> /\ Coalesce(queue) \in Batch
<1>1. queue \in Seq(Batch)  BY TypeParts DEF StoreTypes
<1>2. 1 \in DOMAIN queue /\ queue[1] \in Batch /\ queue[1] # <<>>
  <2>1. 1 \in DOMAIN queue /\ queue[1] \in Batch
    BY <1>1, EmptySeq, LenProperties, ElementOfSeq
  <2>. QED  BY <2>1 DEF HandInv
<1>3. Id(queue[1]) \in Members(queue)
  <2>1. Id(queue[1]) \in Range(queue[1])  BY <1>2, IdIsMember
  <2>. QED  BY <1>2, <2>1 DEF Members
<1>4. Range(Coalesce(queue)) # {} /\ Coalesce(queue) \in Batch
  BY <1>1, <1>3, CoalesceHolds
<1>5. Coalesce(queue) = <<>> => Range(Coalesce(queue)) = Range(<<>>)  BY Zenon
<1>. QED  BY <1>4, <1>5, MembersOfNone

\* The queue keeps entries with messages only.
LEMMA EntriesAppended ==
  ASSUME TypeInv, HandInv, NEW m \in Msgs, PersistAndEnqueue(m)
  PROVE  \A i \in DOMAIN queue' : queue'[i] # <<>>
<1>1. queue \in Seq(Batch) /\ <<m>> \in Batch /\ <<m>> # <<>>
  BY Single, TypeParts DEF StoreTypes
<1>2. queue' = Append(queue, <<m>>)  BY DEF PersistAndEnqueue
<1> DEFINE b == <<m>>
<1>3. b \in Batch /\ b # <<>> /\ queue' = Append(queue, b)  BY <1>1, <1>2
<1> HIDE DEF b
<1>4. /\ queue' \in Seq(Batch) /\ Len(queue') = Len(queue)+1
      /\ \A i \in 1..Len(queue) : queue'[i] = queue[i]
      /\ queue'[Len(queue)+1] = b
  BY <1>1, <1>3, AppendProperties
<1>5. DOMAIN queue = 1..Len(queue) /\ DOMAIN queue' = 1..(Len(queue)+1) /\ Len(queue) \in Nat
  BY <1>1, <1>4, LenProperties
<1> SUFFICES ASSUME NEW i \in DOMAIN queue' PROVE queue'[i] # <<>>  OBVIOUS
<1>6. CASE i \in 1..Len(queue)  BY <1>4, <1>5, <1>6 DEF HandInv
<1>7. CASE i = Len(queue)+1  BY <1>3, <1>4, <1>7
<1>. QED  BY <1>5, <1>6, <1>7

\* A batch that goes back is the queue.
LEMMA Requeued ==
  ASSUME TypeInv, HandInv, Requeue, ~direct
  PROVE  queue' = <<hand>> /\ hand # <<>> /\ queue = <<>>
<1> DEFINE b == <<hand>>
<1>1. queue = <<>> /\ hand # <<>> /\ hand \in Batch
  BY TypeParts DEF Requeue, HandInv, Delivering, LockTypes
<1>2. b \in Seq(Batch) /\ queue' = b \o <<>>  BY <1>1, MembersOfOne DEF Requeue
<1> HIDE DEF b
<1>3. queue' = b  BY <1>2, ConcatEmptySeq
<1>. QED  BY <1>1, <1>3 DEF b


\* The delivery lock: the holder goes on, leaves, or is nobody's concern.
LEMMA LockGoesOn ==
  ASSUME LockInv, UNCHANGED <<lock, sender, arch, mode>>, at # "free", at' # "free",
         lock = "flush" => at' \in Delivering, at' = "inject" => mode = "Live"
  PROVE  LockInv'
BY DEF LockInv, Reserved

\* The holder leaves the delivery lock.
LEMMA LockLeft ==
  ASSUME TypeInv, LockInv, NEW r \in SendState, r # "routing", Release(r),
         UNCHANGED <<arch, mode>>
  PROVE  LockInv'
<1>1. LockTypes /\ SendTypes  BY TypeParts
<1>2. lock' = "nobody" /\ at' = "free"  BY DEF Release
<1>3. ASSUME NEW m \in Msgs PROVE sender'[m] # "routing" /\ lock' # m
  BY <1>1, DeliveryAssumption DEF Release, LockInv, SendTypes, DeliveryAssumption
<1>4. Reserved' => lock' = "nobody"  BY <1>2
<1>. QED  BY <1>2, <1>3, <1>4 DEF LockInv

\* A step that leaves the delivery lock and the archive alone.
LEMMA LockUntouched ==
  ASSUME LockInv, UNCHANGED <<lock, at, sender, arch, mode>>
  PROVE  LockInv'
BY DEF LockInv, Reserved

\* The steps of the holder keep LockInv.
LEMMA LockHolderStep ==
  ASSUME TypeInv, HolderInv, HolderStep
  PROVE  LockInv'
<1>0. LockInv /\ HandInv /\ LockTypes  BY TypeParts DEF HolderInv
<1>1. CASE LoginFine \/ LoginDue
  BY <1>0, <1>1, LockGoesOn DEF LoginFine, LoginDue, Goto, LockInv, Delivering
<1>2. CASE LoginTake
  BY <1>0, <1>2, LockGoesOn DEF LoginTake, Goto, LockInv, Delivering
<1>3. CASE Route
  <2>1. at' \in {"enqueue", "checkpoint", "inject", "hold"} /\ (at' = "inject" => mode = "Live")
    BY <1>3 DEF Route, Decide
  <2>. QED  BY <1>0, <1>3, <2>1, LockGoesOn DEF Route, LockInv, Delivering
<1>4. CASE RouteFails
  BY <1>0, <1>4, LockLeft DEF RouteFails, SendState
<1>5. CASE Inject  BY <1>0, <1>5, LockLeft DEF Inject, SendState
<1>6. CASE InjectFails \/ Hold \/ EnqueueAndFlush
  BY <1>0, <1>6, LockGoesOn DEF InjectFails, Hold, EnqueueAndFlush, Goto, LockInv, Delivering
<1>7. CASE Recheck  BY <1>0, <1>7, LockGoesOn DEF Recheck, Goto, LockInv, Delivering
<1>8. CASE Report  BY <1>0, <1>8, LockLeft DEF Report, SendState
<1>9. CASE SenderFlush
  <2>1. CASE queue = <<>>  BY <1>0, <1>9, <2>1, LockLeft DEF SenderFlush, SendState
  <2>2. CASE queue # <<>>
    BY <1>0, <1>9, <2>2, LockGoesOn DEF SenderFlush, LockInv, Delivering
  <2>. QED  BY <2>1, <2>2
<1>10. CASE Checkpointed
  BY <1>0, <1>10, LockGoesOn DEF Checkpointed, Goto, LockInv, Delivering
<1>11. CASE StartTurn
  BY <1>0, <1>11, LockGoesOn DEF StartTurn, LockInv, Delivering
<1>12. CASE HandOff
  <2>1. CASE direct  BY <1>0, <1>12, <2>1, LockLeft DEF HandOff, SendState
  <2>2. CASE ~direct
    BY <1>0, <1>12, <2>2, LockGoesOn DEF HandOff, Goto, LockInv, Delivering
  <2>. QED  BY <2>1, <2>2
<1>13. CASE HandOffFails
  BY <1>0, <1>13, LockGoesOn DEF HandOffFails, Goto, LockInv, Delivering
<1>14. CASE Requeue
  <2>1. UNCHANGED <<sender, arch, mode>> /\ lock # "nobody"
    BY <1>0, <1>14 DEF Requeue, LockInv
  <2>2. CASE direct
    <3>1. lock # "flush"  BY <1>0, <2>2, DeliveryAssumption DEF HandInv, DeliveryAssumption
    <3>. QED  BY <1>0, <1>14, <2>1, <2>2, <3>1, LockGoesOn DEF Requeue
  <2>3. CASE ~direct /\ lock # "flush"
    BY <1>0, <1>14, <2>1, <2>3, LockGoesOn DEF Requeue
  <2>4. CASE ~direct /\ lock = "flush"
    <3>1. lock' = "nobody" /\ at' = "free"  BY <1>14, <2>4 DEF Requeue
    <3>2. ASSUME NEW m \in Msgs PROVE sender'[m] # "routing" /\ lock' # m
      BY <1>0, <2>1, <2>4, <3>1, DeliveryAssumption DEF LockInv, DeliveryAssumption
    <3>3. Reserved' => lock' = "nobody"  BY <3>1
    <3>. QED  BY <3>1, <3>2, <3>3 DEF LockInv
  <2>. QED  BY <2>2, <2>3, <2>4
<1>15. CASE ClearDelivered
  BY <1>0, <1>15, LockLeft DEF ClearDelivered, SendState
<1>. QED
  BY <1>1, <1>2, <1>3, <1>4, <1>5, <1>6, <1>7, <1>8, <1>9, <1>10, <1>11, <1>12,
     <1>13, <1>14, <1>15 DEF HolderStep

\* Every step keeps LockInv: an archive begins only while no route is open.
LEMMA LockStep ==
  ASSUME TypeInv, HolderInv, Next
  PROVE  LockInv'
<1>0. LockInv /\ LifeInv /\ LockTypes /\ LifeTypes /\ SendTypes
  BY TypeParts DEF HolderInv
<1>1. ASSUME NEW m \in Msgs, Send(m) PROVE LockInv'
  <2>1. \A n \in Msgs : sender'[n] = "routing" <=> sender[n] = "routing"
    BY <1>0, <1>1 DEF Send, SendTypes
  <2>. QED  BY <1>0, <1>1, <2>1 DEF Send, LockInv, Reserved, lockVars
<1>2. ASSUME NEW m \in Msgs, Acquire(m) PROVE LockInv'
  <2>1. CASE Reserved
    <3>1. \A n \in Msgs : sender'[n] = "routing" <=> sender[n] = "routing"
      BY <1>0, <1>2, <2>1 DEF Acquire, SendTypes
    <3>. QED  BY <1>0, <1>2, <2>1, <3>1 DEF Acquire, LockInv, Reserved
  <2>2. CASE ~Reserved
    <3>1. \A n \in Msgs : sender'[n] = "routing" <=> n = m
      BY <1>0, <1>2, <2>2, DeliveryAssumption
      DEF Acquire, SendTypes, LockInv, DeliveryAssumption
    <3>2. lock' = m /\ at' = "login" /\ UNCHANGED <<arch, mode>> /\ m # "nobody" /\ m # "flush"
      BY <1>2, <2>2, DeliveryAssumption DEF Acquire, DeliveryAssumption
    <3>3. ~Reserved'  BY <2>2, <3>2 DEF Reserved
    <3>. QED  BY <3>1, <3>2, <3>3 DEF LockInv
  <2>. QED  BY <2>1, <2>2
<1>3. CASE TaskFlush
  <2>1. CASE Reserved \/ queue = <<>>
    BY <1>0, <1>3, <2>1, LockUntouched DEF TaskFlush
  <2>2. CASE ~(Reserved \/ queue = <<>>)
    <3>1. lock' = "flush" /\ at' = "checkpoint" /\ lock = "nobody" /\ UNCHANGED <<sender, arch, mode>>
      BY <1>3, <2>2 DEF TaskFlush
    <3>2. ~Reserved'  BY <2>2, <3>1 DEF Reserved
    <3>3. ASSUME NEW m \in Msgs PROVE sender'[m] # "routing" /\ lock' # m
      BY <1>0, <3>1, DeliveryAssumption DEF LockInv, DeliveryAssumption
    <3>. QED  BY <3>1, <3>2, <3>3 DEF LockInv, Delivering
  <2>. QED  BY <2>1, <2>2
<1>4. CASE TurnStep
  BY <1>0, <1>4, LockUntouched
  DEF TurnStep, TurnEnd, TurnEndUnseen, TurnEndRespawn, TurnEndQueue, StreamOpens,
      Stop, lockVars
<1>5. ASSUME EndStart, UNCHANGED <<sender, arch, mode>> PROVE LockInv'
  <2>1. CASE life = "login"
    BY <1>0, <1>5, <2>1, LockGoesOn DEF EndStart, LifeInv, LockInv, Delivering
  <2>2. CASE life # "login"
    BY <1>0, <1>5, <2>2, LockUntouched DEF EndStart
  <2>. QED  BY <2>1, <2>2
<1>6. CASE ProcessStep
  <2>1. UNCHANGED <<sender, arch, mode>> /\ (EndStart \/ UNCHANGED lockVars)
    BY <1>6
    DEF ProcessStep, Die, TurnCrash, Resume, Revive, Refused, ResumeBy, AskRespawn, Respawn,
        RespawnSettles, Restart, Launch, LaunchFails,
        Claim, StartDrain, Started, SpawnTimeout, Exit
  <2>. QED  BY <1>0, <1>5, <2>1, LockUntouched DEF lockVars
<1>7. CASE Detach \/ Archived
  BY <1>0, <1>7 DEF Detach, Archived, LockInv, Reserved, lockVars
<1>8. ASSUME NEW trigger, Archive(trigger) PROVE LockInv'
  <2>1. lock' = "nobody" /\ UNCHANGED lockVars /\ UNCHANGED <<sender, mode>>
    BY <1>8 DEF Archive, RouteOpen, lockVars
  <2>. QED  BY <1>0, <2>1 DEF LockInv, lockVars
<1>9. CASE HostRestart
  <2>1. lock' = "nobody" /\ at' = "free"  BY <1>9 DEF HostRestart
  <2>2. ASSUME NEW m \in Msgs PROVE sender'[m] # "routing" /\ lock' # m
    BY <1>9, <2>1, DeliveryAssumption DEF HostRestart, DeliveryAssumption
  <2>. QED  BY <2>1, <2>2 DEF LockInv
<1>. QED
  BY <1>1, <1>2, <1>3, <1>4, <1>6, <1>7, <1>8, <1>9, LockHolderStep
  DEF Next, SendStep, ArchiveStep


\* What the holder has in hand.
LEMMA HandUntouched ==
  ASSUME HandInv, UNCHANGED <<lock, at, hand, direct, queue, given>>
  PROVE  HandInv'
BY DEF HandInv

\* The holder puts down what it had in hand.
LEMMA EmptyHanded ==
  ASSUME HandInv, UNCHANGED queue, at' \notin Delivering, hand' = <<>>, direct' = FALSE
  PROVE  HandInv'
BY DEF HandInv, Delivering

\* The holder goes on with the batch it has in hand.
LEMMA HandKept ==
  ASSUME HandInv, UNCHANGED <<lock, hand, direct, queue, given>>,
         at \in Delivering, at' \in Delivering, at' # "clear"
  PROVE  HandInv'
BY DEF HandInv

\* The steps of the holder keep HandInv.
LEMMA HandHolderStep ==
  ASSUME TypeInv, HolderInv, HolderStep
  PROVE  HandInv'
<1>0. LockInv /\ HandInv /\ LockTypes  BY TypeParts DEF HolderInv
<1>1. CASE LoginFine \/ LoginDue \/ LoginTake
  <2>1. /\ at' \notin Delivering /\ UNCHANGED <<hand, direct, queue>>
        /\ hand = <<>> /\ ~direct
    BY <1>0, <1>1
    DEF LoginFine, LoginDue, LoginTake, Goto, storeVars, HandInv, Delivering
  <2>. QED  BY <1>0, <2>1 DEF HandInv, Delivering
<1>2. CASE Route
  <2>1. CASE at' = "checkpoint"
    <3>1. queue = <<>> /\ lock \in Msgs
      BY <1>0, <1>2, <2>1 DEF Route, Decide, LockInv, LockTypes, Delivering
    <3>2. queue' = <<>> /\ hand' = <<lock>> /\ lock' = lock /\ hand' # <<>>
      BY <1>2, <2>1, <3>1, Single DEF Route, storeVars
    <3>3. DOMAIN queue' = {}  BY <3>2
    <3>. QED  BY <2>1, <3>1, <3>2, <3>3 DEF HandInv, Delivering
  <2>2. CASE at' # "checkpoint"
    <3>1. at' \notin Delivering  BY <1>2, <2>2 DEF Route, Decide, Delivering
    <3>2. UNCHANGED queue /\ hand' = <<>> /\ direct' = FALSE
      BY <1>2, <2>2 DEF Route, storeVars
    <3>. QED  BY <1>0, <3>1, <3>2, EmptyHanded
  <2>. QED  BY <2>1, <2>2
<1>3. CASE RouteFails \/ Inject \/ Report \/ ClearDelivered
  <2>1. hand' = <<>> /\ direct' = FALSE /\ at' = "free" /\ UNCHANGED queue
    BY <1>3 DEF RouteFails, Inject, Report, ClearDelivered, Release, storeVars
  <2>. QED  BY <1>0, <2>1, EmptyHanded DEF Delivering
<1>4. CASE InjectFails \/ Hold \/ EnqueueAndFlush
  <2>1. at \notin Delivering /\ at' \notin Delivering /\ UNCHANGED <<hand, direct>>
    BY <1>4 DEF InjectFails, Hold, EnqueueAndFlush, Goto, Delivering
  <2>2. lock \in Msgs /\ PersistAndEnqueue(lock)
    BY <1>0, <1>4
    DEF InjectFails, Hold, EnqueueAndFlush, LockInv, LockTypes, Delivering
  <2>3. \A i \in DOMAIN queue' : queue'[i] # <<>>  BY <1>0, <2>2, EntriesAppended
  <2>. QED  BY <1>0, <2>1, <2>3 DEF HandInv, Delivering
<1>5. CASE Recheck
  <2>1. /\ at \notin Delivering /\ at' \notin Delivering
        /\ UNCHANGED <<hand, direct, queue>>
    BY <1>5 DEF Recheck, Goto, Delivering, storeVars
  <2>. QED  BY <1>0, <2>1 DEF HandInv, Delivering
<1>6. CASE SenderFlush
  <2>1. CASE queue = <<>>
    <3>1. hand' = <<>> /\ direct' = FALSE /\ at' = "free" /\ UNCHANGED queue
      BY <1>6, <2>1 DEF SenderFlush, Release
    <3>. QED  BY <1>0, <3>1, EmptyHanded DEF Delivering
  <2>2. CASE queue # <<>>
    <3>1. hand' # <<>> /\ queue' = <<>> /\ direct' = FALSE /\ at' = "checkpoint"
      BY <1>0, <1>6, <2>2, CoalesceSome DEF SenderFlush, DrainCoalesced
    <3>2. DOMAIN queue' = {}  BY <3>1
    <3>. QED  BY <3>1, <3>2 DEF HandInv, Delivering
  <2>. QED  BY <2>1, <2>2
<1>7. CASE Checkpointed \/ StartTurn \/ HandOffFails
  <2>1. /\ UNCHANGED <<lock, hand, direct, queue, given>>
        /\ at \in Delivering /\ at' \in Delivering /\ at' # "clear"
    BY <1>7
    DEF Checkpointed, StartTurn, HandOffFails, Goto, Delivering, storeVars, bookVars
  <2>. QED  BY <1>0, <2>1, HandKept
<1>8. CASE HandOff
  <2>1. CASE direct
    <3>1. hand' = <<>> /\ direct' = FALSE /\ at' = "free" /\ UNCHANGED queue
      BY <1>8, <2>1 DEF HandOff, Release, storeVars
    <3>. QED  BY <1>0, <3>1, EmptyHanded DEF Delivering
  <2>2. CASE ~direct
    <3>1. at' = "clear" /\ UNCHANGED <<lock, hand, direct, queue>> /\ at = "handoff"
      BY <1>8, <2>2 DEF HandOff, Goto, storeVars
    <3>2. Range(hand) \subseteq Range(given')
      <4>1. given \in Seq(Msgs) /\ hand \in Seq(Msgs)
        BY <1>0, TypeParts DEF GivenTypes, LockTypes, Batch
      <4>. QED  BY <1>8, <4>1, RangeOfConcat DEF HandOff
    <3>3. Range(hand') \subseteq Range(given')  BY <3>1, <3>2
    <3>. QED  BY <1>0, <2>2, <3>1, <3>3 DEF HandInv, Delivering
  <2>. QED  BY <2>1, <2>2
<1>9. CASE Requeue
  <2>1. hand' = <<>> /\ direct' = FALSE /\ at' \notin Delivering
    BY <1>9 DEF Requeue, Delivering
  <2>2. \A i \in DOMAIN queue' : queue'[i] # <<>>
    <3>1. CASE direct
      <4>1. lock \in Msgs /\ PersistAndEnqueue(lock)
        BY <1>0, <1>9, <3>1 DEF Requeue, HandInv
      <4>. QED  BY <1>0, <4>1, EntriesAppended
    <3>2. CASE ~direct
      <4>1. queue' = <<hand>> /\ hand # <<>>  BY <1>0, <1>9, <3>2, Requeued
      <4>. QED  BY <4>1
    <3>. QED  BY <3>1, <3>2
  <2>. QED  BY <2>1, <2>2 DEF HandInv, Delivering
<1>. QED
  BY <1>1, <1>2, <1>3, <1>4, <1>5, <1>6, <1>7, <1>8, <1>9 DEF HolderStep

\* Every step keeps HandInv.
LEMMA HandStep ==
  ASSUME TypeInv, HolderInv, Next
  PROVE  HandInv'
<1>0. LockInv /\ HandInv /\ LifeInv /\ LockTypes  BY TypeParts DEF HolderInv
<1>1. ASSUME NEW m \in Msgs, SendStep(m) PROVE HandInv'
  <2>1. CASE UNCHANGED lockVars /\ UNCHANGED <<queue, given>>
    BY <1>0, <2>1, HandUntouched DEF lockVars
  <2>2. CASE lock = "nobody" /\ at' = "login" /\ UNCHANGED <<hand, direct, queue>>
    BY <1>0, <2>2 DEF LockInv, HandInv, Delivering
  <2>. QED
    BY <1>1, <2>1, <2>2 DEF SendStep, Send, Acquire, lockVars, storeVars, bookVars
<1>2. CASE TaskFlush
  <2>1. CASE Reserved \/ queue = <<>>
    BY <1>0, <1>2, <2>1, HandUntouched DEF TaskFlush, bookVars
  <2>2. CASE ~(Reserved \/ queue = <<>>)
    <3>1. hand' # <<>> /\ queue' = <<>> /\ direct' = FALSE /\ at' = "checkpoint"
      BY <1>0, <1>2, <2>2, CoalesceSome DEF TaskFlush, DrainCoalesced
    <3>2. DOMAIN queue' = {}  BY <3>1
    <3>. QED  BY <3>1, <3>2 DEF HandInv, Delivering
  <2>. QED  BY <2>1, <2>2
<1>3. CASE TurnStep
  BY <1>0, <1>3, HandUntouched
  DEF TurnStep, TurnEnd, TurnEndUnseen, TurnEndRespawn, TurnEndQueue, StreamOpens,
      Stop, lockVars, storeVars, bookVars
<1>4. CASE ProcessStep
  <2>1. /\ UNCHANGED <<lock, hand, direct, queue, given>>
        /\ UNCHANGED at \/ (at = "relaunch" /\ at' = "route")
    BY <1>0, <1>4
    DEF ProcessStep, Die, TurnCrash, Resume, Revive, Refused, ResumeBy, AskRespawn, Respawn,
        RespawnSettles, Restart, Launch, LaunchFails,
        Claim, StartDrain, Started, SpawnTimeout, Exit,
        EndStart, LifeInv, lockVars, storeVars, bookVars
  <2>. QED  BY <1>0, <2>1, HandUntouched DEF HandInv, Delivering
<1>5. CASE Detach
  <2>1. lock = "nobody"  BY <1>0, <1>5 DEF Detach, LockInv, Reserved
  <2>2. at' = "free" /\ hand' = <<>> /\ direct' = FALSE /\ queue' = <<>>
    BY <1>0, <1>5, <2>1 DEF Detach, LockInv, HandInv, Delivering, lockVars, LockTypes
  <2>3. DOMAIN queue' = {}  BY <2>2
  <2>. QED  BY <2>2, <2>3 DEF HandInv, Delivering
<1>6. CASE Archived
  BY <1>0, <1>6, HandUntouched DEF Archived, lockVars, storeVars, bookVars
<1>7. ASSUME NEW trigger, Archive(trigger) PROVE HandInv'
  BY <1>0, <1>7, HandUntouched DEF Archive, lockVars, storeVars, bookVars
<1>8. CASE HostRestart
  <2>1. at' = "free" /\ hand' = <<>> /\ direct' = FALSE  BY <1>8 DEF HostRestart
  <2>2. \A i \in DOMAIN queue' : queue'[i] # <<>>
    <3>1. CASE arch = "open"
      <4>1. queue' = [i \in DOMAIN mirror |-> <<mirror[i]>>]
        BY <1>8, <3>1 DEF HostRestart
      <4>. QED  BY <4>1
    <3>2. CASE arch # "open"
      <4>1. DOMAIN queue' = {}  BY <1>8, <3>2 DEF HostRestart
      <4>. QED  BY <4>1
    <3>. QED  BY <3>1, <3>2
  <2>. QED  BY <2>1, <2>2 DEF HandInv, Delivering
<1>. QED
  BY <1>1, <1>2, <1>3, <1>4, <1>5, <1>6, <1>7, <1>8, HandHolderStep
  DEF Next, ArchiveStep

\* Who holds the lifecycle lock.
LEMMA LifeStep ==
  ASSUME TypeInv, HolderInv, Next
  PROVE  LifeInv'
<1>0. LockInv /\ LifeInv /\ LifeTypes  BY TypeParts DEF HolderInv
<1>1. ASSUME UNCHANGED lifeVars, at' # "relaunch", at # "relaunch" PROVE LifeInv'
  BY <1>0, <1>1 DEF LifeInv, lifeVars
<1>2. CASE HolderStep
  <2>1. CASE LoginTake
    BY <1>0, <2>1 DEF LoginTake, Goto, LifeInv, lifeVars
  <2>2. CASE ~LoginTake
    <3>1. UNCHANGED lifeVars /\ at' # "relaunch" /\ at # "relaunch"
      BY <1>2, <2>2
      DEF HolderStep, LoginFine, LoginDue, Route, RouteFails, Inject, InjectFails,
          Hold, Recheck, EnqueueAndFlush, Report, SenderFlush, Checkpointed,
          StartTurn, HandOff, HandOffFails, Requeue, ClearDelivered, Goto, Release,
          Decide
    <3>. QED  BY <1>1, <3>1
  <2>. QED  BY <2>1, <2>2
<1>3. ASSUME NEW m \in Msgs, SendStep(m) PROVE LifeInv'
  <2>1. UNCHANGED lifeVars /\ (UNCHANGED at \/ (at = "free" /\ at' = "login"))
    BY <1>0, <1>3 DEF SendStep, Send, Acquire, lockVars, LockInv
  <2>. QED  BY <1>0, <2>1 DEF LifeInv, lifeVars
<1>4. CASE TaskFlush
  <2>1. UNCHANGED lifeVars /\ (UNCHANGED at \/ (at = "free" /\ at' = "checkpoint"))
    BY <1>0, <1>4 DEF TaskFlush, LockInv
  <2>. QED  BY <1>0, <2>1 DEF LifeInv, lifeVars
<1>5. CASE TurnStep \/ ArchiveStep
  <2>1. UNCHANGED lifeVars /\ UNCHANGED at
    BY <1>5
    DEF TurnStep, TurnEnd, TurnEndUnseen, TurnEndRespawn, TurnEndQueue, StreamOpens,
        Stop, ArchiveStep, Detach, Archived, Archive, lockVars
  <2>. QED  BY <1>0, <2>1 DEF LifeInv, lifeVars
<1>6. CASE ProcessStep
  <2>1. CASE EndStart  BY <1>0, <2>1 DEF EndStart, LifeInv
  <2>2. CASE UNCHANGED lifeVars /\ UNCHANGED at
    BY <1>0, <2>2 DEF LifeInv, lifeVars
  <2>3. CASE /\ UNCHANGED <<life, at>> /\ phase # "free"
             /\ phase' \in {"launch", "claim", "drain", "done"}
    BY <1>0, <2>3 DEF LifeInv
  <2>4. CASE /\ life = "nobody" /\ phase' # "free" /\ UNCHANGED at
             /\ \/ life' \in {"resume", "revive"} /\ phase' = "launch"
                \/ life' = "respawn"
    BY <1>0, <2>4 DEF LifeInv
  <2>5. CASE Die \/ TurnCrash \/ AskRespawn \/ SpawnTimeout \/ \E s \in {"idle", "error"} : Exit(s)
    BY <2>2, <2>5 DEF Die, TurnCrash, AskRespawn, SpawnTimeout, Exit, lockVars
  <2>6. CASE Resume \/ Revive \/ Respawn
    BY <2>2, <2>4, <2>6 DEF Resume, Revive, Refused, ResumeBy, Respawn, lockVars
  <2>9. CASE RespawnSettles
    <3>1. life # "login"  BY <1>0, <2>9 DEF RespawnSettles, LifeInv
    <3>. QED  BY <1>0, <2>9, <3>1 DEF RespawnSettles, LifeInv, lockVars
  <2>7. CASE Restart \/ Launch \/ StartDrain
    BY <2>3, <2>7 DEF Restart, Launch, StartDrain, lockVars
  <2>8. CASE LaunchFails \/ Claim \/ Started
    BY <2>1, <2>3, <2>8 DEF LaunchFails, Claim, Started, lockVars
  <2>. QED  BY <1>6, <2>5, <2>6, <2>7, <2>8, <2>9 DEF ProcessStep
<1>7. CASE HostRestart  BY <1>7 DEF HostRestart, LifeInv
<1>. QED  BY <1>2, <1>3, <1>4, <1>5, <1>6, <1>7 DEF Next

\* Every step keeps what is said of the holders of the two locks.
LEMMA HolderInvStep ==
  ASSUME TypeInv, HolderInv, [Next]_vars
  PROVE  HolderInv'
<1>1. CASE Next  BY <1>1, LockStep, HandStep, LifeStep DEF HolderInv
<1>2. CASE UNCHANGED vars
  <2>1. /\ UNCHANGED <<lock, at, sender, arch, mode, hand, direct, queue, given>>
        /\ UNCHANGED lifeVars
    BY <1>2 DEF vars, lockVars, storeVars, bookVars
  <2>2. LockInv' /\ HandInv'
    BY <2>1, LockUntouched, HandUntouched DEF HolderInv
  <2>3. LifeInv'  BY <2>1 DEF HolderInv, LifeInv, lifeVars
  <2>. QED  BY <2>2, <2>3 DEF HolderInv
<1>. QED  BY <1>1, <1>2


-----------------------------------------------------------------------------
(* 6. Running comes with a turn                                            *)

\* No agent is Running initially.
LEMMA RunningInit == Init => RunningInv
BY DEF Init, RunningInv, Starting, RunningEnds

\* Leaving the status and the process alone matters at a hand-off only.
LEMMA RunningElsewhere ==
  ASSUME RunningInv, UNCHANGED <<status, proc, working, phase>>,
         at # "handoff", at' # "handoff"
  PROVE  RunningInv'
BY DEF RunningInv, Starting, RunningEnds

\* A step that leaves status, process and hand-off alone.
LEMMA RunningUntouched ==
  ASSUME RunningInv, UNCHANGED <<status, proc, working, phase, resting>>,
         at = "handoff" <=> at' = "handoff"
  PROVE  RunningInv'
BY DEF RunningInv, Starting, RunningEnds

\* The steps of a delivery: a failed hand-off reverts the Running it raised.
LEMMA RunningHolderStep ==
  ASSUME RunningInv, HolderStep
  PROVE  RunningInv'
<1>1. CASE LoginTake
  BY <1>1 DEF LoginTake, Goto, RunningInv, Starting, RunningEnds, Busy, lifeVars
<1>2. CASE StartTurn
  BY <1>2 DEF StartTurn, RunningInv, Starting, RunningEnds, lifeVars
<1>3. CASE HandOff
  <2>1. /\ UNCHANGED <<status, proc, phase>> /\ working' = TRUE /\ proc = "alive"
        /\ at' # "handoff"
    BY <1>3 DEF HandOff, Release, Goto, lifeVars
  <2>. QED  BY <2>1 DEF RunningInv, Starting, RunningEnds
<1>4. CASE HandOffFails
  BY <1>4 DEF HandOffFails, Goto, RunningInv, Starting, RunningEnds, lifeVars
<1>5. CASE Inject
  BY <1>5 DEF Inject, Release, RunningInv, Starting, RunningEnds, lifeVars
<1>6. CASE ~(LoginTake \/ StartTurn \/ HandOff \/ HandOffFails \/ Inject)
  <2>1. /\ UNCHANGED <<status, proc, working, phase>>
        /\ at # "handoff" /\ at' # "handoff"
    BY <1>6
    DEF HolderStep, LoginFine, LoginDue, Route, RouteFails, InjectFails,
        Hold, Recheck, EnqueueAndFlush, Report, SenderFlush, Checkpointed,
        Requeue, ClearDelivered, Goto, Release, Decide, agentVars, lifeVars
  <2>. QED  BY <2>1, RunningElsewhere
<1>. QED  BY <1>1, <1>2, <1>3, <1>4, <1>5, <1>6

\* A process is taken away only from an agent that is not Running.
LEMMA RunningProcessStep ==
  ASSUME HolderInv, RunningInv, ProcessStep
  PROVE  RunningInv'
<1>0. LifeInv  BY DEF HolderInv
<1>1. CASE Die
  BY <1>1 DEF Die, RunningInv, Starting, RunningEnds, lifeVars, lockVars
<1>2. ASSUME NEW s \in {"idle", "error"}, Exit(s) PROVE RunningInv'
  BY <1>2 DEF Exit, SetStatus, RunningInv, Starting, RunningEnds, lifeVars, lockVars
<1>3. CASE TurnCrash
  BY <1>3 DEF TurnCrash, SetStatus, RunningInv, Starting, RunningEnds, lifeVars, lockVars
<1>4. ASSUME NEW who, ResumeBy(who) PROVE RunningInv'
  <2>1. CASE proc # "none"
    BY <1>4, <2>1, RunningUntouched DEF ResumeBy, lifeVars, lockVars
  <2>2. CASE proc = "none"
    BY <1>4, <2>2 DEF ResumeBy, SetStatus, RunningInv, Starting, RunningEnds, lockVars
  <2>. QED  BY <2>1, <2>2
<1>5. CASE AskRespawn
  BY <1>5, RunningUntouched DEF AskRespawn, agentVars, lifeVars, lockVars
<1>6. CASE Respawn
  <2>1. /\ UNCHANGED <<status, resting, at>>
        /\ \/ UNCHANGED <<proc, working>> /\ phase' \notin Starting
           \/ proc' = "none" /\ working' = FALSE /\ status # "running"
           \/ proc = "none" /\ proc' = "none" /\ working' = FALSE
    BY <1>6 DEF Respawn, Busy, Starting, lockVars
  <2>. QED  BY <2>1 DEF RunningInv, Starting, RunningEnds
<1>15. CASE RespawnSettles
  <2>1. /\ UNCHANGED <<status, proc, working, resting, at>>
        /\ phase' \in Starting => phase \in Starting
    BY <1>15 DEF RespawnSettles, Starting, lockVars
  <2>. QED  BY <2>1 DEF RunningInv, Starting, RunningEnds
<1>16. CASE Refused
  BY <1>16, RunningUntouched DEF Refused, agentVars, lifeVars, lockVars
<1>7. CASE Restart
  BY <1>7 DEF Restart, SetStatus, RunningInv, Starting, RunningEnds, lockVars
<1>8. CASE Launch
  BY <1>8 DEF Launch, RunningInv, Starting, RunningEnds, lockVars
<1>9. ASSUME EndStart, UNCHANGED <<status, proc, working>> PROVE RunningInv'
  <2>1. phase' = "free" /\ UNCHANGED resting /\ (at = "handoff" <=> at' = "handoff")
    BY <1>0, <1>9 DEF EndStart, LifeInv
  <2>. QED  BY <1>9, <2>1 DEF RunningInv, Starting, RunningEnds
<1>10. CASE LaunchFails
  <2>1. CASE SetStatus("error")
    <3>1. status' = "error" /\ phase' = "free" /\ UNCHANGED <<proc, working>>
      BY <1>10, <2>1 DEF LaunchFails, EndStart, SetStatus
    <3>. QED  BY <3>1 DEF RunningInv, Starting, RunningEnds
  <2>2. CASE UNCHANGED status
    BY <1>9, <1>10, <2>2 DEF LaunchFails
  <2>. QED  BY <1>10, <2>1, <2>2 DEF LaunchFails
<1>11. CASE Claim
  <2>1. CASE status = "spawning"
    <3>1. status' = "idle" /\ phase' = "drain" /\ UNCHANGED <<proc, working>>
      BY <1>11, <2>1 DEF Claim, SetStatus
    <3>. QED  BY <3>1 DEF RunningInv, Starting, RunningEnds
  <2>2. CASE status = "error"
    <3>1. status' = "error" /\ phase' = "free" /\ proc' = "none" /\ working' = FALSE
      BY <1>11, <2>2 DEF Claim, EndStart
    <3>. QED  BY <3>1 DEF RunningInv, Starting, RunningEnds
  <2>3. CASE status \notin {"spawning", "error"}
    <3>1. phase' = "done" /\ UNCHANGED <<status, proc, working>> /\ UNCHANGED lockVars
      BY <1>11, <2>3 DEF Claim
    <3>. QED  BY <3>1 DEF RunningInv, Starting, RunningEnds, lockVars
  <2>. QED  BY <2>1, <2>2, <2>3
<1>12. CASE StartDrain
  <2>1. phase' = "done" /\ UNCHANGED <<status, proc, working>> /\ UNCHANGED lockVars
    BY <1>12 DEF StartDrain
  <2>. QED  BY <2>1 DEF RunningInv, Starting, RunningEnds, lockVars
<1>13. CASE Started
  BY <1>9, <1>13 DEF Started
<1>14. CASE SpawnTimeout
  BY <1>14 DEF SpawnTimeout, SetStatus, RunningInv, Starting, RunningEnds, lifeVars, lockVars
<1>. QED
  BY <1>1, <1>2, <1>3, <1>4, <1>5, <1>6, <1>7, <1>8, <1>10, <1>11, <1>12, <1>13,
     <1>14, <1>15, <1>16 DEF ProcessStep, Resume, Revive

\* Every step keeps RunningInv.
LEMMA RunningStep ==
  ASSUME HolderInv, RunningInv, [Next]_vars
  PROVE  RunningInv'
<1>0. LockInv  BY DEF HolderInv
<1>1. ASSUME NEW m \in Msgs, SendStep(m) PROVE RunningInv'
  <2>1. UNCHANGED <<status, proc, working, phase, resting>>
        /\ (UNCHANGED at \/ (at = "free" /\ at' = "login"))
    BY <1>0, <1>1 DEF SendStep, Send, Acquire, agentVars, lifeVars, lockVars, LockInv
  <2>. QED  BY <2>1, RunningUntouched
<1>2. CASE TaskFlush
  <2>1. UNCHANGED <<status, proc, working, phase, resting>>
        /\ (UNCHANGED at \/ (at = "free" /\ at' = "checkpoint"))
    BY <1>0, <1>2 DEF TaskFlush, agentVars, lifeVars, LockInv
  <2>. QED  BY <2>1, RunningUntouched
<1>3. CASE TurnEnd
  BY <1>3 DEF TurnEnd, SetStatus, RunningInv, Starting, RunningEnds, lifeVars, lockVars
<1>4. CASE TurnEndUnseen
  BY <1>4 DEF TurnEndUnseen, EndsTurn, RunningInv, Starting, RunningEnds, lifeVars, lockVars
<1>5. CASE StreamOpens
  BY <1>5 DEF StreamOpens, RunningInv, Starting, RunningEnds, lifeVars, lockVars
<1>6. CASE TurnEndRespawn \/ TurnEndQueue \/ Stop
  BY <1>6, RunningUntouched DEF TurnEndRespawn, TurnEndQueue, Stop, lifeVars, lockVars
<1>7. CASE Detach
  BY <1>7 DEF Detach, RunningInv, Starting, RunningEnds
<1>8. CASE Archived \/ \E trigger \in {"User", "Sweep"} : Archive(trigger)
  BY <1>8, RunningUntouched DEF Archived, Archive, agentVars, lifeVars, lockVars
<1>9. CASE HostRestart
  BY <1>9 DEF HostRestart, RunningInv, Starting, RunningEnds
<1>10. CASE UNCHANGED vars
  BY <1>10, RunningUntouched DEF vars, agentVars, lifeVars, lockVars
<1>. QED
  BY <1>1, <1>2, <1>3, <1>4, <1>5, <1>6, <1>7, <1>8, <1>9, <1>10,
     RunningHolderStep, RunningProcessStep
  DEF Next, TurnStep, ArchiveStep


-----------------------------------------------------------------------------
(* 7. Nothing is lost                                                      *)

\* A message that left the queue or the hand was given, or is back in the other.
LEMMA SafeUntouched ==
  ASSUME NEW m, Safe(m), UNCHANGED <<given, mirror, queue, hand>>
  PROVE  Safe(m)'
BY DEF Safe

\* The range of a sequence with one more element.
LEMMA RangeOfAppend ==
  ASSUME NEW s \in Seq(Msgs), NEW m \in Msgs
  PROVE  Range(Append(s, m)) = Range(s) \cup {m}
<1> DEFINE b == <<m>>
<1>1. Append(s, m) = s \o b  BY AppendIsConcat
<1>2. b \in Seq(Msgs) /\ Range(b) = {m}  BY Single DEF Batch
<1> HIDE DEF b
<1>. QED  BY <1>1, <1>2, RangeOfConcat

\* The steps of a delivery lose no message.
LEMMA SafeHolderStep ==
  ASSUME TypeInv, HolderInv, HolderStep, NEW m \in Msgs, Safe(m)
  PROVE  Safe(m)'
<1>0. LockInv /\ HandInv /\ LockTypes /\ StoreTypes /\ GivenTypes
  BY TypeParts DEF HolderInv
<1>1. CASE LoginFine \/ LoginDue \/ LoginTake \/ Recheck \/ Checkpointed
           \/ StartTurn \/ HandOffFails
  BY <1>1, SafeUntouched
  DEF LoginFine, LoginDue, LoginTake, Recheck, Checkpointed, StartTurn, HandOffFails,
      Goto, storeVars, bookVars
<1>2. CASE Route \/ RouteFails \/ Report \/ (SenderFlush /\ queue = <<>>)
  <2>1. hand = <<>> /\ UNCHANGED <<given, mirror, queue>>
    BY <1>0, <1>2
    DEF Route, RouteFails, Report, SenderFlush, HandInv, Delivering, storeVars, bookVars
  <2>. QED  BY <2>1, MembersOfNone DEF Safe
<1>3. CASE Inject
  <2>1. lock \in Msgs /\ hand = <<>>
    BY <1>0, <1>3 DEF Inject, LockInv, HandInv, Delivering, LockTypes
  <2>2. Range(given') = Range(given) \cup {lock}
    BY <1>0, <1>3, <2>1, RangeOfAppend DEF Inject, GivenTypes
  <2>3. UNCHANGED <<mirror, queue>>  BY <1>3 DEF Inject
  <2>. QED  BY <2>1, <2>2, <2>3, MembersOfNone DEF Safe
<1>4. CASE InjectFails \/ Hold \/ EnqueueAndFlush
  <2>1. lock \in Msgs /\ PersistAndEnqueue(lock) /\ UNCHANGED <<hand, given>>
    BY <1>0, <1>4
    DEF InjectFails, Hold, EnqueueAndFlush, Goto, LockInv, Delivering, LockTypes, bookVars
  <2>2. /\ Members(queue') = Members(queue) \cup {lock}
        /\ Range(mirror') = Range(mirror) \cup {lock}
    BY <2>1, Enqueued
  <2>. QED  BY <2>1, <2>2 DEF Safe
<1>5. CASE SenderFlush /\ queue # <<>>
  <2>1. hand = <<>> /\ DrainCoalesced /\ UNCHANGED <<mirror, given>>
    BY <1>0, <1>5 DEF SenderFlush, HandInv, Delivering, bookVars
  <2>2. Range(hand') = Members(queue)  BY <2>1, DrainTyped
  <2>. QED  BY <2>1, <2>2, MembersOfNone DEF Safe
<1>6. CASE HandOff
  <2>1. Range(given') = Range(given) \cup Range(hand)
    <3>1. given \in Seq(Msgs) /\ hand \in Seq(Msgs)
      BY <1>0 DEF GivenTypes, LockTypes, Batch
    <3>. QED  BY <1>6, <3>1, RangeOfConcat DEF HandOff
  <2>2. UNCHANGED <<mirror, queue>>  BY <1>6 DEF HandOff, storeVars
  <2>. QED  BY <2>1, <2>2 DEF Safe
<1>7. CASE Requeue
  <2>1. UNCHANGED given  BY <1>7 DEF Requeue
  <2>2. CASE direct
    <3>1. lock \in Msgs /\ PersistAndEnqueue(lock) /\ hand = <<lock>>
      BY <1>0, <1>7, <2>2 DEF Requeue, HandInv
    <3>2. /\ Members(queue') = Members(queue) \cup {lock}
          /\ Range(mirror') = Range(mirror) \cup {lock} /\ Range(hand) = {lock}
      BY <3>1, Enqueued, Single
    <3>. QED  BY <2>1, <3>2 DEF Safe
  <2>3. CASE ~direct
    <3>1. queue' = <<hand>> /\ queue = <<>> /\ hand \in Batch /\ UNCHANGED mirror
      BY <1>0, <1>7, <2>3, Requeued DEF Requeue, LockTypes
    <3>2. Members(queue') = Range(hand) /\ Members(queue) = {}
      BY <3>1, MembersOfOne, MembersOfNone
    <3>. QED  BY <2>1, <3>1, <3>2 DEF Safe
  <2>. QED  BY <2>2, <2>3
<1>8. CASE ClearDelivered
  <2>1. queue = <<>> /\ Range(hand) \subseteq Range(given) /\ UNCHANGED given
    BY <1>0, <1>8 DEF ClearDelivered, HandInv, Delivering, bookVars
  <2>. QED  BY <2>1, MembersOfNone DEF Safe
<1>. QED
  BY <1>1, <1>2, <1>3, <1>4, <1>5, <1>6, <1>7, <1>8 DEF HolderStep

\* No step loses a message but an archive.
LEMMA SafeStep ==
  ASSUME TypeInv, HolderInv, Next, ~Detach, HostRestart => arch = "open",
         NEW m \in Msgs, Safe(m)
  PROVE  Safe(m)'
<1>0. LockInv /\ HandInv /\ LockTypes /\ StoreTypes  BY TypeParts DEF HolderInv
<1>1. ASSUME NEW n \in Msgs, SendStep(n) PROVE Safe(m)'
  BY <1>1, SafeUntouched DEF SendStep, Send, Acquire, storeVars, lockVars, bookVars
<1>2. CASE TaskFlush
  <2>1. CASE Reserved \/ queue = <<>>
    BY <1>2, <2>1, SafeUntouched DEF TaskFlush, bookVars
  <2>2. CASE ~(Reserved \/ queue = <<>>)
    <3>1. hand = <<>> /\ DrainCoalesced /\ UNCHANGED <<mirror, given>>
      BY <1>0, <1>2, <2>2 DEF TaskFlush, LockInv, HandInv, Delivering, bookVars
    <3>2. Range(hand') = Members(queue)  BY <3>1, DrainTyped
    <3>. QED  BY <3>1, <3>2, MembersOfNone DEF Safe
  <2>. QED  BY <2>1, <2>2
<1>3. CASE TurnStep
  BY <1>3, SafeUntouched
  DEF TurnStep, TurnEnd, TurnEndUnseen, TurnEndRespawn, TurnEndQueue, StreamOpens,
      Stop, lockVars, storeVars, bookVars
<1>4. CASE ProcessStep
  <2>1. UNCHANGED <<given, mirror, queue, hand>>
    BY <1>4
    DEF ProcessStep, Die, TurnCrash, Resume, Revive, Refused, ResumeBy, AskRespawn, Respawn,
        RespawnSettles, Restart, Launch, LaunchFails,
        Claim, StartDrain, Started, SpawnTimeout, Exit,
        EndStart, lockVars, storeVars, bookVars
  <2>. QED  BY <2>1, SafeUntouched
<1>5. CASE Archived \/ \E trigger \in {"User", "Sweep"} : Archive(trigger)
  BY <1>5, SafeUntouched DEF Archived, Archive, lockVars, storeVars, bookVars
<1>6. CASE HostRestart
  <2>1. /\ queue' = [i \in DOMAIN mirror |-> <<mirror[i]>>]
        /\ UNCHANGED <<mirror, given>>
    BY <1>6 DEF HostRestart
  <2>2. Members(queue') = Range(mirror)
    BY <1>0, <2>1, Reloaded DEF StoreTypes
  <2>. QED  BY <2>1, <2>2 DEF Safe
<1>. QED
  BY <1>1, <1>2, <1>3, <1>4, <1>5, <1>6, SafeHolderStep DEF Next, ArchiveStep

\* Nothing is held initially.
LEMMA KeptInit == Init => KeptInv
BY DEF Init, KeptInv, Placed, Delivering

\* A send call that reports its message as held put it in the queue before.
LEMMA HeldStep ==
  ASSUME TypeInv, HolderInv, Next, NEW m \in Msgs, sender'[m] = "held"
  PROVE  sender[m] = "held" \/ (Report /\ lock = m)
<1>0. SendTypes /\ LockTypes  BY TypeParts
<1>1. ASSUME NEW n \in Msgs, SendStep(n) PROVE sender[m] = "held"
  BY <1>0, <1>1 DEF SendStep, Send, Acquire, SendTypes
<1>2. ASSUME NEW r \in SendState, Release(r), r # "held" PROVE sender[m] = "held"
  BY <1>0, <1>2 DEF Release, SendTypes
<1>3. CASE Report
  BY <1>0, <1>3 DEF Report, Release, SendTypes
<1>4. CASE HolderStep /\ ~Report
  <2>1. UNCHANGED sender \/ Release("sent") \/ Release("failed")
    BY <1>4
    DEF HolderStep, LoginFine, LoginDue, LoginTake, Route, RouteFails, Inject,
        InjectFails, Hold, Recheck, EnqueueAndFlush, SenderFlush, Checkpointed,
        StartTurn, HandOff, HandOffFails, Requeue, ClearDelivered, Goto
  <2>2. "sent" \in SendState /\ "failed" \in SendState  BY DEF SendState
  <2>. QED  BY <1>2, <2>1, <2>2
<1>5. CASE TaskFlush \/ TurnStep \/ ProcessStep \/ ArchiveStep
  BY <1>5
  DEF TaskFlush, TurnStep, TurnEnd, TurnEndUnseen, TurnEndRespawn, TurnEndQueue,
      StreamOpens, Stop, ProcessStep, Die, TurnCrash, Resume, Revive, Refused, ResumeBy,
      AskRespawn, Respawn, RespawnSettles, Restart, Launch, LaunchFails,
      Claim, StartDrain, Started,
      SpawnTimeout, Exit, ArchiveStep, Detach, Archived, Archive
<1>6. CASE HostRestart
  BY <1>0, <1>6 DEF HostRestart, SendTypes
<1>. QED  BY <1>1, <1>3, <1>4, <1>5, <1>6 DEF Next

\* The archive is only ever gone on with.
LEMMA ArchStep ==
  ASSUME TypeInv, Next, arch' \in {"open", "begun", "swept"}
  PROVE  /\ arch \in {"open", "begun", "swept"} /\ ~Detach
         /\ arch' # arch => arch = "open" /\ lock = "nobody"
         /\ arch' = "swept" /\ arch # "swept" => queue' = <<>>
         /\ HostRestart => arch = "open"
<1>1. CASE Detach \/ Archived  BY <1>1 DEF Detach, Archived
<1>2. ASSUME NEW trigger \in {"User", "Sweep"}, Archive(trigger)
      PROVE  /\ arch = "open" /\ lock = "nobody" /\ ~Detach
             /\ arch' = "swept" => queue' = <<>>
             /\ HostRestart => arch = "open"
  BY <1>2 DEF Archive, RouteOpen, Detach, HostRestart, storeVars
<1>3. CASE HostRestart
  BY <1>3 DEF HostRestart, Detach
<1>4. CASE ~(ArchiveStep \/ HostRestart)
  <2>1. UNCHANGED arch
    BY <1>4
    DEF Next, SendStep, Send, Acquire, HolderStep, LoginFine, LoginDue, LoginTake,
        Route, RouteFails, Inject, InjectFails, Hold, Recheck, EnqueueAndFlush, Report,
        SenderFlush, Checkpointed, StartTurn, HandOff, HandOffFails, Requeue,
        ClearDelivered, TaskFlush, TurnStep, TurnEnd, TurnEndUnseen, TurnEndRespawn,
        TurnEndQueue, StreamOpens, Stop, ProcessStep, Die, TurnCrash, Resume, Revive, Refused,
        ResumeBy, AskRespawn, Respawn, RespawnSettles, Restart, Launch, LaunchFails,
        Claim, StartDrain,
        Started, SpawnTimeout, Exit
  <2>. QED  BY <1>4, <2>1 DEF ArchiveStep
<1>. QED  BY <1>1, <1>2, <1>3, <1>4 DEF ArchiveStep


\* Whose message has been placed in the queue, or just is.
LEMMA PlacedStep ==
  ASSUME TypeInv, HolderInv, Next, lock' \in Msgs, at' \in Placed, ~direct'
  PROVE  /\ lock' = lock /\ ~Detach /\ ~HostRestart
         /\ (at \in Placed /\ ~direct) \/ PersistAndEnqueue(lock)
<1>0. LockInv /\ HandInv /\ LifeInv /\ LockTypes  BY TypeParts DEF HolderInv
<1>1. "nobody" \notin Msgs /\ "flush" \notin Msgs
  BY DeliveryAssumption DEF DeliveryAssumption
<1>2. ASSUME UNCHANGED lockVars, lock # "nobody" PROVE at \in Placed /\ ~direct /\ lock' = lock
  BY <1>2 DEF lockVars
<1>3. ~HostRestart  BY <1>1 DEF HostRestart
<1>4. ~Detach
  <2>1. Detach => lock = "nobody" /\ lock' = lock
    BY <1>0 DEF Detach, LockInv, Reserved, lockVars
  <2>. QED  BY <1>1, <2>1
<1>5. ASSUME NEW m \in Msgs, SendStep(m) PROVE lock' = lock /\ at \in Placed /\ ~direct
  <2>1. at' # "login"  BY DEF Placed, Delivering
  <2>. QED  BY <1>5, <2>1 DEF SendStep, Send, Acquire, lockVars
<1>6. CASE TaskFlush
  BY <1>1, <1>6 DEF TaskFlush
<1>7. CASE TurnStep
  <2>1. UNCHANGED lockVars
    BY <1>7
    DEF TurnStep, TurnEnd, TurnEndUnseen, TurnEndRespawn, TurnEndQueue, StreamOpens,
        Stop
  <2>. QED  BY <1>3, <1>4, <2>1 DEF lockVars
<1>8. CASE ProcessStep
  <2>1. UNCHANGED <<lock, direct>> /\ (UNCHANGED at \/ at' = "route")
    BY <1>8
    DEF ProcessStep, Die, TurnCrash, Resume, Revive, Refused, ResumeBy, AskRespawn, Respawn,
        RespawnSettles, Restart, Launch, LaunchFails,
        Claim, StartDrain, Started, SpawnTimeout, Exit,
        EndStart, lockVars
  <2>. QED  BY <1>3, <1>4, <2>1 DEF Placed, Delivering
<1>9. CASE Archived \/ \E trigger \in {"User", "Sweep"} : Archive(trigger)
  BY <1>3, <1>4, <1>9 DEF Archived, Archive, lockVars
<1>10. CASE HolderStep
  <2>1. CASE LoginFine \/ LoginDue \/ LoginTake \/ Route
    <3>1. at' \notin Placed \/ direct'
      BY <2>1
      DEF LoginFine, LoginDue, LoginTake, Route, Decide, Goto, Placed, Delivering
    <3>. QED  BY <3>1
  <2>2. ASSUME NEW r, Release(r) PROVE FALSE  BY <1>1, <2>2 DEF Release
  <2>3. CASE InjectFails \/ Hold \/ EnqueueAndFlush
    BY <1>3, <1>4, <2>3 DEF InjectFails, Hold, EnqueueAndFlush, Goto
  <2>4. CASE Recheck
    BY <1>0, <1>3, <1>4, <2>4 DEF Recheck, Goto, HandInv, Placed, Delivering
  <2>5. CASE SenderFlush
    <3>1. at = "flush" /\ UNCHANGED lock  BY <2>2, <2>5 DEF SenderFlush
    <3>. QED  BY <1>0, <1>3, <1>4, <3>1 DEF HandInv, Placed, Delivering
  <2>6. CASE Checkpointed \/ StartTurn \/ HandOffFails
    BY <1>3, <1>4, <2>6 DEF Checkpointed, StartTurn, HandOffFails, Goto, Placed, Delivering
  <2>7. CASE HandOff
    <3>1. at = "handoff" /\ UNCHANGED <<lock, direct>>  BY <2>2, <2>7 DEF HandOff, Goto
    <3>. QED  BY <1>3, <1>4, <3>1 DEF Placed, Delivering
  <2>8. CASE Requeue
    BY <1>1, <1>3, <1>4, <2>8 DEF Requeue, Placed, Delivering
  <2>9. CASE RouteFails \/ Inject \/ Report \/ ClearDelivered
    BY <2>2, <2>9 DEF RouteFails, Inject, Report, ClearDelivered
  <2>. QED
    BY <1>10, <2>1, <2>3, <2>4, <2>5, <2>6, <2>7, <2>8, <2>9 DEF HolderStep
<1>. QED
  BY <1>3, <1>4, <1>5, <1>6, <1>7, <1>8, <1>9, <1>10 DEF Next, ArchiveStep

\* The unattended archive keeps the queue empty.
LEMMA SweptStep ==
  ASSUME HolderInv, Next, arch = "swept", arch' = "swept", queue = <<>>
  PROVE  queue' = <<>>
<1>0. LockInv /\ Reserved  BY DEF HolderInv, Reserved
<1>1. at = "free"  BY <1>0 DEF LockInv
<1>2. ~HolderStep
  BY <1>1
  DEF HolderStep, LoginFine, LoginDue, LoginTake, Route, RouteFails, Inject,
      InjectFails, Hold, Recheck, EnqueueAndFlush, Report, SenderFlush, Checkpointed,
      StartTurn, HandOff, HandOffFails, Requeue, ClearDelivered
<1>3. ~HostRestart /\ ~Detach /\ ~Archived  BY DEF HostRestart, Detach, Archived
<1>4. CASE TaskFlush  BY <1>0, <1>4 DEF TaskFlush
<1>5. ASSUME NEW m \in Msgs, SendStep(m) PROVE queue' = <<>>
  BY <1>5 DEF SendStep, Send, Acquire, storeVars
<1>6. CASE TurnStep
  BY <1>6
  DEF TurnStep, TurnEnd, TurnEndUnseen, TurnEndRespawn, TurnEndQueue, StreamOpens,
      Stop, storeVars
<1>7. CASE ProcessStep
  <2>1. CASE \/ Resume \/ Revive \/ AskRespawn \/ Respawn \/ RespawnSettles
             \/ Restart \/ Launch \/ LaunchFails
    BY <2>1
    DEF Resume, Revive, Refused, ResumeBy, AskRespawn, Respawn, RespawnSettles, Restart,
        Launch, LaunchFails, storeVars
  <2>2. CASE Die \/ TurnCrash \/ SpawnTimeout \/ \E s \in {"idle", "error"} : Exit(s)
    BY <2>2 DEF Die, TurnCrash, SpawnTimeout, Exit, storeVars
  <2>3. CASE Claim \/ StartDrain \/ Started
    BY <2>3 DEF Claim, StartDrain, Started, storeVars
  <2>. QED  BY <1>7, <2>1, <2>2, <2>3 DEF ProcessStep
<1>8. CASE \E trigger \in {"User", "Sweep"} : Archive(trigger)
  BY <1>8 DEF Archive, storeVars
<1>. QED
  BY <1>2, <1>3, <1>4, <1>5, <1>6, <1>7, <1>8 DEF Next, ArchiveStep

\* Every step keeps KeptInv.
LEMMA KeptStep ==
  ASSUME TypeInv, HolderInv, KeptInv, [Next]_vars
  PROVE  KeptInv'
<1>0. LockTypes  BY TypeParts
<1>1. CASE UNCHANGED vars
  <2>1. UNCHANGED <<given, mirror, queue, hand, sender, arch, lock, at, direct>>
    BY <1>1 DEF vars, storeVars, lockVars, bookVars
  <2>. QED  BY <2>1 DEF KeptInv, Safe, Members
<1>2. CASE Next
  <2>1. ASSUME NEW m \in Msgs, sender'[m] = "held", arch' \in {"open", "begun", "swept"}
        PROVE  Safe(m)'
    <3>1. arch \in {"open", "begun", "swept"} /\ ~Detach /\ (HostRestart => arch = "open")
      BY <1>2, <2>1, ArchStep
    <3>2. CASE sender[m] = "held"
      <4>1. Safe(m)  BY <3>1, <3>2 DEF KeptInv
      <4>. QED  BY <1>2, <3>1, <4>1, SafeStep
    <3>3. CASE Report /\ lock = m
      <4>1. at \in Placed /\ ~direct
        BY <3>3 DEF Report, Placed, HolderInv, HandInv, Delivering
      <4>2. Safe(m)  BY <3>3, <4>1 DEF KeptInv
      <4>. QED  BY <1>2, <3>1, <4>2, SafeStep
    <3>. QED  BY <1>2, <2>1, <3>2, <3>3, HeldStep
  <2>2. ASSUME lock' \in Msgs, at' \in Placed, ~direct' PROVE Safe(lock)'
    <3>1. PICK m \in Msgs : m = lock'  BY <2>2
    <3>2. /\ lock = m /\ ~Detach /\ ~HostRestart
          /\ (at \in Placed /\ ~direct) \/ PersistAndEnqueue(m)
      BY <1>2, <2>2, <3>1, PlacedStep
    <3>3. Safe(m)'
      <4>1. CASE at \in Placed /\ ~direct
        <5>1. Safe(m)  BY <3>2, <4>1 DEF KeptInv
        <5>. QED  BY <1>2, <3>2, <5>1, SafeStep
      <4>2. CASE PersistAndEnqueue(m)
        <5>1. m \in Members(queue') /\ m \in Range(mirror')  BY <4>2, Enqueued
        <5>. QED  BY <5>1 DEF Safe
      <4>. QED  BY <3>2, <4>1, <4>2
    <3>. QED  BY <3>1, <3>3 DEF Safe
  <2>3. ASSUME arch' = "swept" PROVE queue' = <<>>
    BY <1>2, <2>3, ArchStep, SweptStep DEF KeptInv
  <2>. QED  BY <2>1, <2>2, <2>3 DEF KeptInv
<1>. QED  BY <1>1, <1>2


\* What is held can be read off the queue as it would be coalesced.
LEMMA KeptIsNotLost ==
  ASSUME TypeInv, HolderInv, KeptInv
  PROVE  NothingIsLost
<1>0. queue \in Seq(Batch) /\ LockInv /\ HandInv
  BY TypeParts DEF StoreTypes, HolderInv
<1>1. Range(Coalesce(queue)) = Members(queue)  BY <1>0, CoalesceHolds
<1>2. ASSUME NEW m \in Msgs, sender[m] = "held", m \notin Range(given),
             arch \in {"open", "begun", "swept"}
      PROVE  m \in Range(mirror) /\ m \in Range(Coalesce(queue)) \cup Range(hand)
  BY <1>1, <1>2 DEF KeptInv, Safe
<1>3. arch = "swept" => queue = <<>> /\ hand = <<>>
  BY <1>0 DEF KeptInv, LockInv, HandInv, Reserved, Delivering
<1>. QED  BY <1>2, <1>3 DEF NothingIsLost

-----------------------------------------------------------------------------
(* 8. Turn rows                                                            *)

\* There are no turn rows initially.
LEMMA RowsInit == Init => RowsInv
BY DEF Init, RowsInv

\* What the steps on the rows leave waiting.
LEMMA WaitingRows ==
  ASSUME NEW r \in [Msgs -> RowState], NEW n, NEW ids, NEW m \in Msgs
  PROVE  /\ InsertTurn(r, n)[m] = "pending" => r[m] = "pending" \/ m = n
         /\ WithdrawTurns(r, ids)[m] = "pending" => r[m] = "pending" /\ m \notin ids
         /\ StampStart(r, n)[m] = "pending" => r[m] = "pending"
         /\ UnstampStart(r, n)[m] = "pending" => r[m] = "pending" \/ m = n
         /\ CloseTurns(r)[m] = "pending" => r[m] = "pending"
BY DEF InsertTurn, WithdrawTurns, StampStart, UnstampStart, CloseTurns

\* The queue is taken: its only row, or the one that replaces them, is that of
\* the batch.
LEMMA RowsDrained ==
  ASSUME TypeInv, HandInv, RowsInv, DrainCoalesced, queue # <<>>, hand = <<>>,
         UNCHANGED <<given, restarts>>
  PROVE  RowsInv'
<1>0. /\ queue \in Seq(Batch) /\ rows \in [Msgs -> RowState]
      /\ Len(queue) \in Nat \ {0} /\ DOMAIN queue = 1..Len(queue)
  BY TypeParts, EmptySeq, LenProperties DEF StoreTypes
<1>1. hand' # <<>> /\ hand' = Coalesce(queue)
  BY CoalesceSome DEF DrainCoalesced
<1>2. SUFFICES ASSUME restarts = 0, NEW m \in Msgs, rows'[m] = "pending"
               PROVE  m \in Range(given) \/ m = Id(hand')
  BY <1>1 DEF RowsInv, Due
<1>3. CASE Len(queue) > 1
  <2>1. rows' = InsertTurn(WithdrawTurns(rows, TurnIds(queue)), Id(hand'))
    BY <1>1, <1>3 DEF DrainCoalesced
  <2>2. WithdrawTurns(rows, TurnIds(queue)) \in [Msgs -> RowState]
    BY <1>0, RowsTyped
  <2>3. m = Id(hand') \/ (rows[m] = "pending" /\ m \notin TurnIds(queue))
    BY <1>0, <1>2, <2>1, <2>2, WaitingRows
  <2>. QED  BY <1>2, <2>3 DEF RowsInv, Due
<1>4. CASE Len(queue) = 1
  <2>1. rows[m] = "pending"  BY <1>2, <1>4 DEF DrainCoalesced
  <2>2. TurnIds(queue) = {Id(hand')}
    <3>1. hand' = queue[1]  BY <1>0, <1>1, <1>4, CoalesceOne
    <3>2. DOMAIN queue = {1}  BY <1>0, <1>4
    <3>. QED  BY <3>1, <3>2 DEF TurnIds
  <2>. QED  BY <1>2, <2>1, <2>2 DEF RowsInv, Due
<1>. QED  BY <1>0, <1>3, <1>4

\* Otherwise, rows go on waiting under ids that stay in the queue or in hand.
LEMMA RowsKept ==
  ASSUME RowsInv, UNCHANGED restarts,
         \A m \in Msgs : rows'[m] = "pending" => rows[m] = "pending" \/ Due(m)',
         \A m \in Msgs : Due(m) => Due(m)'
  PROVE  RowsInv'
BY DEF RowsInv

\* A step that leaves queue, hand and given messages alone.
LEMMA DueUntouched ==
  ASSUME UNCHANGED <<given, queue, hand>>, NEW m
  PROVE  Due(m) => Due(m)'
BY DEF Due

\* The steps of a delivery keep RowsInv.
LEMMA RowsHolderStep ==
  ASSUME TypeInv, HolderInv, RowsInv, HolderStep
  PROVE  RowsInv'
<1>0. LockInv /\ HandInv /\ LockTypes /\ StoreTypes /\ GivenTypes
  BY TypeParts DEF HolderInv
<1>R. rows \in [Msgs -> RowState]  BY <1>0 DEF StoreTypes
<1>1. CASE LoginFine \/ LoginDue \/ LoginTake \/ Recheck \/ Checkpointed
  <2>1. UNCHANGED <<given, queue, hand, rows, restarts>>
    BY <1>1
    DEF LoginFine, LoginDue, LoginTake, Recheck, Checkpointed, Goto, storeVars, bookVars
  <2>. QED  BY <2>1, RowsKept, DueUntouched
<1>2. CASE Route \/ RouteFails \/ Report \/ (SenderFlush /\ queue = <<>>)
  <2>1. hand = <<>> /\ UNCHANGED <<given, rows, queue, restarts>>
    BY <1>0, <1>2
    DEF Route, RouteFails, Report, SenderFlush, HandInv, Delivering, storeVars, bookVars
  <2>2. \A m \in Msgs : Due(m) => Due(m)'  BY <2>1 DEF Due
  <2>. QED  BY <2>1, <2>2, RowsKept
<1>3. CASE Inject
  <2>1. lock \in Msgs /\ hand = <<>> /\ UNCHANGED <<queue, restarts>>
    BY <1>0, <1>3 DEF Inject, LockInv, HandInv, Delivering, LockTypes
  <2>2. Range(given') = Range(given) \cup {lock}
    BY <1>0, <1>3, <2>1, RangeOfAppend DEF Inject, GivenTypes
  <2>3. \A m \in Msgs : Due(m) => Due(m)'  BY <2>1, <2>2 DEF Due
  <2>4. \A m \in Msgs : rows'[m] = "pending" => rows[m] = "pending" \/ m = lock
    BY <1>3, <1>R, WaitingRows DEF Inject
  <2>5. \A m \in Msgs : m = lock => Due(m)'  BY <2>2 DEF Due
  <2>. QED  BY <2>1, <2>3, <2>4, <2>5, RowsKept
<1>4. CASE InjectFails \/ Hold \/ EnqueueAndFlush
  <2>1. /\ lock \in Msgs /\ PersistAndEnqueue(lock)
        /\ UNCHANGED <<hand, given, rows, restarts>>
    BY <1>0, <1>4
    DEF InjectFails, Hold, EnqueueAndFlush, Goto, LockInv, Delivering, LockTypes, bookVars
  <2>2. TurnIds(queue') = TurnIds(queue) \cup {lock}  BY <2>1, Enqueued
  <2>3. \A m \in Msgs : Due(m) => Due(m)'  BY <2>1, <2>2 DEF Due
  <2>. QED  BY <2>1, <2>3, RowsKept
<1>5. CASE SenderFlush /\ queue # <<>>
  <2>1. hand = <<>> /\ DrainCoalesced /\ UNCHANGED <<given, restarts>>
    BY <1>0, <1>5 DEF SenderFlush, HandInv, Delivering, bookVars
  <2>. QED  BY <1>0, <1>5, <2>1, RowsDrained
<1>6. CASE StartTurn
  <2>1. UNCHANGED <<given, queue, hand, restarts>> /\ hand # <<>>
    BY <1>0, <1>6 DEF StartTurn, HandInv, Delivering, bookVars
  <2>2. InsertTurn(rows, Id(hand)) \in [Msgs -> RowState]  BY <1>R, RowsTyped
  <2>3. \A m \in Msgs : rows'[m] = "pending" => rows[m] = "pending" \/ m = Id(hand)
    BY <1>6, <1>R, <2>2, WaitingRows DEF StartTurn
  <2>4. \A m \in Msgs : m = Id(hand) => Due(m)'  BY <2>1 DEF Due
  <2>. QED  BY <2>1, <2>3, <2>4, RowsKept, DueUntouched
<1>7. CASE HandOff
  <2>1. Range(given') = Range(given) \cup Range(hand)
    <3>1. given \in Seq(Msgs) /\ hand \in Seq(Msgs)
      BY <1>0 DEF GivenTypes, LockTypes, Batch
    <3>. QED  BY <1>7, <3>1, RangeOfConcat DEF HandOff
  <2>2. UNCHANGED <<queue, rows, restarts>>  BY <1>7 DEF HandOff, storeVars
  <2>3. hand # <<>> => Id(hand) \in Range(hand)
    BY <1>0, IdIsMember DEF LockTypes
  <2>4. \A m \in Msgs : Due(m) => Due(m)'  BY <2>1, <2>2, <2>3 DEF Due
  <2>. QED  BY <2>2, <2>4, RowsKept
<1>8. CASE HandOffFails
  <2>1. UNCHANGED <<given, queue, hand, restarts>> /\ hand # <<>>
    BY <1>0, <1>8 DEF HandOffFails, Goto, HandInv, Delivering
  <2>2. \A m \in Msgs : rows'[m] = "pending" => rows[m] = "pending" \/ m = Id(hand)
    BY <1>8, <1>R, WaitingRows DEF HandOffFails
  <2>3. \A m \in Msgs : m = Id(hand) => Due(m)'  BY <2>1 DEF Due
  <2>. QED  BY <2>1, <2>2, <2>3, RowsKept, DueUntouched
<1>9. CASE Requeue
  <2>1. UNCHANGED <<given, rows, restarts>>  BY <1>9 DEF Requeue
  <2>2. \A m \in Msgs : Due(m) => Due(m)'
    <3>1. CASE direct
      <4>1. lock \in Msgs /\ PersistAndEnqueue(lock) /\ hand = <<lock>>
        BY <1>0, <1>9, <3>1 DEF Requeue, HandInv
      <4>2. TurnIds(queue') = TurnIds(queue) \cup {lock} /\ Id(hand) = lock
        BY <4>1, Enqueued, Single
      <4>. QED  BY <2>1, <4>2 DEF Due
    <3>2. CASE ~direct
      <4>1. queue' = <<hand>> /\ queue = <<>> /\ hand \in Batch
        BY <1>0, <1>9, <3>2, Requeued DEF LockTypes
      <4>2. TurnIds(queue') = {Id(hand)} /\ TurnIds(queue) = {}
        BY <4>1, MembersOfOne, MembersOfNone
      <4>. QED  BY <2>1, <4>2 DEF Due
    <3>. QED  BY <3>1, <3>2
  <2>. QED  BY <2>1, <2>2, RowsKept
<1>10. CASE ClearDelivered
  <2>1. /\ Range(hand) \subseteq Range(given) /\ UNCHANGED <<queue, given, rows, restarts>>
    BY <1>0, <1>10 DEF ClearDelivered, HandInv, Delivering, bookVars
  <2>2. hand # <<>> => Id(hand) \in Range(hand)
    BY <1>0, IdIsMember DEF LockTypes
  <2>3. \A m \in Msgs : Due(m) => Due(m)'  BY <2>1, <2>2 DEF Due
  <2>. QED  BY <2>1, <2>3, RowsKept
<1>. QED
  BY <1>1, <1>2, <1>3, <1>4, <1>5, <1>6, <1>7, <1>8, <1>9, <1>10 DEF HolderStep

\* Every step keeps RowsInv.
LEMMA RowsStep ==
  ASSUME TypeInv, HolderInv, RowsInv, [Next]_vars
  PROVE  RowsInv'
<1>0. LockInv /\ HandInv /\ LockTypes /\ StoreTypes  BY TypeParts DEF HolderInv
<1>R. rows \in [Msgs -> RowState]  BY <1>0 DEF StoreTypes
<1>1. ASSUME UNCHANGED <<given, queue, hand, restarts>>,
             UNCHANGED rows \/ \E s : SetStatus(s)
      PROVE  RowsInv'
  <2>1. \A m \in Msgs : rows'[m] = "pending" => rows[m] = "pending"
    BY <1>1, <1>R, WaitingRows DEF SetStatus
  <2>. QED  BY <1>1, <2>1, RowsKept, DueUntouched
<1>2. CASE TaskFlush
  <2>1. CASE Reserved \/ queue = <<>>
    BY <1>1, <1>2, <2>1 DEF TaskFlush, bookVars
  <2>2. CASE ~(Reserved \/ queue = <<>>)
    <3>1. hand = <<>> /\ DrainCoalesced /\ UNCHANGED <<given, restarts>>
      BY <1>0, <1>2, <2>2 DEF TaskFlush, LockInv, HandInv, Delivering, bookVars
    <3>. QED  BY <1>0, <2>2, <3>1, RowsDrained
  <2>. QED  BY <2>1, <2>2
<1>3. ASSUME NEW m \in Msgs, SendStep(m) PROVE RowsInv'
  BY <1>1, <1>3 DEF SendStep, Send, Acquire, storeVars, lockVars, bookVars
<1>4. CASE TurnStep
  <2>1. UNCHANGED <<given, queue, hand, restarts>> /\ (UNCHANGED rows \/ SetStatus("idle"))
    BY <1>4
    DEF TurnStep, TurnEnd, TurnEndUnseen, TurnEndRespawn, TurnEndQueue, StreamOpens,
        Stop, lockVars, storeVars, bookVars
  <2>. QED  BY <1>1, <2>1
<1>5. CASE ProcessStep
  <2>1. /\ UNCHANGED <<given, queue, hand, restarts>>
        /\ \/ UNCHANGED rows
           \/ SetStatus("spawning") \/ SetStatus("idle") \/ SetStatus("error")
    <3>1. CASE \E s \in {"idle", "error"} : Exit(s)
      BY <3>1 DEF Exit, lockVars
    <3>2. CASE Resume \/ Revive \/ Respawn \/ Restart
      BY <3>2 DEF Resume, Revive, Refused, ResumeBy, Respawn, Restart, lockVars, storeVars, bookVars
    <3>3. CASE ~((\E s \in {"idle", "error"} : Exit(s)) \/ Resume \/ Revive \/ Respawn \/ Restart)
      BY <1>5, <3>3
      DEF ProcessStep, Die, TurnCrash, AskRespawn, RespawnSettles, Launch, LaunchFails,
          Claim, StartDrain, Started, SpawnTimeout, EndStart, lockVars, storeVars, bookVars
    <3>. QED  BY <3>1, <3>2, <3>3
  <2>. QED  BY <1>1, <2>1
<1>6. CASE Detach
  <2>1. hand = <<>> /\ UNCHANGED <<given, restarts>>
    BY <1>0, <1>6 DEF Detach, LockInv, HandInv, Reserved, Delivering, bookVars
  <2>2. ASSUME restarts = 0, NEW m \in Msgs, rows'[m] = "pending" PROVE m \in Range(given)
    <3>1. rows[m] = "pending" /\ m \notin TurnIds(queue)
      BY <1>6, <2>2 DEF Detach
    <3>. QED  BY <2>1, <2>2, <3>1 DEF RowsInv, Due
  <2>. QED  BY <2>1, <2>2 DEF RowsInv, Due
<1>7. CASE Archived \/ \E trigger \in {"User", "Sweep"} : Archive(trigger)
  BY <1>1, <1>7 DEF Archived, Archive, lockVars, storeVars, bookVars
<1>8. CASE HostRestart
  <2>1. restarts \in Nat /\ restarts' = restarts + 1
    BY <1>8, TypeParts DEF HostRestart, CountTypes
  <2>. QED  BY <2>1 DEF RowsInv
<1>9. CASE UNCHANGED vars
  BY <1>1, <1>9 DEF vars, lockVars, storeVars, bookVars
<1>. QED
  BY <1>2, <1>3, <1>4, <1>5, <1>6, <1>7, <1>8, <1>9, RowsHolderStep
  DEF Next, ArchiveStep

\* The invariant on the rows is the property a run checks.
LEMMA RowsAreSettled ==
  ASSUME RowsInv
  PROVE  RowsSettled
BY DEF RowsInv, RowsSettled, Due


-----------------------------------------------------------------------------
(* 9. The queue has an owner                                               *)

\* What the status says of the process.
LEMMA StatusElsewhere ==
  ASSUME StatusInv, UNCHANGED <<status, proc, phase, mode, arch>>,
         at # "handoff", at' # "handoff"
  PROVE  StatusInv'
BY DEF StatusInv, Reverted

\* A step that leaves status, process and hand-off alone.
LEMMA StatusUntouched ==
  ASSUME StatusInv, UNCHANGED <<status, proc, phase, mode, resting>>,
         at = "handoff" <=> at' = "handoff", arch' = "open" => arch = "open"
  PROVE  StatusInv'
BY DEF StatusInv, Reverted

\* The steps of a delivery keep StatusInv.
LEMMA StatusHolderStep ==
  ASSUME RunningInv, StatusInv, HolderStep
  PROVE  StatusInv'
<1>1. CASE LoginTake
  <2>1. at # "handoff" /\ at' # "handoff" /\ UNCHANGED <<status, mode, arch>>
        /\ (UNCHANGED <<proc, phase>> \/ (proc' = "none" /\ phase' = "taken"))
    BY <1>1 DEF LoginTake, Goto, lifeVars
  <2>. QED  BY <2>1 DEF StatusInv, Reverted
<1>2. CASE StartTurn
  <2>1. /\ at = "start" /\ at' = "handoff" /\ resting' = status
        /\ status' = IF status = "error" THEN status ELSE "running"
        /\ UNCHANGED <<proc, phase, mode, arch>>
    BY <1>2 DEF StartTurn, lifeVars
  <2>. QED  BY <2>1 DEF StatusInv, Reverted, RunningInv, Starting
<1>3. CASE HandOff
  <2>1. /\ at = "handoff" /\ at' # "handoff" /\ proc = "alive"
        /\ UNCHANGED <<status, proc, phase, mode, arch>>
    BY <1>3 DEF HandOff, Release, Goto, lifeVars
  <2>. QED  BY <2>1 DEF StatusInv, Reverted, RunningInv, Starting
<1>4. CASE HandOffFails
  <2>1. /\ at = "handoff" /\ at' = "failed" /\ (proc = "alive" => mode # "Live")
        /\ status' = IF status = "running" THEN resting ELSE status
        /\ UNCHANGED <<proc, phase, mode, arch>>
    BY <1>4 DEF HandOffFails, Goto, lifeVars
  <2>. QED  BY <2>1 DEF StatusInv, Reverted, RunningInv, Starting
<1>5. CASE ~(LoginTake \/ StartTurn \/ HandOff \/ HandOffFails)
  <2>1. /\ UNCHANGED <<status, proc, phase, mode, arch>>
        /\ at # "handoff" /\ at' # "handoff"
    BY <1>5
    DEF HolderStep, LoginFine, LoginDue, Route, RouteFails, Inject, InjectFails,
        Hold, Recheck, EnqueueAndFlush, Report, SenderFlush, Checkpointed,
        Requeue, ClearDelivered, Goto, Release, Decide, agentVars, lifeVars
  <2>. QED  BY <2>1, StatusElsewhere
<1>. QED  BY <1>1, <1>2, <1>3, <1>4, <1>5

\* The steps of the process keep StatusInv.
LEMMA StatusProcessStep ==
  ASSUME HolderInv, RunningInv, StatusInv, ProcessStep
  PROVE  StatusInv'
<1>0. LifeInv  BY DEF HolderInv
<1>U. UNCHANGED <<mode, arch, resting>> /\ (at = "handoff" <=> at' = "handoff")
  <2>1. UNCHANGED <<mode, arch, resting>>
    BY DEF ProcessStep, Die, TurnCrash, Resume, Revive, Refused, ResumeBy, AskRespawn, Respawn,
           RespawnSettles, Restart, Launch, LaunchFails,
           Claim, StartDrain, Started, SpawnTimeout, Exit,
           EndStart, lockVars
  <2>2. UNCHANGED at \/ (life = "login" /\ at' = "route")
    BY DEF ProcessStep, Die, TurnCrash, Resume, Revive, Refused, ResumeBy, AskRespawn, Respawn,
           RespawnSettles, Restart, Launch, LaunchFails,
           Claim, StartDrain, Started, SpawnTimeout, Exit,
           EndStart, lockVars
  <2>. QED  BY <1>0, <2>1, <2>2 DEF LifeInv
<1>1. CASE Die
  <2>1. proc' = "broken" /\ UNCHANGED <<status, phase>> /\ proc = "alive"
    BY <1>1 DEF Die, lifeVars
  <2>2. phase # "launch"  BY <2>1 DEF RunningInv, Starting
  <2>. QED  BY <1>U, <2>1, <2>2 DEF StatusInv, Reverted
<1>2. ASSUME NEW s \in {"idle", "error"}, Exit(s) PROVE StatusInv'
  <2>1. proc' = "none" /\ proc = "broken" /\ status' \in {"idle", "error"} /\ UNCHANGED phase
    BY <1>2 DEF Exit, SetStatus, lifeVars
  <2>2. phase # "launch"  BY <2>1 DEF RunningInv, Starting
  <2>. QED  BY <1>U, <2>1, <2>2 DEF StatusInv, Reverted
<1>3. CASE TurnCrash \/ SpawnTimeout
  <2>1. proc' = "none" /\ status' = "error" /\ UNCHANGED phase
    BY <1>3 DEF TurnCrash, SpawnTimeout, SetStatus, lifeVars
  <2>. QED  BY <1>U, <2>1 DEF StatusInv, Reverted
<1>4. ASSUME NEW who, ResumeBy(who) PROVE StatusInv'
  <2>1. CASE proc # "none"
    BY <1>4, <1>U, <2>1, StatusUntouched DEF ResumeBy, lifeVars
  <2>2. CASE proc = "none"
    <3>1. status' = "spawning" /\ phase' = "launch" /\ proc' = "none"
      BY <1>4, <2>2 DEF ResumeBy, SetStatus
    <3>. QED  BY <1>U, <3>1 DEF StatusInv, Reverted
  <2>. QED  BY <2>1, <2>2
<1>5. CASE AskRespawn
  BY <1>5, <1>U, StatusUntouched DEF AskRespawn, agentVars, lifeVars
<1>6. CASE Respawn
  <2>1. /\ UNCHANGED status /\ (UNCHANGED proc \/ proc' = "none")
        /\ phase = "free" /\ phase' \in {"defer", "forget", "unflag"}
    BY <1>0, <1>6 DEF Respawn, LifeInv
  <2>. QED  BY <1>U, <2>1 DEF StatusInv, Reverted
<1>12. CASE RespawnSettles
  <2>1. /\ UNCHANGED <<status, proc>> /\ phase \in {"defer", "forget", "unflag"}
        /\ phase' \in {"free", "taken"}
    BY <1>12 DEF RespawnSettles
  <2>. QED  BY <1>U, <2>1 DEF StatusInv, Reverted
<1>13. CASE Refused
  BY <1>13, <1>U, StatusUntouched DEF Refused, agentVars, lifeVars
<1>7. CASE Restart
  <2>1. status' = "spawning" /\ phase' = "launch" /\ proc' = proc /\ proc = "none"
    BY <1>7 DEF Restart, SetStatus, RunningInv, Starting
  <2>. QED  BY <1>U, <2>1 DEF StatusInv, Reverted
<1>8. CASE Launch
  <2>1. proc = "none" /\ proc' = "alive" /\ phase = "launch" /\ phase' = "claim" /\ UNCHANGED status
    BY <1>8 DEF Launch, RunningInv, Starting
  <2>. QED  BY <1>U, <2>1 DEF StatusInv, Reverted
<1>9. CASE LaunchFails
  <2>1. proc' = "none" /\ phase' = "free" /\ (status' = "error" \/ UNCHANGED status)
    BY <1>9 DEF LaunchFails, EndStart, SetStatus, RunningInv, Starting
  <2>. QED  BY <1>U, <2>1 DEF StatusInv, Reverted
<1>10. CASE Claim
  <2>1. CASE status = "spawning"
    <3>1. status' = "idle" /\ phase' = "drain" /\ UNCHANGED proc
      BY <1>10, <2>1 DEF Claim, SetStatus
    <3>. QED  BY <1>U, <3>1 DEF StatusInv, Reverted
  <2>2. CASE status = "error"
    <3>1. UNCHANGED status /\ phase' = "free" /\ proc' = "none"
      BY <1>10, <2>2 DEF Claim, EndStart
    <3>. QED  BY <1>U, <2>2, <3>1 DEF StatusInv, Reverted
  <2>3. CASE status \notin {"spawning", "error"}
    <3>1. UNCHANGED <<status, proc>> /\ phase' = "done"  BY <1>10, <2>3 DEF Claim
    <3>. QED  BY <1>U, <2>3, <3>1 DEF StatusInv, Reverted
  <2>. QED  BY <2>1, <2>2, <2>3
<1>11. CASE StartDrain \/ Started
  <2>1. /\ UNCHANGED <<status, proc>> /\ phase \in {"drain", "done"}
        /\ phase' \in {"done", "free"}
    BY <1>11 DEF StartDrain, Started, EndStart
  <2>. QED  BY <1>U, <2>1 DEF StatusInv, Reverted
<1>. QED
  BY <1>1, <1>2, <1>3, <1>4, <1>5, <1>6, <1>7, <1>8, <1>9, <1>10, <1>11,
     <1>12, <1>13
  DEF ProcessStep, Resume, Revive

\* Every step keeps StatusInv.
LEMMA StatusStep ==
  ASSUME HolderInv, RunningInv, StatusInv, [Next]_vars
  PROVE  StatusInv'
<1>0. LockInv  BY DEF HolderInv
<1>1. ASSUME NEW m \in Msgs, SendStep(m) PROVE StatusInv'
  <2>1. UNCHANGED <<status, proc, phase, mode, resting, arch>>
        /\ (UNCHANGED at \/ (at = "free" /\ at' = "login"))
    BY <1>0, <1>1 DEF SendStep, Send, Acquire, agentVars, lifeVars, lockVars, LockInv
  <2>. QED  BY <2>1, StatusUntouched
<1>2. CASE TaskFlush
  <2>1. UNCHANGED <<status, proc, phase, mode, resting, arch>>
        /\ (UNCHANGED at \/ (at = "free" /\ at' = "checkpoint"))
    BY <1>0, <1>2 DEF TaskFlush, agentVars, lifeVars, LockInv
  <2>. QED  BY <2>1, StatusUntouched
<1>3. CASE TurnEnd
  <2>1. /\ status' = "idle" /\ UNCHANGED <<proc, phase, mode, arch, at, resting>>
        /\ working /\ proc # "none"
    BY <1>3 DEF TurnEnd, SetStatus, lifeVars, lockVars
  <2>2. phase # "launch"  BY <2>1 DEF RunningInv, Starting
  <2>. QED  BY <2>1, <2>2 DEF StatusInv, Reverted
<1>4. CASE StreamOpens
  <2>1. /\ mode = "Live" /\ proc = "alive" /\ status' = "running"
        /\ UNCHANGED <<proc, phase, mode, arch, at, resting>>
    BY <1>4 DEF StreamOpens, lifeVars, lockVars
  <2>2. phase # "launch"  BY <2>1 DEF RunningInv, Starting
  <2>. QED  BY <2>1, <2>2 DEF StatusInv, Reverted
<1>5. CASE TurnEndUnseen \/ TurnEndRespawn \/ TurnEndQueue \/ Stop
  BY <1>5, StatusUntouched
  DEF TurnEndUnseen, TurnEndRespawn, TurnEndQueue, Stop, lifeVars, lockVars
<1>6. CASE Detach
  <2>1. arch' # "open" /\ proc' = "none" /\ status' = "none" /\ UNCHANGED <<at, resting, mode>>
    BY <1>6 DEF Detach, lockVars
  <2>. QED  BY <2>1 DEF StatusInv, Reverted
<1>7. CASE Archived \/ \E trigger \in {"User", "Sweep"} : Archive(trigger)
  <2>1. UNCHANGED <<status, proc, phase, mode, resting, at>> /\ arch' # "open"
    BY <1>7 DEF Archived, Archive, agentVars, lifeVars, lockVars
  <2>. QED  BY <2>1, StatusUntouched
<1>8. CASE HostRestart
  <2>1. phase' = "free" /\ proc' = "none" /\ at' = "free"  BY <1>8 DEF HostRestart
  <2>. QED  BY <2>1 DEF StatusInv
<1>9. CASE UNCHANGED vars
  BY <1>9, StatusUntouched DEF vars, agentVars, lifeVars, lockVars
<1>. QED
  BY <1>1, <1>2, <1>3, <1>4, <1>5, <1>6, <1>7, <1>8, <1>9, StatusHolderStep,
     StatusProcessStep
  DEF Next, TurnStep, ArchiveStep


\* The sender that looks at the queue once more is still to come.
LEMMA ReviveLater ==
  ASSUME at' \notin Unrouted, lock' \in Msgs
  PROVE  ReviveInv'
BY DEF ReviveInv

\* A step that takes no revive or restart away.
LEMMA ReviveUntouched ==
  ASSUME ReviveInv, UNCHANGED <<status, proc, mode, resting, queue, lock>>,
         at' = at \/ ({at, at'} \subseteq Unrouted),
         arch' = "open" => arch = "open", excuse' = "none" => excuse = "none",
         phase \in Starting => phase' \in Starting,
         revives > 0 => revives' > 0
  PROVE  ReviveInv'
BY DEF ReviveInv, Reverted, Unrouted

\* The steps of a delivery keep ReviveInv: who leaves the lock over a queue without
\* a process asks for a revive.
LEMMA ReviveHolderStep ==
  ASSUME TypeInv, HolderInv, ReviveInv, HolderStep
  PROVE  ReviveInv'
<1>0. LockInv /\ HandInv /\ LockTypes /\ TaskTypes  BY TypeParts DEF HolderInv
<1>N. "nobody" \notin Msgs /\ "flush" \notin Msgs
  BY DeliveryAssumption DEF DeliveryAssumption
<1>1. CASE LoginFine \/ LoginDue
  BY <1>1, ReviveUntouched
  DEF LoginFine, LoginDue, Goto, Unrouted, agentVars, storeVars, lifeVars, taskVars,
      bookVars
<1>2. CASE LoginTake
  <2>1. CASE phase' = "taken"  BY <2>1 DEF ReviveInv, Starting
  <2>2. CASE phase' # "taken"
    <3>1. Goto("route") /\ UNCHANGED <<proc, working, lifeVars>>
      BY <1>2, <2>2 DEF LoginTake
    <3>. QED
      BY <1>2, <3>1, ReviveUntouched
      DEF LoginTake, Goto, Unrouted, storeVars, lifeVars, taskVars, bookVars
  <2>. QED  BY <2>1, <2>2
<1>3. CASE Route \/ InjectFails \/ Hold \/ Recheck \/ EnqueueAndFlush
  <2>1. at \notin Delivering /\ at # "free" /\ at' \notin Unrouted /\ lock' = lock
    BY <1>3
    DEF Route, Decide, InjectFails, Hold, Recheck, EnqueueAndFlush, Goto, Delivering,
        Unrouted
  <2>2. lock' \in Msgs  BY <1>0, <2>1 DEF LockInv, LockTypes
  <2>. QED  BY <2>1, <2>2, ReviveLater
<1>4. CASE Inject \/ HandOff
  <2>1. proc' = "alive"  BY <1>4 DEF Inject, HandOff
  <2>. QED  BY <2>1 DEF ReviveInv
<1>5. CASE RouteFails
  <2>1. /\ at = "route" /\ at' = "free" /\ lock' = "nobody"
        /\ UNCHANGED <<status, proc, mode, queue, arch, excuse, phase, revives>>
    BY <1>5 DEF RouteFails, Release, agentVars, storeVars, lifeVars, taskVars
  <2>. QED  BY <1>N, <2>1 DEF ReviveInv, Reverted, Unrouted
<1>6. CASE Report
  <2>1. /\ at' = "free" /\ UNCHANGED <<status, proc>>
        /\ (status # "spawning" /\ proc = "none" => revives' = revives + 1)
    BY <1>6 DEF Report, NeedsRevive, Release, agentVars
  <2>. QED  BY <1>0, <2>1 DEF ReviveInv, Reverted, Busy, TaskTypes
<1>7. CASE SenderFlush
  <2>1. CASE queue = <<>>
    <3>1. queue' = <<>> /\ lock' = "nobody"  BY <1>7, <2>1 DEF SenderFlush, Release
    <3>. QED  BY <3>1 DEF ReviveInv
  <2>2. CASE queue # <<>>
    <3>1. at' = "checkpoint" /\ lock' = lock /\ at = "flush"
      BY <1>7, <2>2 DEF SenderFlush
    <3>2. lock' \in Msgs  BY <1>0, <3>1 DEF LockInv, LockTypes, Delivering
    <3>. QED  BY <3>1, <3>2, ReviveLater DEF Unrouted
  <2>. QED  BY <2>1, <2>2
<1>8. CASE Checkpointed
  <2>1. /\ at = "checkpoint" /\ at' \in {"failed", "start"}
        /\ UNCHANGED <<status, proc, mode, queue, lock, arch, excuse, phase, revives>>
    BY <1>8 DEF Checkpointed, Goto, agentVars, storeVars, lifeVars, taskVars, bookVars
  <2>. QED  BY <2>1 DEF ReviveInv, Reverted, Unrouted
<1>9. CASE StartTurn
  <2>1. /\ at = "start" /\ at' = "handoff" /\ resting' = status
        /\ status' = IF status = "error" THEN status ELSE "running"
        /\ UNCHANGED <<proc, mode, queue, lock, arch, excuse, phase, revives>>
    BY <1>9 DEF StartTurn, lifeVars, taskVars, bookVars
  <2>. QED  BY <2>1 DEF ReviveInv, Reverted, Unrouted
<1>10. CASE HandOffFails
  <2>1. /\ at = "handoff" /\ at' = "failed"
        /\ status' = IF status = "running" THEN resting ELSE status
        /\ UNCHANGED <<proc, mode, queue, lock, arch, excuse, phase, revives>>
    BY <1>10 DEF HandOffFails, Goto, lifeVars, taskVars
  <2>. QED  BY <2>1 DEF ReviveInv, Reverted, Unrouted
<1>11. CASE Requeue
  <2>1. CASE direct
    <3>1. lock' \in Msgs /\ at' = "flush"  BY <1>0, <1>11, <2>1 DEF Requeue, HandInv
    <3>. QED  BY <3>1, ReviveLater DEF Unrouted
  <2>2. CASE ~direct /\ lock # "flush"
    <3>1. lock' = lock /\ at' = "report" /\ at = "failed"  BY <1>11, <2>2 DEF Requeue
    <3>2. lock \in Msgs  BY <1>0, <2>2, <3>1 DEF LockInv, LockTypes
    <3>. QED  BY <3>1, <3>2, ReviveLater DEF Unrouted
  <2>3. CASE ~direct /\ lock = "flush"
    <3>1. /\ lock' = "nobody" /\ at' = "free" /\ at = "failed"
          /\ UNCHANGED <<status, proc, mode, arch, phase, revives>>
          /\ (proc = "none" => excuse' = excuse)
      BY <1>11, <2>3 DEF Requeue, agentVars, lifeVars, taskVars
    <3>. QED  BY <1>N, <2>3, <3>1 DEF ReviveInv, Reverted
  <2>. QED  BY <2>1, <2>2, <2>3
<1>12. CASE ClearDelivered
  <2>1. lock' = "nobody" /\ queue' = <<>>
    BY <1>0, <1>12 DEF ClearDelivered, Release, HandInv, Delivering
  <2>. QED  BY <2>1 DEF ReviveInv
<1>. QED
  BY <1>1, <1>2, <1>3, <1>4, <1>5, <1>6, <1>7, <1>8, <1>9, <1>10, <1>11, <1>12
  DEF HolderStep

\* The two drains leave the process and the tasks that start it alone.
LEMMA DrainsExcuse ==
  ASSUME DrainQueue
  PROVE  excuse' = "none" => excuse = "none"
BY DEF DrainQueue

\* The steps of the process keep ReviveInv.
LEMMA ReviveProcessStep ==
  ASSUME TypeInv, HolderInv, RunningInv, StatusInv, ReviveInv, ProcessStep
  PROVE  ReviveInv'
<1>0. LifeInv /\ TaskTypes  BY TypeParts DEF HolderInv
<1>1. CASE Die \/ Launch
  <2>1. proc' \in {"broken", "alive"}  BY <1>1 DEF Die, Launch
  <2>. QED  BY <2>1 DEF ReviveInv
<1>2. CASE TurnCrash \/ SpawnTimeout \/ LaunchFails \/ \E s \in {"idle", "error"} : Exit(s)
  <2>1. excuse' \in {"exit", "failed"}
    BY <1>2 DEF TurnCrash, SpawnTimeout, LaunchFails, Exit
  <2>. QED  BY <2>1 DEF ReviveInv
<1>3. ASSUME NEW who, ResumeBy(who) PROVE ReviveInv'
  <2>1. proc' # "none" \/ phase' = "launch"  BY <1>3 DEF ResumeBy
  <2>. QED  BY <2>1 DEF ReviveInv, Starting
<1>4. CASE AskRespawn
  BY <1>4, ReviveUntouched
  DEF AskRespawn, agentVars, storeVars, lockVars, lifeVars
<1>5. CASE Respawn
  <2>1. CASE phase' = "unflag"  BY <2>1 DEF ReviveInv, Starting
  <2>2. CASE phase' # "unflag"
    <3>1. proc' = proc  BY <1>5, <2>2 DEF Respawn
    <3>2. phase = "free"  BY <1>0, <1>5 DEF Respawn, LifeInv
    <3>. QED
      BY <1>5, <3>1, <3>2, ReviveUntouched
      DEF Respawn, Starting, storeVars, lockVars, bookVars
  <2>. QED  BY <2>1, <2>2
<1>10. CASE RespawnSettles
  <2>1. phase \in Starting => phase' \in Starting
    BY <1>10 DEF RespawnSettles, Starting
  <2>. QED
    BY <1>10, <2>1, ReviveUntouched
    DEF RespawnSettles, storeVars, lockVars, taskVars, bookVars
<1>11. CASE Refused
  <2>1. excuse' = "failed"  BY <1>11 DEF Refused
  <2>. QED  BY <2>1 DEF ReviveInv
<1>6. CASE Restart
  <2>1. phase' = "launch"  BY <1>6 DEF Restart
  <2>. QED  BY <2>1 DEF ReviveInv, Starting
<1>7. CASE Claim
  <2>1. CASE status = "spawning"
    <3>1. proc' = proc /\ phase = "claim"  BY <1>7, <2>1 DEF Claim
    <3>2. proc # "none"  BY <2>1, <3>1 DEF StatusInv, Reverted
    <3>. QED  BY <3>1, <3>2 DEF ReviveInv
  <2>2. CASE status = "error"
    <3>1. excuse' = "failed"  BY <1>7, <2>2 DEF Claim
    <3>. QED  BY <3>1 DEF ReviveInv
  <2>3. CASE status \notin {"spawning", "error"}
    <3>1. /\ phase = "claim" /\ UNCHANGED lockVars
          /\ UNCHANGED <<status, proc, mode, queue, arch, excuse, revives>>
      BY <1>7, <2>3 DEF Claim, taskVars
    <3>. QED  BY <3>1, ReviveUntouched DEF lockVars, Starting
  <2>. QED  BY <2>1, <2>2, <2>3
<1>8. CASE StartDrain
  <2>1. /\ phase = "drain" /\ UNCHANGED lockVars /\ DrainQueue
        /\ UNCHANGED <<status, proc, mode, queue, arch, revives>>
    BY <1>8 DEF StartDrain, storeVars
  <2>. QED  BY <2>1, DrainsExcuse, ReviveUntouched DEF lockVars, Starting
<1>9. CASE Started
  <2>1. /\ phase = "done" /\ UNCHANGED <<lock, resting>>
        /\ (at' = at \/ (at = "relaunch" /\ at' = "route"))
        /\ UNCHANGED <<status, proc, mode, queue, arch, revives>>
        /\ (excuse' = "none" => excuse = "none")
    BY <1>0, <1>9 DEF Started, EndStart, LifeInv, storeVars
  <2>. QED  BY <2>1, ReviveUntouched DEF Unrouted, Starting
<1>. QED
  BY <1>1, <1>2, <1>3, <1>4, <1>5, <1>6, <1>7, <1>8, <1>9, <1>10, <1>11
  DEF ProcessStep, Resume, Revive

\* Every step keeps ReviveInv.
LEMMA ReviveStep ==
  ASSUME TypeInv, HolderInv, RunningInv, StatusInv, ReviveInv, [Next]_vars
  PROVE  ReviveInv'
<1>0. LockInv /\ LockTypes  BY TypeParts DEF HolderInv
<1>N. "nobody" \notin Msgs /\ "flush" \notin Msgs
  BY DeliveryAssumption DEF DeliveryAssumption
<1>1. ASSUME NEW m \in Msgs, SendStep(m) PROVE ReviveInv'
  <2>1. CASE UNCHANGED lockVars
    <3>1. UNCHANGED <<status, proc, mode, queue, arch, excuse, phase, revives>>
      BY <1>1 DEF SendStep, Send, Acquire, agentVars, storeVars, lifeVars, taskVars, bookVars
    <3>. QED  BY <2>1, <3>1, ReviveUntouched DEF lockVars
  <2>2. CASE ~UNCHANGED lockVars
    <3>1. /\ lock = "nobody" /\ at = "free" /\ lock' = m /\ at' = "login"
          /\ UNCHANGED <<status, proc, mode, queue, arch, excuse, phase, revives>>
      BY <1>0, <1>1, <2>2
      DEF SendStep, Send, Acquire, LockInv, agentVars, storeVars, lockVars, lifeVars,
          taskVars, bookVars
    <3>. QED  BY <1>N, <3>1 DEF ReviveInv, Reverted, Unrouted
  <2>. QED  BY <2>1, <2>2
<1>2. CASE TaskFlush
  <2>1. /\ lock = "nobody" /\ at = "free"
        /\ UNCHANGED <<status, proc, mode, arch, excuse, phase, revives>>
    BY <1>0, <1>2 DEF TaskFlush, LockInv, agentVars, lifeVars, bookVars
  <2>2. CASE Reserved \/ queue = <<>>
    BY <1>2, <2>1, <2>2, ReviveUntouched DEF TaskFlush
  <2>3. CASE ~(Reserved \/ queue = <<>>)
    <3>1. lock' = "flush" /\ at' = "checkpoint" /\ queue # <<>>
      BY <1>2, <2>3 DEF TaskFlush
    <3>. QED  BY <1>N, <2>1, <3>1 DEF ReviveInv, Reverted, Unrouted
  <2>. QED  BY <2>2, <2>3
<1>3. CASE TurnEnd \/ StreamOpens
  <2>1. proc' # "none"  BY <1>3 DEF TurnEnd, StreamOpens
  <2>. QED  BY <2>1 DEF ReviveInv
<1>4. CASE TurnEndUnseen \/ TurnEndRespawn \/ TurnEndQueue \/ Stop
  <2>1. /\ UNCHANGED <<status, proc, mode, resting, queue, lock, at, arch, phase, revives>>
        /\ (UNCHANGED excuse \/ DrainQueue)
    BY <1>4
    DEF TurnEndUnseen, TurnEndRespawn, TurnEndQueue, Stop, storeVars, lockVars, lifeVars,
        taskVars, bookVars
  <2>. QED  BY <2>1, DrainsExcuse, ReviveUntouched
<1>5. CASE Detach \/ Archived \/ \E trigger \in {"User", "Sweep"} : Archive(trigger)
  <2>1. arch' # "open"  BY <1>5 DEF Detach, Archived, Archive
  <2>. QED  BY <2>1 DEF ReviveInv
<1>6. CASE HostRestart
  <2>1. excuse' = "restart"  BY <1>6 DEF HostRestart
  <2>. QED  BY <2>1 DEF ReviveInv
<1>7. CASE UNCHANGED vars
  BY <1>7, ReviveUntouched
  DEF vars, agentVars, storeVars, lockVars, lifeVars, taskVars, bookVars
<1>. QED
  BY <1>1, <1>2, <1>3, <1>4, <1>5, <1>6, <1>7, ReviveHolderStep, ReviveProcessStep
  DEF Next, TurnStep, ArchiveStep


\* A holder that has looked at the queue, or left it empty, need not be watched.
LEMMA LooksElsewhere ==
  ASSUME \/ at' \notin Unrouted \cup {"report"} \/ queue' = <<>> \/ Busy(status')
         \/ proc' # "alive" \/ arch' # "open" \/ excuse' # "none" \/ Awaited'
  PROVE  LooksInv'
BY DEF LooksInv

\* A step that takes nothing away that would look at the queue.
LEMMA LooksUntouched ==
  ASSUME LooksInv, UNCHANGED <<status, proc, mode, queue, arch, phase>>,
         at' \in Unrouted \cup {"report"} => at \in Unrouted \cup {"report"},
         excuse' = "none" => excuse = "none",
         working /\ mode = "Live" /\ status = "idle" => working',
         ending # "no" => ending' # "no",
         flushers > 0 => flushers' > 0, revives > 0 => revives' > 0,
         respawns > 0 => respawns' > 0
  PROVE  LooksInv'
BY DEF LooksInv, Awaited

\* A drain sends a flush, leaves the queue to a respawn on its way, or says why
\* it does neither.
LEMMA DrainLooks ==
  ASSUME TypeInv, RunningInv, DrainQueue,
         UNCHANGED <<status, proc, arch, queue, respawns>>,
         ending = "respawn" => ending' = "respawn"
  PROVE  LooksInv'
<1>0. TaskTypes  BY TypeParts
<1>1. CASE respawnPending
  <2>1. CASE ~RespawnComing /\ ~Busy(status) /\ queue # <<>>
    <3>1. excuse' = "deferred"  BY <1>1, <2>1 DEF DrainQueue
    <3>. QED  BY <3>1, LooksElsewhere
  <2>2. CASE Busy(status)  BY <2>2, LooksElsewhere
  <2>3. CASE queue = <<>>  BY <2>3, LooksElsewhere
  <2>4. CASE respawns # 0
    <3>1. respawns' > 0  BY <1>0, <2>4 DEF TaskTypes
    <3>. QED  BY <3>1, LooksElsewhere DEF Awaited
  <2>5. CASE phase = "unflag"
    <3>1. proc' = "none"  BY <2>5 DEF RunningInv, Starting
    <3>. QED  BY <3>1, LooksElsewhere
  <2>6. CASE ending = "respawn"  BY <2>6, LooksElsewhere DEF Awaited
  <2>. QED
    BY <1>0, <2>1, <2>2, <2>3, <2>4, <2>5, <2>6 DEF RespawnComing, TaskTypes
<1>2. CASE ~respawnPending
  <2>1. CASE queue = <<>>  BY <2>1, LooksElsewhere
  <2>2. CASE interrupted /\ queue # <<>>
    <3>1. excuse' = "stop"  BY <1>2, <2>2 DEF DrainQueue
    <3>. QED  BY <3>1, LooksElsewhere
  <2>3. CASE ~interrupted /\ queue # <<>>
    <3>1. flushers' = flushers + 1  BY <1>2, <2>3 DEF DrainQueue
    <3>2. flushers' > 0  BY <1>0, <3>1 DEF TaskTypes
    <3>. QED  BY <3>2, LooksElsewhere DEF Awaited
  <2>. QED  BY <2>1, <2>2, <2>3
<1>. QED  BY <1>1, <1>2

\* The steps of a delivery keep LooksInv.
LEMMA LooksHolderStep ==
  ASSUME TypeInv, HolderInv, StatusInv, LooksInv, HolderStep
  PROVE  LooksInv'
<1>0. LockInv /\ HandInv /\ AgentTypes /\ TaskTypes  BY TypeParts DEF HolderInv
<1>1. CASE LoginFine \/ LoginDue \/ RouteFails
  BY <1>1, LooksUntouched
  DEF LoginFine, LoginDue, RouteFails, Goto, Release, Unrouted, agentVars, storeVars,
      lifeVars, taskVars, bookVars
<1>2. CASE LoginTake
  <2>1. CASE proc' = "none"  BY <2>1, LooksElsewhere
  <2>2. CASE proc' # "none"
    <3>1. Goto("route") /\ UNCHANGED <<proc, working, lifeVars>>
      BY <1>2, <2>2 DEF LoginTake
    <3>. QED
      BY <1>2, <3>1, LooksUntouched
      DEF LoginTake, Goto, Unrouted, storeVars, lifeVars, taskVars, bookVars
  <2>. QED  BY <2>1, <2>2
<1>3. CASE Route \/ InjectFails \/ Hold \/ EnqueueAndFlush \/ Checkpointed \/ StartTurn
           \/ HandOffFails
  <2>1. at' \notin Unrouted \cup {"report"}
    BY <1>3
    DEF Route, Decide, InjectFails, Hold, EnqueueAndFlush, Checkpointed, StartTurn,
        HandOffFails, Goto, Unrouted
  <2>. QED  BY <2>1, LooksElsewhere
<1>4. CASE Recheck
  <2>1. CASE Busy(status)
    <3>1. Busy(status')  BY <1>4, <2>1 DEF Recheck, agentVars, Busy
    <3>. QED  BY <3>1, LooksElsewhere
  <2>2. CASE ~Busy(status)
    <3>1. at' = "flush"  BY <1>4, <2>2 DEF Recheck, Goto
    <3>. QED  BY <3>1, LooksElsewhere DEF Unrouted
  <2>. QED  BY <2>1, <2>2
<1>5. CASE Inject
  <2>1. /\ at = "inject" /\ proc = "alive" /\ working' = TRUE /\ mode = "Live"
        /\ UNCHANGED <<status, proc, mode, arch, phase>>
    BY <1>0, <1>5 DEF Inject, LockInv, lifeVars
  <2>2. CASE status = "idle"  BY <2>1, <2>2, LooksElsewhere DEF Awaited
  <2>3. CASE status = "error"
    <3>1. phase' = "claim" /\ status' = "error"
      BY <2>1, <2>3 DEF StatusInv, Reverted
    <3>. QED  BY <3>1, LooksElsewhere DEF Awaited
  <2>4. CASE status = "none"
    <3>1. arch' # "open"  BY <2>1, <2>4 DEF StatusInv, Reverted
    <3>. QED  BY <3>1, LooksElsewhere
  <2>5. CASE Busy(status)
    <3>1. Busy(status')  BY <2>1, <2>5
    <3>. QED  BY <3>1, LooksElsewhere
  <2>. QED
    BY <1>0, <2>2, <2>3, <2>4, <2>5 DEF AgentTypes, AgentStatus, Busy
<1>6. CASE Report
  <2>1. /\ UNCHANGED <<status, proc, mode, queue, arch, phase, excuse, working, ending,
                       flushers, respawns>>
        /\ at = "report" /\ (revives > 0 => revives' > 0)
    BY <1>0, <1>6 DEF Report, TaskTypes, agentVars, storeVars, lifeVars, bookVars
  <2>. QED  BY <2>1, LooksUntouched
<1>7. CASE SenderFlush
  <2>1. queue' = <<>>  BY <1>7 DEF SenderFlush, DrainCoalesced
  <2>. QED  BY <2>1, LooksElsewhere
<1>8. CASE HandOff \/ ClearDelivered
  <2>1. queue' = <<>>
    BY <1>0, <1>8 DEF HandOff, ClearDelivered, HandInv, Delivering, storeVars
  <2>. QED  BY <2>1, LooksElsewhere
<1>9. CASE Requeue
  <2>1. CASE direct
    <3>1. at' = "flush"  BY <1>9, <2>1 DEF Requeue
    <3>. QED  BY <3>1, LooksElsewhere DEF Unrouted
  <2>2. CASE ~direct
    <3>1. /\ UNCHANGED <<status, proc>>
          /\ (proc = "alive" /\ ~Busy(status) => excuse' = "late")
      BY <1>9, <2>2 DEF Requeue, agentVars
    <3>. QED  BY <3>1, LooksElsewhere
  <2>. QED  BY <2>1, <2>2
<1>. QED
  BY <1>1, <1>2, <1>3, <1>4, <1>5, <1>6, <1>7, <1>8, <1>9 DEF HolderStep

\* The steps of the process keep LooksInv.
LEMMA LooksProcessStep ==
  ASSUME TypeInv, HolderInv, RunningInv, StatusInv, LooksInv, ProcessStep
  PROVE  LooksInv'
<1>0. LifeInv /\ AgentTypes /\ TaskTypes  BY TypeParts DEF HolderInv
<1>1. CASE Die \/ TurnCrash \/ SpawnTimeout \/ \E s \in {"idle", "error"} : Exit(s)
  <2>1. proc' # "alive"  BY <1>1 DEF Die, TurnCrash, SpawnTimeout, Exit
  <2>. QED  BY <2>1, LooksElsewhere
<1>2. CASE Resume
  <2>1. proc' = "none"  BY <1>2 DEF Resume, ResumeBy
  <2>. QED  BY <2>1, LooksElsewhere
<1>3. CASE Revive
  <2>1. CASE proc = "none"
    <3>1. proc' = "none"  BY <1>3, <2>1 DEF Revive, Refused, ResumeBy, agentVars
    <3>. QED  BY <3>1, LooksElsewhere
  <2>2. CASE proc # "none"
    <3>1. flushers' = flushers + 1  BY <1>3, <2>2 DEF Revive, Refused, ResumeBy
    <3>2. flushers' > 0  BY <1>0, <3>1 DEF TaskTypes
    <3>. QED  BY <3>2, LooksElsewhere DEF Awaited
  <2>. QED  BY <2>1, <2>2
<1>4. CASE AskRespawn
  <2>1. respawns' > 0  BY <1>0, <1>4 DEF AskRespawn, TaskTypes
  <2>. QED  BY <2>1, LooksElsewhere DEF Awaited
<1>5. CASE Respawn
  <2>1. proc' = "none" \/ Busy(status')
    BY <1>5 DEF Respawn
  <2>. QED  BY <2>1, LooksElsewhere
<1>11. CASE RespawnSettles
  <2>1. /\ phase \in {"defer", "forget", "unflag"} /\ phase' \in {"free", "taken"}
        /\ UNCHANGED <<status, proc, mode, queue, arch, excuse, working, ending, at,
                       flushers, revives, respawns>>
    BY <1>11 DEF RespawnSettles, storeVars, lockVars, taskVars, bookVars
  <2>. QED  BY <2>1 DEF LooksInv, Awaited
<1>6. CASE Restart \/ LaunchFails
  <2>1. proc' = "none"  BY <1>6 DEF Restart, LaunchFails, RunningInv, Starting
  <2>. QED  BY <2>1, LooksElsewhere
<1>7. CASE Launch
  <2>1. /\ proc = "none" /\ phase = "launch" /\ phase' = "claim"
        /\ UNCHANGED <<status, arch, at>>
    BY <1>7 DEF Launch, RunningInv, Starting, lockVars
  <2>2. CASE at = "handoff"  BY <2>1, <2>2, LooksElsewhere DEF Unrouted
  <2>3. CASE at # "handoff" /\ arch = "open"
    <3>1. status \in {"spawning", "error"}
      BY <2>1, <2>3 DEF StatusInv, Reverted
    <3>2. CASE status = "spawning"
      <4>1. Busy(status')  BY <2>1, <3>2 DEF Busy
      <4>. QED  BY <4>1, LooksElsewhere
    <3>3. CASE status = "error"
      <4>1. Awaited'  BY <2>1, <3>3 DEF Awaited
      <4>. QED  BY <4>1, LooksElsewhere
    <3>. QED  BY <3>1, <3>2, <3>3
  <2>4. CASE arch # "open"  BY <2>1, <2>4, LooksElsewhere
  <2>. QED  BY <2>2, <2>3, <2>4
<1>8. CASE Claim
  <2>1. CASE status = "spawning"
    <3>1. phase' = "drain"  BY <1>8, <2>1 DEF Claim
    <3>. QED  BY <3>1, LooksElsewhere DEF Awaited
  <2>2. CASE status = "error"
    <3>1. proc' = "none"  BY <1>8, <2>2 DEF Claim
    <3>. QED  BY <3>1, LooksElsewhere
  <2>3. CASE status \notin {"spawning", "error"}
    <3>1. /\ phase = "claim" /\ UNCHANGED lockVars
          /\ UNCHANGED <<status, proc, mode, queue, arch, excuse, working, ending,
                         flushers, revives, respawns>>
      BY <1>8, <2>3 DEF Claim, taskVars
    <3>2. UNCHANGED at  BY <3>1 DEF lockVars
    <3>. QED  BY <2>3, <3>1, <3>2 DEF LooksInv, Awaited
  <2>. QED  BY <2>1, <2>2, <2>3
<1>9. CASE StartDrain
  BY <1>9, DrainLooks DEF StartDrain, storeVars
<1>10. CASE Started
  <2>1. /\ phase = "done" /\ (at' = at \/ (at = "relaunch" /\ at' = "route"))
        /\ UNCHANGED <<status, proc, mode, queue, arch, working, ending, revives,
                       respawns>>
        /\ (excuse' = "none" => excuse = "none")
    BY <1>0, <1>10 DEF Started, EndStart, LifeInv, storeVars
  <2>2. flushers > 0 => flushers' > 0  BY <1>0, <1>10 DEF Started, TaskTypes
  <2>. QED  BY <2>1, <2>2 DEF LooksInv, Awaited, Unrouted
<1>. QED
  BY <1>1, <1>2, <1>3, <1>4, <1>5, <1>6, <1>7, <1>8, <1>9, <1>10,
     <1>11 DEF ProcessStep

\* Every step keeps LooksInv.
LEMMA LooksStep ==
  ASSUME TypeInv, HolderInv, RunningInv, StatusInv, LooksInv, [Next]_vars
  PROVE  LooksInv'
<1>0. LockInv /\ TaskTypes  BY TypeParts DEF HolderInv
<1>1. ASSUME NEW m \in Msgs, SendStep(m) PROVE LooksInv'
  <2>1. /\ UNCHANGED <<status, proc, mode, queue, arch, excuse, phase, working, ending,
                       flushers, revives, respawns>>
        /\ UNCHANGED at \/ (at = "free" /\ at' = "login")
    BY <1>0, <1>1
    DEF SendStep, Send, Acquire, LockInv, agentVars, storeVars, lockVars, lifeVars,
        taskVars, bookVars
  <2>. QED  BY <2>1, LooksUntouched DEF Unrouted
<1>2. CASE TaskFlush
  <2>1. CASE Reserved
    <3>1. arch' # "open"  BY <1>2, <2>1 DEF TaskFlush, Reserved
    <3>. QED  BY <3>1, LooksElsewhere
  <2>2. CASE ~Reserved
    <3>1. queue' = <<>>  BY <1>2, <2>2 DEF TaskFlush, DrainCoalesced
    <3>. QED  BY <3>1, LooksElsewhere
  <2>. QED  BY <2>1, <2>2
<1>3. CASE TurnEnd \/ TurnEndRespawn
  <2>1. ending' # "no"  BY <1>3 DEF TurnEnd, TurnEndRespawn
  <2>. QED  BY <2>1, LooksElsewhere DEF Awaited
<1>4. CASE TurnEndUnseen \/ Stop
  BY <1>4, LooksUntouched
  DEF TurnEndUnseen, Stop, storeVars, lockVars, lifeVars, taskVars, bookVars
<1>5. CASE TurnEndQueue
  BY <1>5, DrainLooks DEF TurnEndQueue, storeVars
<1>6. CASE StreamOpens
  <2>1. Busy(status')  BY <1>6 DEF StreamOpens, Busy
  <2>. QED  BY <2>1, LooksElsewhere
<1>7. CASE Detach \/ Archived \/ \E trigger \in {"User", "Sweep"} : Archive(trigger)
  <2>1. arch' # "open"  BY <1>7 DEF Detach, Archived, Archive
  <2>. QED  BY <2>1, LooksElsewhere
<1>8. CASE HostRestart
  <2>1. excuse' = "restart"  BY <1>8 DEF HostRestart
  <2>. QED  BY <2>1, LooksElsewhere
<1>9. CASE UNCHANGED vars
  BY <1>9, LooksUntouched
  DEF vars, agentVars, storeVars, lockVars, lifeVars, taskVars, bookVars
<1>. QED
  BY <1>1, <1>2, <1>3, <1>4, <1>5, <1>6, <1>7, <1>8, <1>9, LooksHolderStep,
     LooksProcessStep
  DEF Next, TurnStep, ArchiveStep

\* The parts together are the property a run checks.
LEMMA OwnerFound ==
  ASSUME TypeInv, HolderInv, OwnerInv
  PROVE  QueueHasOwner
<1>0. LockInv /\ LifeInv /\ AgentTypes  BY TypeParts DEF HolderInv
<1>1. SUFFICES ASSUME queue # <<>>, ~Busy(status), proc # "broken", arch = "open",
                      excuse = "none", lock = "nobody"
               PROVE  Owner
  BY DEF QueueHasOwner, Owner
<1>2. at = "free" /\ lock \notin Msgs
  BY <1>0, <1>1, DeliveryAssumption DEF LockInv, DeliveryAssumption
<1>3. CASE proc = "alive"
  <2>1. Awaited  BY <1>1, <1>2, <1>3 DEF OwnerInv, LooksInv, Unrouted
  <2>. QED  BY <1>0, <2>1 DEF Awaited, Owner, LifeInv
<1>4. CASE proc = "none"
  <2>1. phase \in Starting \/ revives > 0
    BY <1>1, <1>2, <1>4 DEF OwnerInv, ReviveInv, Reverted
  <2>. QED  BY <1>0, <2>1 DEF Owner, LifeInv, Starting
<1>. QED  BY <1>0, <1>1, <1>3, <1>4 DEF AgentTypes

-----------------------------------------------------------------------------
(* 10. Theorems                                                            *)

Inv == TypeInv /\ HolderInv /\ RunningInv /\ KeptInv /\ RowsInv /\ OwnerInv

\* The invariant holds initially.
LEMMA InvInit == Init => Inv
<1> SUFFICES ASSUME Init PROVE Inv  OBVIOUS
<1>1. StatusInv  BY DEF Init, StatusInv, Reverted
<1>2. ReviveInv /\ LooksInv
  BY DeliveryAssumption DEF Init, ReviveInv, LooksInv, DeliveryAssumption
<1>. QED
  BY <1>1, <1>2, TypeInit, HolderInit, RunningInit, KeptInit, RowsInit
  DEF Inv, OwnerInv

\* Every step keeps the invariant.
LEMMA InvStep == Inv /\ [Next]_vars => Inv'
<1> SUFFICES ASSUME Inv, [Next]_vars PROVE Inv'  OBVIOUS
<1>1. TypeInv /\ HolderInv /\ RunningInv /\ KeptInv /\ RowsInv
      /\ StatusInv /\ ReviveInv /\ LooksInv
  BY DEF Inv, OwnerInv
<1>2. TypeInv' /\ HolderInv' /\ RunningInv'
  BY <1>1, TypeStep, HolderInvStep, RunningStep
<1>3. KeptInv' /\ RowsInv'  BY <1>1, KeptStep, RowsStep
<1>4. StatusInv' /\ ReviveInv' /\ LooksInv'
  BY <1>1, StatusStep, ReviveStep, LooksStep
<1>. QED  BY <1>2, <1>3, <1>4 DEF Inv, OwnerInv

\* The invariant holds of every reachable state: of the fields' types, of the
\* two locks and their holders, of the places of held messages and turn rows,
\* and of what the status and the tasks say of the process.
THEOREM DeliveryInductive == Spec => []Inv
<1>. QED  BY InvInit, InvStep, PTL DEF Spec

\* Every variable keeps to its type.
THEOREM DeliveryTyped == Spec => []TypeOK
<1>1. Inv => TypeOK  BY DEF Inv, TypeInv
<1>. QED  BY <1>1, DeliveryInductive, PTL

\* However many messages are sent and however often processes die, starts fail
\* or the host restarts, no agent stays Running with nothing left to end it.
THEOREM RunningAlwaysEnds == Spec => []RunningEnds
<1>1. Inv => RunningEnds  BY DEF Inv, RunningInv
<1>. QED  BY <1>1, DeliveryInductive, PTL

\* A message reported as held stays in the mirror, and in the queue or in the
\* hand of a delivery, until it is given or its agent archived.
THEOREM NothingIsEverLost == Spec => []NothingIsLost
<1>1. Inv => NothingIsLost  BY KeptIsNotLost DEF Inv
<1>. QED  BY <1>1, DeliveryInductive, PTL

\* Until the host restarts, a turn row that never started is that of a message
\* still to be delivered under its id, or of one injected live.
THEOREM RowsAlwaysSettled == Spec => []RowsSettled
<1>1. Inv => RowsSettled  BY RowsAreSettled DEF Inv
<1>. QED  BY <1>1, DeliveryInductive, PTL

\* Messages queued for an agent at rest have somebody on the way to them, or
\* one of the reasons of `excuse`.
THEOREM QueueAlwaysHasOwner == Spec => []QueueHasOwner
<1>1. Inv => QueueHasOwner  BY OwnerFound DEF Inv
<1>. QED  BY <1>1, DeliveryInductive, PTL
=============================================================================
