-------------------------- MODULE ReviewLoopProofs --------------------------
(***************************************************************************)
(* Theorems about ReviewLoop for every set of codes, starts and bounds: the *)
(* memory of a checkout keeps its type whatever goes wrong; and where no    *)
(* stop, lagging stream or wall clock cuts a round short, one round has the *)
(* checkout at a time, the automatic re-review stays within the budget of   *)
(* its pull request, and it tries a code once.                              *)
(***************************************************************************)
EXTENDS ReviewLoop, SequenceTheorems, TLAPS

-----------------------------------------------------------------------------
(* 1. The invariants                                                       *)

Starters == {"manual", "pr-open", "re-review"}
Origins == {"none", "scan", "start", "queued", "round", "restart"}
Reads == Codes \union Unverified \union Skipped

Sights == {NotScanned, Unreadable} \union [kind : {"read"}, read : Reads]

Memories ==
    [exists : BOOLEAN, reviewer : BOOLEAN, round : Nat, prNumber : {0, 1},
     prRounds : Nat, reviewed : Codes \union {None},
     roundCode : Codes \union {None},
     failure : [origin : Origins, code : Codes \union Unverified \union {None}],
     lastRead : Reads \union {None},
     phase : {"idle", "queued", "reviewing", "reviewed", "stale", "failed"},
     pending : Starters \union {"none"},
     flight : [open : BOOLEAN, named : BOOLEAN, submitted : BOOLEAN, saw : BOOLEAN],
     starting : BOOLEAN, rescan : BOOLEAN]

Starts ==
    [at : {"none", "pr", "start", "look", "begin", "ensure", "send"},
     trigger : Starters \union {"none"}, before : {"none", "start", "queued"},
     sight : Sights, round : Nat]

Events == {<<"coder", "idle">>} \union ({"reviewer"} \X {"idle", "error", "running"})

\* A round is named before its turn says or reports anything.
FlightOK(x) == /\ x.flight.submitted \/ x.flight.saw => x.flight.named
               /\ x.flight.named => x.flight.open

MemInv ==
    /\ t \in Memories /\ FlightOK(t)
    /\ saved \in Memories /\ saved.flight = NoFlight /\ ~saved.starting
StartInv ==
    /\ task \in [Tasks -> Starts]
    /\ \A k \in Tasks : task[k].at = "begin" /\ task[k].sight.kind = "read" =>
          task[k].sight.read \notin Skipped
    /\ \A k \in Tasks : task[k].at \notin {"none", "pr"} => task[k].trigger \in Starters
RestInv ==
    /\ code \in Codes /\ pr \in {"none", "open"}
    /\ driver \in [at : {"rest", "scanned", "polled", "full", "gated"}, sight : Sights]
    /\ client \in [at : {"none", "seen"}, sight : Sights]
    /\ report \in [at : {"none", "look", "seen"}, sight : Sights]
    /\ events \in Seq(Events)
    /\ coder \in {"idle", "running", "gone"} /\ deleg \in BOOLEAN
    /\ reviewer \in [status : {"down", "idle", "running"}, inbox : SUBSET Nat,
                     turn : SUBSET Nat, interrupted : BOOLEAN]
    /\ stopper \in {"rest", "interrupt", "clear"}
    /\ credited \in BOOLEAN /\ tried \in Codes \union {None} /\ autos \in Nat
TypeInv == MemInv /\ StartInv /\ RestInv

\* A start claims the checkout until it has begun its round, and the round is
\* its own until the prompt is out.
Claiming(k) == task[k].at \in {"look", "begin"}
Sending(k) == task[k].at \in {"ensure", "send"}

RoundOK ==
    /\ InRound(t) => t.exists /\ ~deleg
    /\ t.pending # "none" => t.exists
    /\ ~(t.starting /\ t.flight.open)
    /\ \A k \in Tasks :
          /\ Claiming(k) => t.starting
          /\ Sending(k) => t.flight.open /\ t.round = task[k].round
          /\ task[k].at = "send" => t.flight.named
    /\ \A j, k \in Working : j = k

\* What the reviewer said and the driver has not heard.
FromCoder(e) == e[1] = "coder"
Harmless(e) == FromCoder(e) \/ e = <<"reviewer", "idle">>
IsRunning(e) == e = <<"reviewer", "running">>
IsEnd(e) == e \in {<<"reviewer", "idle">>, <<"reviewer", "error">>}

\* The prompt is not out: nothing said so far ends a turn.
Unsent ==
    /\ reviewer.status # "running" /\ reviewer.inbox = {}
    /\ ~t.flight.submitted /\ ~t.flight.saw
    /\ \A i \in DOMAIN events : Harmless(events[i])

\* The prompt is out: the reviewer works on it, and its running and its end
\* are heard in that order, with nothing of the reviewer behind.
Heard(r, e) ==
    /\ t.flight.saw <=> r = 0
    /\ reviewer.status = "running" <=> e = Len(events) + 1
    /\ r < e
    /\ \A i \in DOMAIN events :
          /\ i < r => Harmless(events[i])
          /\ i = r => IsRunning(events[i])
          /\ i = e => IsEnd(events[i])
          /\ i > r /\ i # e => FromCoder(events[i])
Sent ==
    /\ t.flight.named
    /\ reviewer.inbox = {}
    /\ \E r, e \in 0 .. Len(events) + 1 : Heard(r, e)

TurnOK == IF t.flight.open /\ Working = {} THEN Sent ELSE Unsent

GoneInv ==
    coder = "gone" => ~InRound(t) /\ t.pending = "none" /\ saved.pending = "none"
RoundInv == GoneInv /\ (coder # "gone" => RoundOK /\ TurnOK) /\ stopper = "rest"

\* What the automatic re-review remembers of the code it tried.
Recalled(x) == x.reviewed = tried \/ x.failure.code = tried

\* A start the gate allowed and no round has come of.
Allowed(k) == task[k].trigger = "re-review" /\ task[k].at \in {"start", "look", "begin"}

AttemptOK ==
    /\ \A j, k \in Tasks : Allowed(j) /\ Allowed(k) => j = k
    /\ \A k \in Tasks : Allowed(k) => t.pending # "re-review"
    /\ \/ t.pending = "re-review" \/ saved.pending = "re-review"
       \/ \E k \in Tasks : Allowed(k)
       => tried = None
RecallOK ==
    tried # None =>
       /\ t.exists /\ saved.exists
       /\ t.roundCode = tried /\ saved.roundCode = tried
       /\ t.flight.open \/ Recalled(t)
       /\ saved.phase = "reviewing" \/ Recalled(saved)
MemoryOK ==
    /\ t.failure.origin # "scan" /\ saved.failure.origin # "scan"
    /\ t.failure.code \in {None, t.roundCode}
    /\ saved.failure.code \in {None, saved.roundCode}
    /\ t.flight.submitted => t.reviewed = t.roundCode
\* The driver's cheap read told the code from what was reviewed, unless a report
\* has come since; then the round is still open.
DriverOK ==
    /\ driver.at \in {"scanned", "polled", "gated"} => driver.sight.kind = "read"
    /\ driver.at = "gated" => driver.sight.read \notin Skipped
    /\ driver.at = "polled" /\ driver.sight.read \in Skipped =>
          driver.sight.read.cheap # t.reviewed.cheap \/ t.flight.submitted
\* No read has failed.
Seen(s) == s.read \notin Unverified
SightsOK ==
    /\ \A k \in Tasks : /\ Seen(task[k].sight)
                        /\ task[k].at \in {"pr", "begin"} => task[k].sight.kind = "read"
    /\ Seen(driver.sight) /\ Seen(client.sight) /\ Seen(report.sight)
Attempts == AttemptOK /\ RecallOK /\ MemoryOK /\ DriverOK /\ SightsOK
AttemptInv == coder # "gone" => Attempts

-----------------------------------------------------------------------------
(* 2. Reads and memories                                                   *)

\* None is no code, and the three kinds of reads are apart.
LEMMA ReadsApart ==
    /\ None \notin Reads
    /\ Codes \cap Unverified = {} /\ Codes \cap Skipped = {}
    /\ Unverified \cap Skipped = {}
    /\ \A c \in Codes : c.content \notin {"none", "unverified", "skipped"}
    /\ \A c \in Unverified : c.content = "unverified"
    /\ \A c \in Skipped : c.content = "skipped"
<1>1. \A c \in Codes : c.content \notin {"none", "unverified", "skipped"} /\ c.cheap # 0
  BY ReviewLoopAssumption
<1>2. \A c \in Codes : /\ [c EXCEPT !.content = "unverified"].content = "unverified"
                       /\ [c EXCEPT !.content = "skipped"].content = "skipped"
                       /\ [c EXCEPT !.content = "unverified"].cheap = c.cheap
                       /\ [c EXCEPT !.content = "skipped"].cheap = c.cheap
  <2>1. TAKE c \in Codes
  <2>2. c = [cheap |-> c.cheap, content |-> c.content]
    BY <2>1, ReviewLoopAssumption
  <2>3. QED  BY <2>2
<1>3. \A c \in Unverified : c.content = "unverified" /\ c.cheap # 0
  BY <1>1, <1>2 DEF Unverified
<1>4. \A c \in Skipped : c.content = "skipped" /\ c.cheap # 0
  <2>1. TAKE c \in Skipped
  <2>2. PICK d \in Codes : c = [d EXCEPT !.content = "skipped"]
    BY Zenon DEF Skipped
  <2>3. QED  BY <1>1, <1>2, <2>2
<1>5. None.cheap = 0
  BY DEF None
<1>6. QED  BY <1>1, <1>3, <1>4, <1>5 DEF Reads

\* What a look reads.
LEMMA SightTyped ==
    ASSUME TypeInv, NEW full \in BOOLEAN, NEW s \in SightsNow(full)
    PROVE  /\ s \in Sights
           /\ full /\ s.kind = "read" => s.read \notin Skipped
           /\ ~MayHappen("fault") => /\ s.kind = "read" /\ s.read \notin Unverified
           /\ s.kind = "read" /\ s.read \in Skipped => s.read.cheap # t.reviewed.cheap
<1> DEFINE needed == DigestNeeded(full, t.reviewed)
<1>1. code \in Codes /\ code = [cheap |-> code.cheap, content |-> code.content]
  BY ReviewLoopAssumption DEF TypeInv, RestInv
<1>2. [code EXCEPT !.content = code.content] = code
  BY <1>1
<1>3. /\ [code EXCEPT !.content = "skipped"] \in Skipped
      /\ [code EXCEPT !.content = "unverified"] \in Unverified
  BY <1>1 DEF Skipped, Unverified
<1>4. [code EXCEPT !.content = "skipped"].cheap = code.cheap
  BY <1>1
<1>5. \/ s = [kind |-> "read", read |-> code] /\ needed
      \/ s = [kind |-> "read", read |-> [code EXCEPT !.content = "skipped"]] /\ ~needed
      \/ s = Unreadable /\ MayHappen("fault")
      \/ /\ s = [kind |-> "read", read |-> [code EXCEPT !.content = "unverified"]]
         /\ MayHappen("fault") /\ needed
  <2>1. \/ s = Read(IF needed THEN code.content ELSE "skipped")
        \/ s = Unreadable /\ MayHappen("fault")
        \/ s = Read("unverified") /\ MayHappen("fault") /\ needed
    BY Zenon DEF SightsNow
  <2>2. QED  BY <2>1, <1>2 DEF Read
<1>6. ~needed => ~full /\ t.reviewed.cheap # code.cheap
  BY DEF DigestNeeded
<1>7. Unreadable.kind = "unreadable"
  BY DEF Unreadable
<1> HIDE DEF needed
<1>8. QED  BY <1>1, <1>3, <1>4, <1>5, <1>6, <1>7, ReadsApart DEF Sights, Reads


\* What a failure, a sighting and a settled memory leave alone.
Kept(x, y) ==
    /\ y.exists = x.exists /\ y.reviewer = x.reviewer /\ y.round = x.round
    /\ y.reviewed = x.reviewed /\ y.roundCode = x.roundCode
    /\ y.prNumber = x.prNumber /\ y.prRounds = x.prRounds
    /\ y.pending = x.pending /\ y.flight = x.flight /\ y.starting = x.starting

\* What the end of a round leaves alone.
Closed(x, y) ==
    /\ y.exists = x.exists /\ y.reviewer = x.reviewer /\ y.round = x.round
    /\ y.reviewed = x.reviewed /\ y.roundCode = x.roundCode
    /\ y.prNumber = x.prNumber /\ y.prRounds = x.prRounds
    /\ y.pending = x.pending /\ y.flight = NoFlight /\ (y.starting => x.starting)

LEMMA NoFlightTyped ==
    /\ NoFlight \in [open : BOOLEAN, named : BOOLEAN, submitted : BOOLEAN, saw : BOOLEAN]
    /\ ~NoFlight.open /\ ~NoFlight.named /\ ~NoFlight.submitted /\ ~NoFlight.saw
BY DEF NoFlight

\* A recorded failure that is not a failed scan ends the round and the claim.
LEMMA FailureRecorded ==
    ASSUME NEW x \in Memories, FlightOK(x), NEW o \in Origins \ {"scan"},
           NEW c \in Codes \union Unverified \union {None},
           NEW y, y = RecordFailure(x, o, c)
    PROVE  /\ y \in Memories /\ FlightOK(y) /\ Closed(x, y) /\ ~y.starting
           /\ y.failure.origin = o /\ y.failure.code = c
<1> DEFINE f == [origin |-> o, code |-> c]
<1>1. /\ f \in [origin : Origins, code : Codes \union Unverified \union {None}]
      /\ f.origin = o /\ f.code = c
  OBVIOUS
<1>2. y = [x EXCEPT !.failure = f, !.flight = NoFlight, !.starting = FALSE]
  BY DEF RecordFailure, Memories
<1> HIDE DEF f
<1>3. y \in Memories
  BY <1>1, <1>2, NoFlightTyped DEF Memories
<1>4. y.failure = f /\ y.flight = NoFlight
  BY <1>2 DEF Memories
<1>5. FlightOK(y)
  BY <1>4, NoFlightTyped DEF FlightOK
<1>6. Closed(x, y) /\ ~y.starting
  BY <1>2 DEF Memories, Closed
<1>7. QED  BY <1>1, <1>3, <1>4, <1>5, <1>6

LEMMA RoundFailedTyped ==
    ASSUME NEW x \in Memories, FlightOK(x), NEW y, y = RoundFailed(x)
    PROVE  /\ y \in Memories /\ FlightOK(y) /\ Closed(x, y) /\ ~y.starting
           /\ y.failure.origin = "round" /\ y.failure.code = x.roundCode
<1>1. x.roundCode \in Codes \union Unverified \union {None}
  BY DEF Memories
<1>2. "round" \in Origins \ {"scan"}
  BY DEF Origins
<1>3. y = RecordFailure(x, "round", x.roundCode)
  BY DEF RoundFailed
<1>4. QED  BY <1>1, <1>2, <1>3, FailureRecorded

\* A recorded sighting.
LEMMA Sighted ==
    ASSUME NEW x \in Memories, FlightOK(x), NEW s \in Sights,
           NEW y, y = RecordSighting(x, s)
    PROVE  /\ y \in Memories /\ FlightOK(y) /\ Kept(x, y) /\ y.phase = x.phase
           /\ y.lastRead = IF s.kind = "read" THEN s.read ELSE x.lastRead
           /\ x.failure.origin # "scan" /\ s.read \notin Unverified =>
                 y.failure = x.failure
<1> DEFINE z == [x EXCEPT !.rescan = FALSE]
<1>1. /\ z \in Memories /\ FlightOK(z) /\ Kept(x, z) /\ z.phase = x.phase
      /\ z.lastRead = x.lastRead /\ z.failure = x.failure
  BY DEF Memories, FlightOK, Kept
<1>2. CASE s.kind # "read"
  <2>1. y \in {x, z}
    BY <1>2 DEF RecordSighting, Sights, NotScanned, Unreadable
  <2> HIDE DEF z
  <2>2. QED  BY <1>1, <1>2, <2>1 DEF Kept
<1>3. CASE s.kind = "read"
  <2> DEFINE w == IF s.read.content = "unverified"
                  THEN RecordFailure(z, "scan", s.read) ELSE Cleared(z, s.read)
  <2>1. s.read \in Reads
    BY <1>3 DEF Sights, NotScanned, Unreadable
  <2>2. y = [w EXCEPT !.lastRead = s.read]
    BY <1>3 DEF RecordSighting
  <2>3. /\ w \in Memories /\ FlightOK(w) /\ Kept(z, w) /\ w.phase = z.phase
        /\ z.failure.origin # "scan" /\ s.read \notin Unverified => w.failure = z.failure
    <3>1. CASE s.read.content = "unverified"
      <4>1. s.read \in Unverified
        BY <2>1, <3>1, ReadsApart DEF Reads
      <4>2. w = [z EXCEPT !.failure = [origin |-> "scan", code |-> s.read]]
        BY <3>1 DEF RecordFailure
      <4>3. [origin |-> "scan", code |-> s.read]
              \in [origin : Origins, code : Codes \union Unverified \union {None}]
        BY <4>1 DEF Origins
      <4> HIDE DEF z, w
      <4>4. /\ w \in Memories /\ FlightOK(w) /\ Kept(z, w) /\ w.phase = z.phase
        BY <1>1, <4>2, <4>3 DEF Memories, FlightOK, Kept
      <4>5. QED  BY <4>1, <4>4
    <3>2. CASE s.read.content # "unverified"
      <4>1. w \in {z, [z EXCEPT !.failure = NoFailure]}
        BY <3>2 DEF Cleared
      <4>2. z.failure.origin # "scan" => w = z
        BY <3>2 DEF Cleared
      <4>3. NoFailure \in [origin : Origins, code : Codes \union Unverified \union {None}]
        BY DEF NoFailure, Origins
      <4> HIDE DEF z, w
      <4>4. QED  BY <1>1, <4>1, <4>2, <4>3 DEF Memories, FlightOK, Kept
    <3>3. QED  BY <3>1, <3>2
  <2> HIDE DEF w, z
  <2>4. QED  BY <1>1, <1>3, <2>1, <2>2, <2>3 DEF Memories, FlightOK, Kept
<1>4. QED  BY <1>2, <1>3

\* The phase is derived, and a round that is open shows as one.
LEMMA Derived ==
    ASSUME NEW x \in Memories
    PROVE  /\ Derive(x) \in {"idle", "queued", "reviewing", "reviewed", "stale", "failed"}
           /\ InRound(x) => Derive(x) = "reviewing"
BY DEF Derive

\* A memory with another phase, and what of it is persisted.
LEMMA PhaseKept ==
    ASSUME NEW x \in Memories, FlightOK(x), NEW y, y = [x EXCEPT !.phase = Derive(x)]
    PROVE  /\ y \in Memories /\ FlightOK(y) /\ Kept(x, y)
           /\ y.failure = x.failure /\ y.lastRead = x.lastRead
           /\ InRound(x) => y.phase = "reviewing"
BY Derived DEF Memories, FlightOK, Kept

LEMMA Persisted ==
    ASSUME NEW x \in Memories,
           NEW y, y = [x EXCEPT !.flight = NoFlight, !.starting = FALSE, !.rescan = FALSE]
    PROVE  /\ y \in Memories /\ y.flight = NoFlight /\ ~y.starting
           /\ y.exists = x.exists /\ y.round = x.round /\ y.reviewed = x.reviewed
           /\ y.roundCode = x.roundCode /\ y.failure = x.failure /\ y.phase = x.phase
           /\ y.pending = x.pending /\ y.prNumber = x.prNumber /\ y.prRounds = x.prRounds
BY NoFlightTyped DEF Memories

\* Once settled.
Persists(x, y) ==
    /\ y.exists = x.exists /\ y.reviewed = x.reviewed /\ y.roundCode = x.roundCode
    /\ y.failure = x.failure /\ y.phase = x.phase /\ y.pending = x.pending
    /\ y.prNumber = x.prNumber /\ y.prRounds = x.prRounds

LEMMA SettledMemory ==
    ASSUME NEW x \in Memories, FlightOK(x), Settle(x)
    PROVE  /\ t' \in Memories /\ FlightOK(t') /\ Kept(x, t')
           /\ t'.failure = x.failure /\ t'.lastRead = x.lastRead
           /\ x.exists /\ InRound(x) => t'.phase = "reviewing"
           /\ x.exists => /\ saved' \in Memories /\ saved'.flight = NoFlight
                          /\ ~saved'.starting /\ Persists(t', saved')
           /\ ~x.exists => t' = x /\ saved' = saved
<1>1. CASE x.exists
  <2>1. t' = [x EXCEPT !.phase = Derive(x)]
    BY <1>1 DEF Settle
  <2>2. saved' = [t' EXCEPT !.flight = NoFlight, !.starting = FALSE, !.rescan = FALSE]
    BY <1>1 DEF Settle
  <2>3. /\ t' \in Memories /\ FlightOK(t') /\ Kept(x, t')
        /\ t'.failure = x.failure /\ t'.lastRead = x.lastRead
        /\ InRound(x) => t'.phase = "reviewing"
    BY <2>1, PhaseKept
  <2>4. QED  BY <1>1, <2>2, <2>3, Persisted DEF Persists
<1>2. CASE ~x.exists
  BY <1>2 DEF Settle, Kept
<1>3. QED  BY <1>1, <1>2


\* The ways a round ends.
LEMMA TurnEndedTyped ==
    ASSUME NEW x \in Memories, FlightOK(x), NEW y, y = TurnEnded(x)
    PROVE  /\ y \in Memories /\ FlightOK(y)
           /\ ~x.flight.open => y = x
           /\ x.flight.open => Closed(x, y)
           /\ x.flight.submitted => y.failure = x.failure
           /\ x.flight.open /\ ~x.flight.submitted =>
                 y.failure.origin = "round" /\ y.failure.code = x.roundCode
<1>1. CASE ~x.flight.open
  BY <1>1 DEF TurnEnded, FlightOK
<1>2. CASE x.flight.open /\ x.flight.submitted
  <2>1. y = [x EXCEPT !.flight = NoFlight]
    BY <1>2 DEF TurnEnded
  <2>2. y \in Memories
    BY <2>1, NoFlightTyped DEF Memories
  <2>3. y.flight = NoFlight /\ y.failure = x.failure
    BY <2>1 DEF Memories
  <2>4. Closed(x, y)
    BY <2>1 DEF Closed, Memories
  <2>5. FlightOK(y)
    BY <2>3, NoFlightTyped DEF FlightOK
  <2>6. QED  BY <1>2, <2>2, <2>3, <2>4, <2>5
<1>3. CASE x.flight.open /\ ~x.flight.submitted
  <2>1. y = RoundFailed(x)
    BY <1>3 DEF TurnEnded
  <2>2. QED  BY <1>3, <2>1, RoundFailedTyped
<1>4. QED  BY <1>1, <1>2, <1>3

LEMMA StatusTyped ==
    ASSUME NEW x \in Memories, FlightOK(x), x.flight.named,
           NEW status \in {"idle", "error", "running"},
           NEW y, y = OnReviewerStatus(x, status)
    PROVE  /\ y \in Memories /\ FlightOK(y)
           /\ status = "idle" /\ ~x.flight.saw => y = x
           /\ status = "error" \/ (status = "idle" /\ x.flight.saw) => Closed(x, y)
           /\ x.flight.submitted => \/ y.failure = x.failure
                                    \/ y.failure.origin = "round" /\ y.failure.code = x.roundCode
           /\ x.flight.open /\ ~x.flight.submitted /\ ~y.flight.open =>
                 y.failure.origin = "round" /\ y.failure.code = x.roundCode
           /\ status = "running" => y = [x EXCEPT !.flight.saw = TRUE]
<1>0. x.flight.open
  BY DEF FlightOK
<1>1. CASE status = "running"
  <2>1. y = [x EXCEPT !.flight.saw = TRUE]
    BY <1>1 DEF OnReviewerStatus
  <2> DEFINE g == [x.flight EXCEPT !.saw = TRUE]
  <2>a. g \in [open : BOOLEAN, named : BOOLEAN, submitted : BOOLEAN, saw : BOOLEAN]
    BY DEF Memories
  <2>b. y = [x EXCEPT !.flight = g]
    BY <2>1
  <2> HIDE DEF g
  <2>2. y \in Memories
    BY <2>a, <2>b DEF Memories
  <2>3. /\ y.flight.open = x.flight.open /\ y.flight.named = x.flight.named
        /\ y.flight.submitted = x.flight.submitted /\ y.failure = x.failure
    BY <2>1 DEF Memories
  <2>4. QED  BY <1>0, <1>1, <2>1, <2>2, <2>3 DEF FlightOK
<1>2. CASE status = "idle"
  <2>1. y = IF x.flight.saw THEN TurnEnded(x) ELSE x
    BY <1>2 DEF OnReviewerStatus
  <2>2. QED  BY <1>0, <1>2, <2>1, TurnEndedTyped
<1>3. CASE status = "error"
  <2>1. y = RoundFailed(x)
    BY <1>3 DEF OnReviewerStatus
  <2>2. QED  BY <1>0, <1>3, <2>1, RoundFailedTyped
<1>4. QED  BY <1>1, <1>2, <1>3

\* The round that begins.
LEMMA BegunTyped ==
    ASSUME NEW x \in Memories, NEW trigger, NEW read \in Codes,
           NEW y, y = Begun(x, trigger, read)
    PROVE  /\ y \in Memories /\ FlightOK(y)
           /\ y.exists = x.exists /\ y.round = x.round + 1 /\ y.reviewed = x.reviewed
           /\ y.roundCode = read /\ y.pending = x.pending
           /\ y.failure = NoFailure /\ ~y.starting
           /\ y.flight.open /\ ~y.flight.submitted /\ ~y.flight.saw
           /\ y.prNumber = PrNumber
           /\ y.prRounds = (IF x.prNumber = PrNumber THEN x.prRounds ELSE 0)
                           + (IF trigger = "re-review" THEN 1 ELSE 0)
<1> DEFINE rounds == (IF x.prNumber = PrNumber THEN x.prRounds ELSE 0)
                     + (IF trigger = "re-review" THEN 1 ELSE 0)
           flight == [NoFlight EXCEPT !.open = TRUE, !.named = x.reviewer]
<1>1. rounds \in Nat
  BY DEF Memories
<1>2. /\ flight \in [open : BOOLEAN, named : BOOLEAN, submitted : BOOLEAN, saw : BOOLEAN]
      /\ flight.open /\ ~flight.submitted /\ ~flight.saw
  BY DEF NoFlight, Memories
<1>3. PrNumber \in {0, 1}
  BY DEF PrNumber
<1>4. NoFailure \in [origin : Origins, code : Codes \union Unverified \union {None}]
  BY DEF NoFailure, Origins
<1>5. y = [x EXCEPT !.starting = FALSE, !.prNumber = PrNumber, !.prRounds = rounds,
                    !.round = @ + 1, !.failure = NoFailure, !.roundCode = read,
                    !.flight = flight]
  BY DEF Begun
<1> HIDE DEF rounds, flight
<1>6. y \in Memories
  <2> DEFINE n == x.round + 1
             p == PrNumber
             v == [x EXCEPT !.starting = FALSE, !.prNumber = p, !.prRounds = rounds]
             w == [v EXCEPT !.round = n, !.failure = NoFailure, !.roundCode = read]
  <2>1. n \in Nat /\ p \in {0, 1}
    BY <1>3 DEF Memories
  <2>2. v.round = x.round
    BY DEF Memories
  <2>3. y = [w EXCEPT !.flight = flight]
    BY <1>5, <2>2
  <2> HIDE DEF n, p
  <2>4. v \in Memories
    BY <1>1, <2>1 DEF Memories
  <2> HIDE DEF v
  <2>5. w \in Memories
    BY <1>4, <2>1, <2>4 DEF Memories
  <2> HIDE DEF w
  <2>6. QED  BY <1>2, <2>3, <2>5 DEF Memories
<1>7. /\ y.exists = x.exists /\ y.round = x.round + 1 /\ y.reviewed = x.reviewed
      /\ y.roundCode = read /\ y.pending = x.pending
      /\ y.failure = NoFailure /\ ~y.starting /\ y.flight = flight
      /\ y.prNumber = PrNumber /\ y.prRounds = rounds
  BY <1>5 DEF Memories
<1> USE DEF rounds
<1>8. QED  BY <1>2, <1>6, <1>7 DEF FlightOK

LEMMA FreshTyped ==
    /\ Untracked \in Memories /\ FlightOK(Untracked) /\ Untracked.flight = NoFlight
    /\ ~Untracked.starting /\ Untracked.pending = "none" /\ ~Untracked.exists
    /\ Untracked.failure = NoFailure /\ Untracked.reviewed = None
    /\ Untracked.roundCode = None /\ Untracked.prNumber = 0
<1>1. NoFailure \in [origin : Origins, code : Codes \union Unverified \union {None}]
  BY DEF NoFailure, Origins
<1>2. Fresh \in Memories
  BY <1>1, NoFlightTyped DEF Fresh, Memories, Starters
<1>3. Untracked \in Memories
  BY <1>2 DEF Untracked, Memories
<1>4. /\ Untracked.flight = NoFlight
      /\ ~Untracked.starting /\ Untracked.pending = "none" /\ ~Untracked.exists
      /\ Untracked.failure = NoFailure /\ Untracked.reviewed = None
      /\ Untracked.roundCode = None /\ Untracked.prNumber = 0
  BY DEF Untracked, Fresh
<1>5. QED  BY <1>3, <1>4, NoFlightTyped DEF FlightOK

\* What a restart finds.
LEMMA LoadedTyped ==
    ASSUME NEW x \in Memories, x.flight = NoFlight, ~x.starting, NEW y, y = Loaded(x)
    PROVE  /\ y \in Memories /\ FlightOK(y)
           /\ y.flight = NoFlight /\ ~y.starting
           /\ x.exists => /\ y.exists /\ y.roundCode = x.roundCode
                          /\ y.reviewed = x.reviewed /\ y.pending = x.pending
                          /\ y.prNumber = x.prNumber /\ y.prRounds = x.prRounds
                          /\ x.phase # "reviewing" => y.failure = x.failure
                          /\ x.phase = "reviewing" => /\ y.failure.origin = "restart"
                                                      /\ y.failure.code = x.roundCode
           /\ ~x.exists => y = Untracked
<1>1. CASE ~x.exists
  BY <1>1, FreshTyped DEF Loaded
<1>2. CASE x.exists
  <2> DEFINE z == [x EXCEPT !.rescan = TRUE]
  <2>1. /\ z \in Memories /\ z.flight = NoFlight /\ ~z.starting /\ z.exists
        /\ z.roundCode = x.roundCode /\ z.reviewed = x.reviewed
        /\ z.pending = x.pending /\ z.failure = x.failure
        /\ z.prNumber = x.prNumber /\ z.prRounds = x.prRounds
    BY <1>2 DEF Memories
  <2>2. FlightOK(z)
    BY <2>1, NoFlightTyped DEF FlightOK
  <2>3. y = IF x.phase = "reviewing" THEN RecordFailure(z, "restart", x.roundCode) ELSE z
    BY <1>2 DEF Loaded
  <2>4. x.roundCode \in Codes \union Unverified \union {None}
    BY DEF Memories
  <2>5. "restart" \in Origins \ {"scan"}
    BY DEF Origins
  <2> HIDE DEF z
  <2>6. CASE x.phase = "reviewing"
    <3>1. y = RecordFailure(z, "restart", x.roundCode)
      BY <2>3, <2>6
    <3>2. QED
      BY <1>2, <2>1, <2>2, <2>4, <2>5, <2>6, <3>1, FailureRecorded DEF Closed
  <2>7. CASE x.phase # "reviewing"
    BY <1>2, <2>1, <2>2, <2>3, <2>7
  <2>8. QED  BY <2>6, <2>7
<1>3. QED  BY <1>1, <1>2


-----------------------------------------------------------------------------
(* 3. Starts                                                               *)

LEMMA StartsTyped ==
    /\ Free \in Starts /\ Free.at = "none" /\ Free.sight = NotScanned
    /\ Free.trigger = "none"
    /\ \A trigger \in Starters, before \in {"start", "queued"} :
          /\ Claimed(trigger, before) \in Starts
          /\ Claimed(trigger, before).at = "look"
          /\ Claimed(trigger, before).trigger = trigger
          /\ Claimed(trigger, before).sight = NotScanned
    /\ \A trigger \in Starters :
          /\ [Free EXCEPT !.at = "start", !.trigger = trigger] \in Starts
          /\ [Free EXCEPT !.at = "start", !.trigger = trigger].at = "start"
          /\ [Free EXCEPT !.at = "start", !.trigger = trigger].trigger = trigger
          /\ [Free EXCEPT !.at = "start", !.trigger = trigger].sight = NotScanned
<1>1. NotScanned \in Sights
  BY DEF Sights
<1>2. Free \in Starts /\ Free.at = "none" /\ Free.sight = NotScanned /\ Free.trigger = "none"
  BY <1>1 DEF Free, Starts
<1>3. \A trigger \in Starters, before \in {"start", "queued"} :
          /\ Claimed(trigger, before) \in Starts
          /\ Claimed(trigger, before).at = "look"
          /\ Claimed(trigger, before).trigger = trigger
          /\ Claimed(trigger, before).sight = NotScanned
  <2>1. TAKE trigger \in Starters, before \in {"start", "queued"}
  <2>2. Claimed(trigger, before) =
          [Free EXCEPT !.at = "look", !.trigger = trigger, !.before = before]
    BY DEF Claimed
  <2>3. QED  BY <1>2, <2>2 DEF Starts
<1>4. \A trigger \in Starters :
          /\ [Free EXCEPT !.at = "start", !.trigger = trigger] \in Starts
          /\ [Free EXCEPT !.at = "start", !.trigger = trigger].at = "start"
          /\ [Free EXCEPT !.at = "start", !.trigger = trigger].trigger = trigger
          /\ [Free EXCEPT !.at = "start", !.trigger = trigger].sight = NotScanned
  <2>1. TAKE trigger \in Starters
  <2>2. QED  BY <1>2 DEF Starts
<1>5. QED  BY <1>2, <1>3, <1>4

\* A claim, and a start that is put off.
Claims(x, y) ==
    /\ y.exists /\ y.starting /\ y.pending = "none" /\ y.round = x.round
    /\ y.reviewed = x.reviewed /\ y.roundCode = x.roundCode /\ y.flight = x.flight
    /\ y.prNumber = x.prNumber /\ y.prRounds = x.prRounds
Queues(x, y, trigger) ==
    /\ y.exists /\ y.starting = x.starting /\ y.pending = trigger /\ y.round = x.round
    /\ y.reviewed = x.reviewed /\ y.roundCode = x.roundCode /\ y.flight = x.flight
    /\ y.prNumber = x.prNumber /\ y.prRounds = x.prRounds

\* What comes of a start.
LEMMA StartCases ==
    ASSUME MemInv, NEW k \in Tasks, NEW trigger \in Starters, Start(k, trigger)
    PROVE  /\ MemInv' /\ t'.failure = t.failure
           /\ \/ /\ Kept(t, t') /\ task' = [task EXCEPT ![k] = Free]
              \/ /\ coder # "gone" /\ CoderIdle /\ ~InRound(t) /\ t.pending = "none"
                 /\ Claims(t, t')
                 /\ task' = [task EXCEPT ![k] = Claimed(trigger, "start")]
              \/ /\ coder # "gone" /\ ~InRound(t) /\ t.pending = "none"
                 /\ Queues(t, t', trigger)
                 /\ task' = [task EXCEPT ![k] = Free]
           /\ t'.exists => Persists(t', saved')
           /\ t'.exists /\ InRound(t') => t'.phase = "reviewing"
           /\ ~t'.exists => saved' = saved
<1>1. CASE coder = "gone" \/ InRound(t) \/ t.pending # "none"
  <2>1. Settle(t) /\ task' = [task EXCEPT ![k] = Free]
    BY <1>1 DEF Start
  <2>2. QED  BY <1>1, <2>1, SettledMemory DEF MemInv, Kept, InRound, Persists
<1>2. CASE /\ ~(coder = "gone" \/ InRound(t) \/ t.pending # "none") /\ CoderIdle
  <2> DEFINE x == [Touched EXCEPT !.starting = TRUE]
  <2>1. Settle(x) /\ task' = [task EXCEPT ![k] = Claimed(trigger, "start")]
    BY <1>2 DEF Start
  <2>2. x = [t EXCEPT !.exists = TRUE, !.starting = TRUE]
    BY DEF Touched
  <2> HIDE DEF x
  <2>3. x \in Memories
    BY <2>2 DEF MemInv, Memories
  <2>4. x.flight = t.flight /\ x.failure = t.failure /\ Claims(t, x)
    BY <1>2, <2>2 DEF MemInv, Memories, Claims
  <2>5. FlightOK(x)
    BY <2>4 DEF MemInv, FlightOK
  <2>6. /\ t' \in Memories /\ FlightOK(t') /\ Kept(x, t') /\ t'.failure = x.failure
        /\ x.exists /\ InRound(x) => t'.phase = "reviewing"
        /\ x.exists => /\ saved' \in Memories /\ saved'.flight = NoFlight
                       /\ ~saved'.starting /\ Persists(t', saved')
    BY <2>1, <2>3, <2>5, SettledMemory
  <2>7. Claims(t, t')
    BY <2>4, <2>6 DEF Claims, Kept
  <2>8. QED
    BY <1>2, <2>1, <2>4, <2>6, <2>7 DEF MemInv, Claims, InRound, Persists
<1>3. CASE /\ ~(coder = "gone" \/ InRound(t) \/ t.pending # "none") /\ ~CoderIdle
  <2> DEFINE x == [Touched EXCEPT !.pending = trigger]
  <2>1. Settle(x) /\ task' = [task EXCEPT ![k] = Free]
    BY <1>3 DEF Start
  <2>2. x = [t EXCEPT !.exists = TRUE, !.pending = trigger]
    BY DEF Touched
  <2> HIDE DEF x
  <2>3. x \in Memories
    BY <2>2 DEF MemInv, Memories
  <2>4. x.flight = t.flight /\ x.failure = t.failure /\ Queues(t, x, trigger)
    BY <1>3, <2>2 DEF MemInv, Memories, Queues
  <2>5. FlightOK(x)
    BY <2>4 DEF MemInv, FlightOK
  <2>6. /\ t' \in Memories /\ FlightOK(t') /\ Kept(x, t') /\ t'.failure = x.failure
        /\ x.exists /\ InRound(x) => t'.phase = "reviewing"
        /\ x.exists => /\ saved' \in Memories /\ saved'.flight = NoFlight
                       /\ ~saved'.starting /\ Persists(t', saved')
    BY <2>1, <2>3, <2>5, SettledMemory
  <2>7. Queues(t, t', trigger)
    BY <2>4, <2>6 DEF Queues, Kept
  <2>8. QED
    BY <1>3, <2>1, <2>4, <2>6, <2>7 DEF MemInv, Queues, InRound, Persists
<1>4. QED  BY <1>1, <1>2, <1>3

\* A queued start that is claimed.
LEMMA DrainedCases ==
    ASSUME NEW x \in Memories, FlightOK(x), StartInv, NEW y, y = Drained(x)
    PROVE  /\ y \in Memories /\ FlightOK(y) /\ y.failure = x.failure
           /\ y.phase = x.phase /\ y.lastRead = x.lastRead /\ y.exists = x.exists
           /\ \/ y = x /\ DrainTasks(x) = task
              \/ /\ CoderIdle /\ ~InRound(x) /\ x.pending # "none" /\ x.exists
                 /\ Claims(x, y)
                 /\ \E k \in Tasks :
                       /\ task[k].at = "none"
                       /\ DrainTasks(x) = [task EXCEPT ![k] = Claimed(x.pending, "queued")]
<1>1. CASE Drains(x)
  <2>1. y = [x EXCEPT !.starting = TRUE, !.pending = "none"]
    BY <1>1 DEF Drained
  <2>2. y \in Memories
    BY <2>1 DEF Memories
  <2>3. /\ y.flight = x.flight /\ y.failure = x.failure /\ y.phase = x.phase
        /\ y.lastRead = x.lastRead /\ y.exists = x.exists
    BY <2>1 DEF Memories
  <2>4. Claims(x, y)
    BY <1>1, <2>1 DEF Drains, Claims, Memories
  <2>5. \E k \in Tasks :
           /\ task[k].at = "none"
           /\ DrainTasks(x) = [task EXCEPT ![k] = Claimed(x.pending, "queued")]
    <3> DEFINE k == CHOOSE k \in Tasks : task[k].at = "none"
    <3>1. k \in Tasks /\ task[k].at = "none"
      BY <1>1 DEF Drains
    <3>2. DrainTasks(x) = [task EXCEPT ![k] = Claimed(x.pending, "queued")]
      BY <1>1, Zenon DEF DrainTasks
    <3> HIDE DEF k
    <3>3. QED  BY <3>1, <3>2
  <2>6. QED  BY <1>1, <2>2, <2>3, <2>4, <2>5 DEF Drains, FlightOK
<1>2. CASE ~Drains(x)
  BY <1>2 DEF Drained, DrainTasks
<1>3. QED  BY <1>1, <1>2


-----------------------------------------------------------------------------
(* 4. Types                                                                *)

\* A start that goes on.
StartTyped(r) ==
    /\ r \in Starts
    /\ r.at = "begin" /\ r.sight.kind = "read" => r.sight.read \notin Skipped
    /\ r.at \notin {"none", "pr"} => r.trigger \in Starters

LEMMA TaskChanged ==
    ASSUME StartInv, NEW k \in Tasks, NEW r, StartTyped(r),
           task' = [task EXCEPT ![k] = r]
    PROVE  StartInv' /\ \A j \in Tasks : task'[j] = IF j = k THEN r ELSE task[j]
BY DEF StartInv, StartTyped

LEMMA SettleTyped ==
    ASSUME MemInv, NEW x \in Memories, FlightOK(x), Settle(x)
    PROVE  MemInv'
<1>1. CASE x.exists
  BY <1>1, SettledMemory DEF MemInv
<1>2. CASE ~x.exists
  BY <1>2, SettledMemory DEF MemInv
<1>3. QED  BY <1>1, <1>2

LEMMA StartKeepsTypes ==
    ASSUME TypeInv, NEW k \in Tasks, NEW trigger \in Starters, Start(k, trigger)
    PROVE  MemInv' /\ StartInv'
<1>1. StartTyped(Free) /\ StartTyped(Claimed(trigger, "start"))
  BY StartsTyped, Zenon DEF StartTyped
<1>2. MemInv' /\ (\/ task' = [task EXCEPT ![k] = Free]
                  \/ task' = [task EXCEPT ![k] = Claimed(trigger, "start")])
  BY StartCases, Zenon DEF TypeInv
<1>3. QED  BY <1>1, <1>2, TaskChanged DEF TypeInv

LEMMA DrainKeepsTypes ==
    ASSUME TypeInv, NEW x \in Memories, FlightOK(x), task' = DrainTasks(x)
    PROVE  /\ Drained(x) \in Memories /\ FlightOK(Drained(x))
           /\ StartInv'
<1>1. /\ Drained(x) \in Memories /\ FlightOK(Drained(x))
      /\ \/ DrainTasks(x) = task
         \/ /\ x.pending # "none"
            /\ \E k \in Tasks :
                  DrainTasks(x) = [task EXCEPT ![k] = Claimed(x.pending, "queued")]
  BY DrainedCases DEF TypeInv
<1>2. CASE DrainTasks(x) = task
  BY <1>1, <1>2 DEF TypeInv, StartInv
<1>3. CASE x.pending # "none" /\
           \E k \in Tasks : DrainTasks(x) = [task EXCEPT ![k] = Claimed(x.pending, "queued")]
  <2>1. PICK k \in Tasks : DrainTasks(x) = [task EXCEPT ![k] = Claimed(x.pending, "queued")]
    BY <1>3
  <2>2. x.pending \in Starters
    BY <1>3 DEF Memories
  <2>3. StartTyped(Claimed(x.pending, "queued"))
    BY <2>2, StartsTyped, Zenon DEF StartTyped
  <2>4. QED  BY <1>1, <2>1, <2>3, TaskChanged DEF TypeInv
<1>4. QED  BY <1>1, <1>2, <1>3

LEMMA LookTyped ==
    ASSUME MemInv, NEW s \in Sights, NEW x,
           x = IF t.exists THEN RecordSighting(t, s) ELSE t
    PROVE  x \in Memories /\ FlightOK(x)
<1>1. CASE t.exists
  BY <1>1, Sighted DEF MemInv
<1>2. CASE ~t.exists
  BY <1>2 DEF MemInv
<1>3. QED  BY <1>1, <1>2

\* The starts.
LEMMA StartStepsTyped ==
    ASSUME TypeInv, NEW k \in Tasks,
           UserStarts(k) \/ PrOpens(k) \/ PrLooked(k) \/ StartRuns(k) \/ RoundLooks(k)
    PROVE  TypeInv'
<1>1. CASE UserStarts(k)
  <2>1. Start(k, "manual")
    BY <1>1 DEF UserStarts
  <2>2. "manual" \in Starters
    BY DEF Starters
  <2>3. MemInv' /\ StartInv'
    BY <2>1, <2>2, StartKeepsTypes
  <2>4. RestInv'
    BY <1>1 DEF UserStarts, TypeInv, RestInv, world, observers
  <2>5. QED  BY <2>3, <2>4 DEF TypeInv
<1>2. CASE PrOpens(k)
  <2>a. /\ pr' = "open"
        /\ UNCHANGED <<code, coder, deleg, driver, client, report, stopper, events,
                       reviewer, observers>>
    BY <1>2 DEF PrOpens
  <2>1. RestInv'
    BY <2>a DEF TypeInv, RestInv, observers
  <2>2. CASE UNCHANGED <<t, saved, task>>
    BY <2>1, <2>2 DEF TypeInv, MemInv, StartInv
  <2>3. CASE Start(k, "pr-open")
    <3>1. "pr-open" \in Starters
      BY DEF Starters
    <3>2. QED  BY <2>1, <2>3, <3>1, StartKeepsTypes DEF TypeInv
  <2>4. ASSUME NEW s \in SightsNow(FALSE), UNCHANGED <<t, saved>>,
               task' = [task EXCEPT ![k].at = "pr", ![k].sight = s]
        PROVE  TypeInv'
    <3> DEFINE r == [task[k] EXCEPT !.at = "pr", !.sight = s]
    <3>1. s \in Sights
      BY <2>4, SightTyped
    <3>2. StartTyped(r)
      BY <3>1 DEF TypeInv, StartInv, Starts, StartTyped
    <3>3. task' = [task EXCEPT ![k] = r]
      BY <2>4 DEF TypeInv, StartInv
    <3> HIDE DEF r
    <3>4. StartInv'
      BY <3>2, <3>3, TaskChanged DEF TypeInv
    <3>5. QED  BY <2>1, <2>4, <3>4 DEF TypeInv, MemInv
  <2>5. QED  BY <1>2, <2>2, <2>3, <2>4, Zenon DEF PrOpens
<1>3. CASE PrLooked(k)
  <2> DEFINE s == task[k].sight
             x == IF t.exists THEN RecordSighting(t, s) ELSE t
             r == [Free EXCEPT !.at = "start", !.trigger = "pr-open"]
  <2>1. s \in Sights
    BY DEF TypeInv, StartInv, Starts
  <2>2. Settle(x) /\ \E z \in {Free, r} : task' = [task EXCEPT ![k] = z]
    BY <1>3 DEF PrLooked
  <2>3. x \in Memories /\ FlightOK(x)
    BY <2>1, LookTyped DEF TypeInv
  <2> HIDE DEF x
  <2>4. MemInv'
    BY <2>2, <2>3, SettleTyped DEF TypeInv
  <2>5. "pr-open" \in Starters
    BY DEF Starters
  <2>6. StartTyped(Free) /\ StartTyped(r)
    BY <2>5, StartsTyped, Zenon DEF StartTyped
  <2> HIDE DEF r
  <2>7. StartInv'
    BY <2>2, <2>6, TaskChanged DEF TypeInv
  <2>8. RestInv'
    <3>1. tried' \in {tried, None}
      BY <1>3 DEF PrLooked, Shown
    <3>2. QED  BY <1>3, <3>1 DEF PrLooked, TypeInv, RestInv, world
  <2>9. QED  BY <2>4, <2>7, <2>8 DEF TypeInv
<1>4. CASE StartRuns(k)
  <2>1. Start(k, task[k].trigger)
    BY <1>4 DEF StartRuns
  <2>2. task[k].trigger \in Starters
    BY <1>4 DEF StartRuns, TypeInv, StartInv
  <2>3. MemInv' /\ StartInv'
    BY <2>1, <2>2, StartKeepsTypes
  <2>4. RestInv'
    BY <1>4 DEF StartRuns, TypeInv, RestInv, world, observers
  <2>5. QED  BY <2>3, <2>4 DEF TypeInv
<1>5. CASE RoundLooks(k)
  <2>1. PICK s \in SightsNow(TRUE) :
           task' = [task EXCEPT ![k].at = "begin", ![k].sight = s]
    BY <1>5 DEF RoundLooks
  <2> DEFINE r == [task[k] EXCEPT !.at = "begin", !.sight = s]
  <2>2. s \in Sights /\ (s.kind = "read" => s.read \notin Skipped)
    BY <2>1, SightTyped
  <2>3. task[k].trigger \in Starters
    BY <1>5 DEF RoundLooks, TypeInv, StartInv
  <2>4. StartTyped(r)
    BY <2>2, <2>3 DEF TypeInv, StartInv, Starts, StartTyped
  <2>5. task' = [task EXCEPT ![k] = r]
    BY <2>1 DEF TypeInv, StartInv
  <2> HIDE DEF r
  <2>6. StartInv'
    BY <2>4, <2>5, TaskChanged DEF TypeInv
  <2>7. MemInv' /\ RestInv'
    BY <1>5 DEF RoundLooks, TypeInv, MemInv, RestInv, world, observers
  <2>8. QED  BY <2>6, <2>7 DEF TypeInv
<1>6. QED  BY <1>1, <1>2, <1>3, <1>4, <1>5


\* A claim that begins its round, or fails to.
LEMMA BeginStepTyped ==
    ASSUME TypeInv, NEW k \in Tasks, RoundBegins(k)
    PROVE  TypeInv'
<1> DEFINE s == task[k].sight
           x == RecordSighting(t, s)
           ok == /\ t.exists /\ coder # "gone" /\ s.kind = "read"
                 /\ s.read.content # "unverified" /\ ~x.flight.open
           failed == IF s.kind = "read" THEN State(s.read) ELSE None
<1>1. task[k] \in Starts /\ task[k].at = "begin" /\ task[k].trigger \in Starters
  BY DEF RoundBegins, TypeInv, StartInv
<1>2. s \in Sights /\ (s.kind = "read" => s.read \in Codes \union Unverified)
  BY <1>1 DEF TypeInv, StartInv, Starts, Sights, Reads, NotScanned, Unreadable
<1>3. x \in Memories /\ FlightOK(x)
  BY <1>2, Sighted DEF TypeInv, MemInv
<1>4. CASE ok
  <2> DEFINE r == [task[k] EXCEPT !.at = "ensure", !.sight = NotScanned, !.round = t.round + 1]
  <2>1. /\ Settle(Begun(x, task[k].trigger, s.read))
        /\ task' = [task EXCEPT ![k].at = "ensure", ![k].sight = NotScanned,
                                ![k].round = t.round + 1]
        /\ IF task[k].trigger = "re-review"
           THEN tried' = s.read /\ autos' = autos + 1
           ELSE Shown(s) /\ UNCHANGED autos
    BY <1>4 DEF RoundBegins
  <2>2. s.read \in Codes
    BY <1>2, <1>4, ReadsApart
  <2>3. Begun(x, task[k].trigger, s.read) \in Memories /\ FlightOK(Begun(x, task[k].trigger, s.read))
    BY <1>3, <2>2, BegunTyped
  <2>4. MemInv'
    BY <2>1, <2>3, SettleTyped DEF TypeInv
  <2>5. t.round + 1 \in Nat /\ NotScanned \in Sights
    BY DEF TypeInv, MemInv, Memories, Sights
  <2>6. StartTyped(r)
    BY <1>1, <2>5 DEF StartTyped, Starts
  <2>7. task' = [task EXCEPT ![k] = r]
    BY <2>1 DEF TypeInv, StartInv
  <2> HIDE DEF r
  <2>8. StartInv'
    BY <2>6, <2>7, TaskChanged DEF TypeInv
  <2>9. tried' \in Codes \union {None} /\ autos' \in Nat
    BY <2>1, <2>2 DEF Shown, TypeInv, RestInv
  <2>10. RestInv'
    BY <2>9 DEF RoundBegins, TypeInv, RestInv, world
  <2>11. QED  BY <2>4, <2>8, <2>10 DEF TypeInv
<1>5. CASE ~ok
  <2> DEFINE y == IF t.exists THEN RecordFailure(x, task[k].before, failed) ELSE t
  <2>1. Settle(y) /\ task' = [task EXCEPT ![k] = Free] /\ Shown(s)
    BY <1>5 DEF RoundBegins
  <2>2. failed \in Codes \union Unverified \union {None}
    BY <1>2 DEF State
  <2>3. task[k].before \in Origins \ {"scan"}
    BY <1>1 DEF Starts, Origins
  <2> HIDE DEF x, failed
  <2>4. y \in Memories /\ FlightOK(y)
    <3>1. CASE t.exists
      BY <1>3, <2>2, <2>3, <3>1, FailureRecorded
    <3>2. CASE ~t.exists
      BY <3>2 DEF TypeInv, MemInv
    <3>3. QED  BY <3>1, <3>2
  <2> HIDE DEF y
  <2>5. MemInv'
    BY <2>1, <2>4, SettleTyped DEF TypeInv
  <2>6. StartTyped(Free)
    BY StartsTyped DEF StartTyped
  <2>7. StartInv'
    BY <2>1, <2>6, TaskChanged DEF TypeInv
  <2>8. RestInv'
    BY <2>1 DEF RoundBegins, Shown, TypeInv, RestInv, world
  <2>9. QED  BY <2>5, <2>7, <2>8 DEF TypeInv
<1>6. QED  BY <1>4, <1>5

LEMMA RoundFailsTyped ==
    ASSUME TypeInv, NEW k \in Tasks, RoundFails(k)
    PROVE  MemInv' /\ StartInv'
<1> DEFINE y == IF t.exists THEN RoundFailed(t) ELSE t
<1>1. Settle(y) /\ task' = [task EXCEPT ![k] = Free]
  BY DEF RoundFails
<1>2. y \in Memories /\ FlightOK(y)
  BY RoundFailedTyped DEF TypeInv, MemInv
<1> HIDE DEF y
<1>3. StartTyped(Free)
  BY StartsTyped DEF StartTyped
<1>4. QED  BY <1>1, <1>2, <1>3, SettleTyped, TaskChanged DEF TypeInv

LEMMA EventAdded ==
    ASSUME events \in Seq(Events), NEW e \in Events
    PROVE  /\ Append(events, e) \in Seq(Events)
           /\ Len(Append(events, e)) = Len(events) + 1
           /\ \A i \in 1 .. Len(events) : Append(events, e)[i] = events[i]
           /\ Append(events, e)[Len(events) + 1] = e
OBVIOUS

LEMMA EventsTyped ==
    /\ <<"coder", "idle">> \in Events /\ <<"reviewer", "idle">> \in Events
    /\ <<"reviewer", "running">> \in Events /\ <<"reviewer", "error">> \in Events
BY DEF Events

LEMMA DeliveryStepsTyped ==
    ASSUME TypeInv, NEW k \in Tasks, RoundEnsures(k) \/ RoundSends(k)
    PROVE  TypeInv'
<1>1. CASE RoundFails(k) /\ (RoundEnsures(k) \/ RoundSends(k))
  <2>1. MemInv' /\ StartInv'
    BY <1>1, RoundFailsTyped
  <2>2. UNCHANGED <<world, driver, client, report, stopper, observers, events, reviewer>>
    BY <1>1 DEF RoundFails, RoundEnsures, RoundSends
  <2>3. RestInv'
    BY <2>2 DEF TypeInv, RestInv, world, observers
  <2>4. QED  BY <2>1, <2>3 DEF TypeInv
<1>2. CASE ~RoundFails(k) /\ RoundEnsures(k)
  <2>1. /\ task[k].at = "ensure"
        /\ reviewer' = [reviewer EXCEPT !.status = IF @ = "down" THEN "idle" ELSE @]
        /\ events' = IF reviewer.status = "down"
                     THEN Append(events, <<"reviewer", "idle">>) ELSE events
        /\ t' = [Touched EXCEPT !.reviewer = TRUE, !.flight.named = t.flight.open]
        /\ task' = [task EXCEPT ![k].at = "send"]
        /\ saved' = saved
        /\ UNCHANGED <<world, driver, client, report, stopper, observers>>
    BY <1>2 DEF RoundEnsures
  <2> DEFINE r == [task[k] EXCEPT !.at = "send"]
             g == [t.flight EXCEPT !.named = t.flight.open]
  <2>2. StartTyped(r)
    BY <2>1 DEF TypeInv, StartInv, Starts, StartTyped
  <2>3. task' = [task EXCEPT ![k] = r]
    BY <2>1 DEF TypeInv, StartInv
  <2>4. g \in [open : BOOLEAN, named : BOOLEAN, submitted : BOOLEAN, saw : BOOLEAN]
    BY DEF TypeInv, MemInv, Memories
  <2>5. t' = [t EXCEPT !.exists = TRUE, !.reviewer = TRUE, !.flight = g]
    BY <2>1 DEF Touched, TypeInv, MemInv, Memories
  <2>6. /\ g.named = g.open /\ g.submitted = t.flight.submitted /\ g.saw = t.flight.saw
        /\ g.open = t.flight.open
    BY DEF TypeInv, MemInv, Memories
  <2> HIDE DEF r, g
  <2>7. StartInv'
    BY <2>2, <2>3, TaskChanged DEF TypeInv
  <2>8. t' \in Memories
    BY <2>4, <2>5 DEF TypeInv, MemInv, Memories
  <2>9. t'.flight = g
    BY <2>5 DEF TypeInv, MemInv, Memories
  <2>10. FlightOK(t')
    BY <2>6, <2>9 DEF FlightOK, TypeInv, MemInv
  <2>11. MemInv'
    BY <2>1, <2>8, <2>10 DEF TypeInv, MemInv
  <2>12. events' \in Seq(Events)
    BY <2>1, EventAdded, EventsTyped DEF TypeInv, RestInv
  <2>13. reviewer' \in [status : {"down", "idle", "running"}, inbox : SUBSET Nat,
                        turn : SUBSET Nat, interrupted : BOOLEAN]
    BY <2>1 DEF TypeInv, RestInv
  <2>a. UNCHANGED <<world, driver, client, report, stopper, observers>>
    BY <2>1
  <2> HIDE <2>1
  <2>14. RestInv'
    BY <2>a, <2>12, <2>13 DEF TypeInv, RestInv, world, observers
  <2>15. QED  BY <2>7, <2>11, <2>14 DEF TypeInv
<1>3. CASE ~RoundFails(k) /\ RoundSends(k)
  <2>1. /\ task' = [task EXCEPT ![k] = Free]
        /\ Settle(t)
        /\ \/ /\ reviewer' = [status |-> "running", inbox |-> {},
                              turn |-> reviewer.inbox \union {task[k].round},
                              interrupted |-> FALSE]
              /\ events' = Append(events, <<"reviewer", "running">>)
           \/ /\ events' = events
              /\ \/ reviewer' = [reviewer EXCEPT !.inbox = @ \union {task[k].round}]
                 \/ reviewer' = [reviewer EXCEPT !.turn = @ \union {task[k].round}]
        /\ UNCHANGED <<world, driver, client, report, stopper, observers>>
    BY <1>3 DEF RoundSends
  <2>2. MemInv'
    BY <2>1, SettleTyped DEF TypeInv, MemInv
  <2>3. StartTyped(Free)
    BY StartsTyped DEF StartTyped
  <2>4. StartInv'
    BY <2>1, <2>3, TaskChanged DEF TypeInv
  <2>a. events' = events \/ events' = Append(events, <<"reviewer", "running">>)
    BY <2>1, Zenon
  <2>5. events' \in Seq(Events)
    <3>1. events \in Seq(Events)
      BY DEF TypeInv, RestInv
    <3>2. Append(events, <<"reviewer", "running">>) \in Seq(Events)
      BY <3>1, EventsTyped
    <3>3. QED  BY <2>a, <3>1, <3>2
  <2>6. task[k].round \in Nat
    BY DEF TypeInv, StartInv, Starts
  <2>7. reviewer' \in [status : {"down", "idle", "running"}, inbox : SUBSET Nat,
                       turn : SUBSET Nat, interrupted : BOOLEAN]
    <3> DEFINE inbox == reviewer.inbox \union {task[k].round}
               turn == reviewer.turn \union {task[k].round}
    <3>1. inbox \in SUBSET Nat /\ turn \in SUBSET Nat
      BY <2>6 DEF TypeInv, RestInv
    <3>2. \/ reviewer' = [status |-> "running", inbox |-> {}, turn |-> inbox,
                         interrupted |-> FALSE]
          \/ reviewer' = [reviewer EXCEPT !.inbox = inbox]
          \/ reviewer' = [reviewer EXCEPT !.turn = turn]
      BY <2>1, Zenon
    <3> HIDE DEF inbox, turn
    <3>3. /\ reviewer \in [status : {"down", "idle", "running"}, inbox : SUBSET Nat,
                           turn : SUBSET Nat, interrupted : BOOLEAN]
      BY DEF TypeInv, RestInv
    <3>4. CASE reviewer' = [status |-> "running", inbox |-> {}, turn |-> inbox,
                            interrupted |-> FALSE]
      BY <3>1, <3>4
    <3>5. CASE reviewer' = [reviewer EXCEPT !.inbox = inbox]
      BY <3>1, <3>3, <3>5
    <3>6. CASE reviewer' = [reviewer EXCEPT !.turn = turn]
      BY <3>1, <3>3, <3>6
    <3>7. QED  BY <3>2, <3>4, <3>5, <3>6
  <2>8. RestInv'
    BY <2>1, <2>5, <2>7 DEF TypeInv, RestInv, world, observers
  <2>9. QED  BY <2>2, <2>4, <2>8 DEF TypeInv
<1>4. QED  BY <1>1, <1>2, <1>3


\* What the driver hears first.
LEMMA EventTaken ==
    ASSUME events \in Seq(Events), events # <<>>
    PROVE  /\ Head(events) \in Events /\ Tail(events) \in Seq(Events)
           /\ Head(events) = events[1] /\ 1 \in DOMAIN events
           /\ Len(Tail(events)) = Len(events) - 1 /\ Len(events) \in Nat \ {0}
           /\ \A i \in DOMAIN Tail(events) : Tail(events)[i] = events[i + 1]
           /\ DOMAIN events = 1 .. Len(events)
           /\ DOMAIN Tail(events) = 1 .. Len(events) - 1
OBVIOUS

LEMMA EventKinds ==
    ASSUME NEW e \in Events
    PROVE  \/ e = <<"coder", "idle">> /\ e[1] = "coder"
           \/ e[1] = "reviewer" /\ e[2] \in {"idle", "error", "running"} /\ e = <<e[1], e[2]>>
BY DEF Events

LEMMA DriverReadsTyped ==
    ASSUME TypeInv, NEW at \in {"rest", "scanned", "polled", "full", "gated"},
           NEW full \in BOOLEAN, DriverReads(at, full)
    PROVE  driver' \in [at : {"rest", "scanned", "polled", "full", "gated"}, sight : Sights]
<1>1. PICK s \in SightsNow(full) : driver' = [at |-> at, sight |-> s]
  BY DEF DriverReads
<1>2. s \in Sights
  BY <1>1, SightTyped
<1>3. QED  BY <1>1, <1>2

\* The driver's status events.
LEMMA HearingTyped ==
    ASSUME TypeInv, DriverHears \/ DriverResyncs
    PROVE  TypeInv'
<1>1. CASE DriverHears
  <2> DEFINE who == Head(events)[1]
             status == Head(events)[2]
             x == OnReviewerStatus(t, status)
  <2>1. /\ events # <<>> /\ events' = Tail(events)
        /\ UNCHANGED <<world, task, client, report, stopper, reviewer, observers>>
    BY <1>1 DEF DriverHears
  <2>2. /\ Head(events) \in Events /\ events' \in Seq(Events)
    BY <2>1, EventTaken DEF TypeInv, RestInv
  <2>3. StartInv'
    BY <2>1 DEF TypeInv, StartInv
  <2>4. driver' \in [at : {"rest", "scanned", "polled", "full", "gated"}, sight : Sights]
    <3>1. driver' = driver \/ DriverReads("scanned", FALSE)
      BY <1>1 DEF DriverHears
    <3>2. QED  BY <3>1, DriverReadsTyped DEF TypeInv, RestInv
  <2>5. RestInv'
    BY <2>1, <2>2, <2>4 DEF TypeInv, RestInv, world, observers
  <2>6. MemInv'
    <3>1. CASE UNCHANGED <<t, saved>>
      BY <3>1 DEF TypeInv, MemInv
    <3>2. CASE /\ who # "coder" /\ t.flight.named
               /\ IF x.flight.open THEN t' = x /\ UNCHANGED saved ELSE Settle(x)
      <4>1. status \in {"idle", "error", "running"}
        BY <2>2, <3>2, EventKinds
      <4>2. x \in Memories /\ FlightOK(x)
        BY <3>2, <4>1, StatusTyped DEF TypeInv, MemInv
      <4> HIDE DEF x
      <4>3. CASE Settle(x)
        BY <4>2, <4>3, SettleTyped DEF TypeInv
      <4>4. CASE t' = x /\ UNCHANGED saved
        BY <4>2, <4>4 DEF TypeInv, MemInv
      <4>5. QED  BY <3>2, <4>3, <4>4
    <3>3. QED  BY <1>1, <3>1, <3>2 DEF DriverHears
  <2>7. QED  BY <2>3, <2>5, <2>6 DEF TypeInv
<1>2. CASE DriverResyncs
  <2>1. /\ events' = <<>>
        /\ UNCHANGED <<world, task, driver, client, report, stopper, reviewer, observers>>
        /\ UNCHANGED <<t, saved>> \/ Settle(TurnEnded(t)) \/ Settle(RoundFailed(t))
    BY <1>2 DEF DriverResyncs
  <2>2. /\ TurnEnded(t) \in Memories /\ FlightOK(TurnEnded(t))
        /\ RoundFailed(t) \in Memories /\ FlightOK(RoundFailed(t))
    BY TurnEndedTyped, RoundFailedTyped DEF TypeInv, MemInv
  <2>3. MemInv'
    <3>1. CASE UNCHANGED <<t, saved>>
      BY <3>1 DEF TypeInv, MemInv
    <3>2. QED  BY <2>1, <2>2, <3>1, SettleTyped DEF TypeInv
  <2>4. events' \in Seq(Events)
    BY <2>1
  <2>5. StartInv' /\ RestInv'
    BY <2>1, <2>4 DEF TypeInv, StartInv, RestInv, world, observers
  <2>6. QED  BY <2>3, <2>5 DEF TypeInv
<1>3. QED  BY <1>1, <1>2

\* A tick on the memory x.
LEMMA TickStartsTyped ==
    ASSUME TypeInv, NEW x \in Memories, FlightOK(x), TickStarts(x)
    PROVE  /\ MemInv' /\ StartInv'
           /\ driver' \in [at : {"rest", "scanned", "polled", "full", "gated"}, sight : Sights]
<1> DEFINE y == Drained(x)
<1>1. /\ task' = DrainTasks(x)
      /\ \/ DriverPolls /\ t' = y /\ UNCHANGED saved
         \/ Settle(y) /\ driver' = driver
  BY DEF TickStarts
<1>2. y \in Memories /\ FlightOK(y) /\ StartInv'
  BY <1>1, DrainKeepsTypes
<1> HIDE DEF y
<1>3. CASE DriverPolls /\ t' = y /\ UNCHANGED saved
  <2>1. driver' \in [at : {"rest", "scanned", "polled", "full", "gated"}, sight : Sights]
    <3>1. CASE DriverReads("polled", FALSE)
      BY <3>1, DriverReadsTyped
    <3>2. CASE driver' = [at |-> "polled", sight |-> NotScanned]
      BY <3>2 DEF Sights
    <3>3. QED  BY <1>3, <3>1, <3>2 DEF DriverPolls
  <2>2. QED  BY <1>2, <1>3, <2>1 DEF TypeInv, MemInv
<1>4. CASE Settle(y) /\ driver' = driver
  BY <1>2, <1>4, SettleTyped DEF TypeInv, RestInv
<1>5. QED  BY <1>1, <1>3, <1>4

LEMMA TicksTyped ==
    ASSUME TypeInv, DriverScanned \/ DriverTicks \/ TickTimesOut \/ TickReadsFull \/ TickGates
    PROVE  TypeInv'
<1>0. driver.sight \in Sights /\ Resting \in [at : {"rest"}, sight : Sights]
  BY DEF TypeInv, RestInv, Resting, Sights
<1> DEFINE x == IF t.exists THEN RecordSighting(t, driver.sight) ELSE t
<1>a. x \in Memories /\ FlightOK(x)
  BY <1>0, LookTyped DEF TypeInv
<1>1. CASE DriverScanned
  <2>1. /\ Settle(Drained(x)) /\ task' = DrainTasks(x) /\ driver' = Resting
        /\ Shown(driver.sight)
        /\ UNCHANGED <<world, client, report, stopper, events, reviewer, used, credited, autos>>
    BY <1>1 DEF DriverScanned
  <2> HIDE DEF x
  <2>2. Drained(x) \in Memories /\ FlightOK(Drained(x)) /\ StartInv'
    BY <1>a, <2>1, DrainKeepsTypes
  <2>3. MemInv'
    BY <2>1, <2>2, SettleTyped DEF TypeInv
  <2>4. RestInv'
    BY <1>0, <2>1 DEF TypeInv, RestInv, Shown, world
  <2>5. QED  BY <2>2, <2>3, <2>4 DEF TypeInv
<1>2. CASE DriverTicks
  <2>1. /\ TickStarts(t)
        /\ UNCHANGED <<world, client, report, stopper, events, reviewer, observers>>
    BY <1>2 DEF DriverTicks
  <2>2. MemInv' /\ StartInv' /\
        driver' \in [at : {"rest", "scanned", "polled", "full", "gated"}, sight : Sights]
    BY <2>1, TickStartsTyped DEF TypeInv, MemInv
  <2>3. RestInv'
    BY <2>1, <2>2 DEF TypeInv, RestInv, world, observers
  <2>4. QED  BY <2>2, <2>3 DEF TypeInv
<1>3. CASE TickTimesOut
  <2>1. /\ TickStarts(Expired(t))
        /\ Interrupt \/ UNCHANGED reviewer
        /\ UNCHANGED <<world, client, report, stopper, events, observers>>
    BY <1>3 DEF TickTimesOut
  <2>2. Expired(t) \in Memories /\ FlightOK(Expired(t))
    BY TurnEndedTyped, RoundFailedTyped DEF TypeInv, MemInv, Expired
  <2>3. MemInv' /\ StartInv' /\
        driver' \in [at : {"rest", "scanned", "polled", "full", "gated"}, sight : Sights]
    BY <2>1, <2>2, TickStartsTyped
  <2>4. reviewer' \in [status : {"down", "idle", "running"}, inbox : SUBSET Nat,
                       turn : SUBSET Nat, interrupted : BOOLEAN]
    BY <2>1 DEF TypeInv, RestInv, Interrupt
  <2>5. RestInv'
    BY <2>1, <2>3, <2>4 DEF TypeInv, RestInv, world, observers
  <2>6. QED  BY <2>3, <2>5 DEF TypeInv
<1>4. CASE TickReadsFull
  <2>1. DriverReads("gated", TRUE)
    BY <1>4 DEF TickReadsFull
  <2>2. driver' \in [at : {"rest", "scanned", "polled", "full", "gated"}, sight : Sights]
    BY <2>1, DriverReadsTyped
  <2>3. QED
    BY <1>4, <2>2 DEF TickReadsFull, TypeInv, MemInv, StartInv, RestInv, world, observers
<1>5. CASE TickGates
  <2>1. /\ Settle(x) /\ Shown(driver.sight)
        /\ driver' \in {Resting, [Resting EXCEPT !.at = "full"]}
        /\ \/ UNCHANGED task
           \/ \E k \in Tasks :
                 task' = [task EXCEPT ![k] = [Free EXCEPT !.at = "start",
                                                          !.trigger = "re-review"]]
        /\ UNCHANGED <<world, client, report, stopper, events, reviewer, used, credited, autos>>
    BY <1>5, Zenon DEF TickGates
  <2> HIDE DEF x
  <2>2. MemInv'
    BY <1>a, <2>1, SettleTyped DEF TypeInv
  <2>3. StartInv'
    <3>1. CASE UNCHANGED task
      BY <3>1 DEF TypeInv, StartInv
    <3>2. CASE \E k \in Tasks :
                 task' = [task EXCEPT ![k] = [Free EXCEPT !.at = "start",
                                                          !.trigger = "re-review"]]
      <4> DEFINE r == [Free EXCEPT !.at = "start", !.trigger = "re-review"]
      <4>1. "re-review" \in Starters
        BY DEF Starters
      <4>2. StartTyped(r)
        BY <4>1, StartsTyped, Zenon DEF StartTyped
      <4>3. PICK k \in Tasks : task' = [task EXCEPT ![k] = r]
        BY <3>2
      <4> HIDE DEF r
      <4>4. QED  BY <4>2, <4>3, TaskChanged DEF TypeInv
    <3>3. QED  BY <2>1, <3>1, <3>2
  <2>4. driver' \in [at : {"rest", "scanned", "polled", "full", "gated"}, sight : Sights]
    BY <1>0, <2>1
  <2>5. RestInv'
    BY <2>1, <2>4 DEF TypeInv, RestInv, Shown, world
  <2>6. QED  BY <2>2, <2>3, <2>5 DEF TypeInv
<1>6. QED  BY <1>1, <1>2, <1>3, <1>4, <1>5


\* Reports, looks and stops.
LEMMA LooksTyped ==
    ASSUME TypeInv,
           \/ ReviewerSubmits \/ ReportLooks \/ ReportLooked
           \/ UserStops \/ StopInterrupts \/ StopClears
           \/ ClientLooks \/ ClientLooked
    PROVE  TypeInv'
<1>1. CASE ReviewerSubmits
  <2> DEFINE g == [t.flight EXCEPT !.submitted = TRUE]
  <2>1. /\ t' = [t EXCEPT !.flight.submitted = TRUE, !.reviewed = t.roundCode]
        /\ t.flight.named /\ saved' = saved
        /\ report' = [report EXCEPT !.at = "look"]
        /\ credited' = (credited /\ t.round \in reviewer.turn)
        /\ UNCHANGED <<world, saved, task, driver, client, stopper, events, reviewer, used,
                        tried, autos>>
    BY <1>1 DEF ReviewerSubmits
  <2>2. g \in [open : BOOLEAN, named : BOOLEAN, submitted : BOOLEAN, saw : BOOLEAN]
    BY DEF TypeInv, MemInv, Memories
  <2>3. t' = [t EXCEPT !.flight = g, !.reviewed = t.roundCode]
    BY <2>1 DEF TypeInv, MemInv, Memories
  <2>4. g.open = t.flight.open /\ g.named = t.flight.named
    BY DEF TypeInv, MemInv, Memories
  <2> HIDE DEF g
  <2>5. t' \in Memories /\ t'.flight = g
    BY <2>2, <2>3 DEF TypeInv, MemInv, Memories
  <2>6. MemInv'
    BY <2>1, <2>4, <2>5 DEF TypeInv, MemInv, FlightOK
  <2>7. report' \in [at : {"none", "look", "seen"}, sight : Sights]
    BY <2>1 DEF TypeInv, RestInv
  <2>8. credited' \in BOOLEAN
    BY <2>1 DEF TypeInv, RestInv
  <2>9. StartInv' /\ RestInv'
    BY <2>1, <2>7, <2>8 DEF TypeInv, StartInv, RestInv, world
  <2>10. QED  BY <2>6, <2>9 DEF TypeInv
<1>2. CASE ReportLooks
  <2>1. PICK s \in SightsNow(TRUE) : report' = [at |-> "seen", sight |-> s]
    BY <1>2 DEF ReportLooks
  <2>2. s \in Sights
    BY <2>1, SightTyped
  <2>3. report' \in [at : {"none", "look", "seen"}, sight : Sights]
    BY <2>1, <2>2
  <2>4. QED
    BY <1>2, <2>3 DEF ReportLooks, TypeInv, MemInv, StartInv, RestInv, world, observers
<1>3. CASE ReportLooked
  <2> DEFINE x == IF t.exists THEN RecordSighting(t, report.sight) ELSE t
  <2>1. /\ Settle(x) /\ Shown(report.sight)
        /\ report' = [at |-> "none", sight |-> NotScanned]
        /\ UNCHANGED <<world, task, driver, client, stopper, events, reviewer, used,
                        credited, autos>>
    BY <1>3 DEF ReportLooked
  <2>2. report.sight \in Sights /\ NotScanned \in Sights
    BY DEF TypeInv, RestInv, Sights
  <2>3. x \in Memories /\ FlightOK(x)
    BY <2>2, LookTyped DEF TypeInv
  <2> HIDE DEF x
  <2>4. MemInv'
    BY <2>1, <2>3, SettleTyped DEF TypeInv
  <2>5. StartInv' /\ RestInv'
    BY <2>1, <2>2 DEF TypeInv, StartInv, RestInv, Shown, world
  <2>6. QED  BY <2>4, <2>5 DEF TypeInv
<1>4. CASE UserStops \/ StopInterrupts
  <2>1. /\ Interrupt \/ UNCHANGED reviewer
        /\ stopper' \in {"rest", "interrupt", "clear"}
        /\ UNCHANGED <<world, t, saved, task, driver, client, report, events, observers>>
    BY <1>4 DEF UserStops, StopInterrupts
  <2>2. reviewer' \in [status : {"down", "idle", "running"}, inbox : SUBSET Nat,
                       turn : SUBSET Nat, interrupted : BOOLEAN]
    BY <2>1 DEF TypeInv, RestInv, Interrupt
  <2>3. QED  BY <2>1, <2>2 DEF TypeInv, MemInv, StartInv, RestInv, world, observers
<1>a. CASE StopClears
  <2> DEFINE x == [Touched EXCEPT !.flight = NoFlight, !.pending = "none"]
  <2>1. /\ Settle(x) /\ stopper' = "rest"
        /\ UNCHANGED <<world, task, driver, client, report, events, reviewer, observers>>
    BY <1>a DEF StopClears
  <2>2. Touched \in Memories
    BY DEF TypeInv, MemInv, Memories, Touched
  <2>3. x \in Memories /\ x.flight = NoFlight
    BY <2>2, NoFlightTyped DEF Memories
  <2>4. FlightOK(x)
    BY <2>3, NoFlightTyped DEF FlightOK
  <2> HIDE DEF x
  <2>5. MemInv'
    BY <2>1, <2>3, <2>4, SettleTyped DEF TypeInv
  <2>6. StartInv' /\ RestInv'
    BY <2>1 DEF TypeInv, StartInv, RestInv, world, observers
  <2>7. QED  BY <2>5, <2>6 DEF TypeInv
<1>5. CASE ClientLooks
  <2>1. PICK s \in SightsNow(FALSE) : client' = [at |-> "seen", sight |-> s]
    BY <1>5 DEF ClientLooks
  <2>2. s \in Sights
    BY <2>1, SightTyped
  <2>3. client' \in [at : {"none", "seen"}, sight : Sights]
    BY <2>1, <2>2
  <2>4. QED
    BY <1>5, <2>3 DEF ClientLooks, TypeInv, MemInv, StartInv, RestInv, world, observers
<1>6. CASE ClientLooked
  <2> DEFINE x == IF t.exists THEN RecordSighting(t, client.sight) ELSE t
  <2>1. /\ Settle(x) /\ Shown(client.sight)
        /\ client' = [at |-> "none", sight |-> NotScanned]
        /\ UNCHANGED <<world, task, driver, report, stopper, events, reviewer, used,
                        credited, autos>>
    BY <1>6 DEF ClientLooked
  <2>2. client.sight \in Sights /\ NotScanned \in Sights
    BY DEF TypeInv, RestInv, Sights
  <2>3. x \in Memories /\ FlightOK(x)
    BY <2>2, LookTyped DEF TypeInv
  <2> HIDE DEF x
  <2>4. MemInv'
    BY <2>1, <2>3, SettleTyped DEF TypeInv
  <2>5. StartInv' /\ RestInv'
    BY <2>1, <2>2 DEF TypeInv, StartInv, RestInv, Shown, world
  <2>6. QED  BY <2>4, <2>5 DEF TypeInv
<1>7. QED  BY <1>1, <1>2, <1>3, <1>4, <1>a, <1>5, <1>6

LEMMA RestingTyped ==
    /\ Resting \in [at : {"rest", "scanned", "polled", "full", "gated"}, sight : Sights]
    /\ NoLook \in [at : {"none", "seen"}, sight : Sights]
    /\ NoLook \in [at : {"none", "look", "seen"}, sight : Sights]
BY DEF Resting, NoLook, Sights

LEMMA DownTyped ==
    [status |-> "down", inbox |-> {}, turn |-> {}, interrupted |-> FALSE]
      \in [status : {"down", "idle", "running"}, inbox : SUBSET Nat,
           turn : SUBSET Nat, interrupted : BOOLEAN]
OBVIOUS

\* The reviewer, the coder and the host.
LEMMA WorldTyped ==
    ASSUME TypeInv,
           (\E status \in {"idle", "error"} : ReviewerTurnEnds(status))
             \/ CodeMoves \/ CoderTurnStarts \/ CoderTurnEnds
             \/ DelegationAdmitted \/ DelegationEnds \/ CoderGoes \/ Restart
    PROVE  TypeInv'
<1>1. ASSUME NEW status \in {"idle", "error"}, ReviewerTurnEnds(status)
      PROVE  TypeInv'
  <2> DEFINE next == reviewer.inbox # {} /\ ~reviewer.interrupted
             now == IF next THEN "running" ELSE "idle"
             turn == IF next THEN reviewer.inbox ELSE {}
             inbox == IF next THEN {} ELSE reviewer.inbox
  <2>1. /\ reviewer' = [status |-> now, turn |-> turn, inbox |-> inbox,
                        interrupted |-> FALSE]
        /\ events' = events \o <<<<"reviewer", status>>>>
                            \o (IF next THEN <<<<"reviewer", "running">>>> ELSE <<>>)
        /\ UNCHANGED <<world, t, saved, task, driver, client, report, stopper, used,
                        observers>>
    BY <1>1 DEF ReviewerTurnEnds
  <2>2. turn \in SUBSET Nat /\ inbox \in SUBSET Nat /\ now \in {"down", "idle", "running"}
    BY DEF TypeInv, RestInv
  <2> HIDE DEF next, now, turn, inbox
  <2>3. reviewer' \in [status : {"down", "idle", "running"}, inbox : SUBSET Nat,
                       turn : SUBSET Nat, interrupted : BOOLEAN]
    BY <2>1, <2>2
  <2>4. events' \in Seq(Events)
    <3>1. <<"reviewer", status>> \in Events
      BY <1>1, EventsTyped
    <3>2. <<<<"reviewer", status>>>> \in Seq(Events)
      BY <3>1
    <3>3. (IF next THEN <<<<"reviewer", "running">>>> ELSE <<>>) \in Seq(Events)
      BY EventsTyped
    <3>4. events \in Seq(Events)
      BY DEF TypeInv, RestInv
    <3>5. QED  BY <2>1, <3>2, <3>3, <3>4, ConcatProperties
  <2>5. QED
    BY <2>1, <2>3, <2>4 DEF TypeInv, MemInv, StartInv, RestInv, world, observers
<1>2. CASE CodeMoves
  BY <1>2 DEF CodeMoves, TypeInv, MemInv, StartInv, RestInv, observers
<1>3. CASE CoderTurnStarts
  BY <1>3 DEF CoderTurnStarts, TypeInv, MemInv, StartInv, RestInv, observers
<1>4. CASE CoderTurnEnds
  <2>1. events' \in Seq(Events)
    BY <1>4, EventsTyped DEF CoderTurnEnds, TypeInv, RestInv
  <2>2. QED
    BY <1>4, <2>1 DEF CoderTurnEnds, TypeInv, MemInv, StartInv, RestInv, observers
<1>5. CASE DelegationAdmitted
  BY <1>5 DEF DelegationAdmitted, TypeInv, MemInv, StartInv, RestInv, observers
<1>6. CASE DelegationEnds
  <2>1. deleg' \in BOOLEAN
    BY <1>6 DEF DelegationEnds
  <2>2. UNCHANGED <<code, pr, coder, t, saved, task, driver, client, report, stopper,
                    events, reviewer, observers>>
    BY <1>6 DEF DelegationEnds
  <2>3. QED
    BY <2>1, <2>2 DEF TypeInv, MemInv, StartInv, RestInv, observers
<1>7. CASE CoderGoes
  <2>1. MemInv'
    BY <1>7, FreshTyped DEF CoderGoes, MemInv
  <2>2. QED
    BY <1>7, <2>1, DownTyped DEF CoderGoes, TypeInv, StartInv, RestInv, observers
<1>8. CASE Restart
  <2>1. t' = Loaded(saved) /\ saved' = saved /\ task' = [k \in Tasks |-> Free]
    BY <1>8 DEF Restart
  <2>2. t' \in Memories /\ FlightOK(t')
    BY <2>1, LoadedTyped DEF TypeInv, MemInv
  <2>3. MemInv'
    BY <2>1, <2>2 DEF TypeInv, MemInv
  <2>4. StartInv'
    BY <2>1, StartsTyped DEF StartInv
  <2>a. /\ driver' = Resting /\ client' = NoLook /\ report' = NoLook /\ events' = <<>>
        /\ coder' \in {"gone", "idle"} /\ deleg' = FALSE
        /\ reviewer' = [status |-> "down", inbox |-> {}, turn |-> {}, interrupted |-> FALSE]
        /\ stopper' = "rest"
        /\ UNCHANGED <<code, pr, saved, observers>>
    BY <1>8 DEF Restart
  <2>b. events' \in Seq(Events)
    BY <2>a
  <2>c. deleg' \in BOOLEAN
    BY <2>a, Zenon
  <2>5. RestInv'
    BY <2>a, <2>b, <2>c, DownTyped, RestingTyped DEF TypeInv, RestInv, observers
  <2>6. QED  BY <2>3, <2>4, <2>5 DEF TypeInv
<1>9. QED  BY <1>1, <1>2, <1>3, <1>4, <1>5, <1>6, <1>7, <1>8

LEMMA TypeInit == Init => TypeInv
<1> SUFFICES ASSUME Init PROVE TypeInv
  OBVIOUS
<1>1. code \in Codes
  BY ReviewLoopAssumption DEF Init
<1>2. MemInv
  BY FreshTyped DEF Init, MemInv
<1>3. StartInv
  BY StartsTyped DEF Init, StartInv
<1>4. RestInv
  <2>1. events \in Seq(Events)
    BY DEF Init
  <2>b. deleg \in BOOLEAN /\ credited \in BOOLEAN
    BY Zenon DEF Init
  <2>2. driver = Resting /\ client = NoLook /\ report = NoLook /\ coder = "idle"
        /\ pr = "none" /\ tried = None /\ stopper = "rest" /\ autos = 0
        /\ reviewer = [status |-> "down", inbox |-> {}, turn |-> {}, interrupted |-> FALSE]
    BY DEF Init
  <2>3. QED  BY <1>1, <2>1, <2>b, <2>2, DownTyped, RestingTyped DEF RestInv
<1>5. QED  BY <1>2, <1>3, <1>4 DEF TypeInv

LEMMA TypeStep == TypeInv /\ [Next]_vars => TypeInv'
<1> SUFFICES ASSUME TypeInv, [Next]_vars PROVE TypeInv'
  OBVIOUS
<1>1. CASE DriverStep
  BY <1>1, HearingTyped, TicksTyped DEF DriverStep
<1>2. ASSUME NEW k \in Tasks, TaskStep(k) \/ UserStarts(k) \/ PrOpens(k)
      PROVE  TypeInv'
  BY <1>2, StartStepsTyped, BeginStepTyped, DeliveryStepsTyped DEF TaskStep
<1>3. CASE \/ ReviewerSubmits \/ ReportLooks \/ ReportLooked
           \/ UserStops \/ StopInterrupts \/ StopClears
           \/ ClientLooks \/ ClientLooked
  BY <1>3, LooksTyped
<1>4. CASE \/ (\E status \in {"idle", "error"} : ReviewerTurnEnds(status))
           \/ CodeMoves \/ CoderTurnStarts \/ CoderTurnEnds
           \/ DelegationAdmitted \/ DelegationEnds \/ CoderGoes \/ Restart
  BY <1>4, WorldTyped
<1>5. CASE UNCHANGED vars
  BY <1>5 DEF vars, world, observers, TypeInv, MemInv, StartInv, RestInv
<1>6. QED  BY <1>1, <1>2, <1>3, <1>4, <1>5 DEF Next

\* The memory of a checkout keeps its type, whatever goes wrong (engine.rs
\* Tracked): what it stores of the code is a complete state and never a read
\* that skipped its digest, a turn says or reports nothing before its reviewer
\* is named, and what is persisted holds neither flight nor claim.
THEOREM MemoryTyped == Spec => []TypeOK
<1>1. TypeInv => TypeOK
  <2> SUFFICES ASSUME TypeInv PROVE TypeOK
    OBVIOUS
  <2>1. code \in Codes /\ pr \in {"none", "open"}
    BY DEF TypeInv, RestInv
  <2>2. ~InRound(saved)
    BY NoFlightTyped DEF TypeInv, MemInv, InRound
  <2>3. FlightOK(t) /\ FlightOK(saved)
    BY NoFlightTyped DEF TypeInv, MemInv, FlightOK
  <2>4. \A x \in {t, saved} : x \in Memories /\ FlightOK(x)
    BY <2>3 DEF TypeInv, MemInv
  <2>5. \A x \in Memories :
          /\ x.reviewed \in Codes \union {None}
          /\ x.roundCode \in Codes \union {None}
          /\ x.failure.code \in Codes \union Unverified \union {None}
          /\ x.lastRead \in Codes \union Unverified \union Skipped \union {None}
          /\ x.prRounds \in Nat /\ x.round \in Nat
    BY DEF Memories, Reads
  <2>6. QED  BY <2>1, <2>2, <2>4, <2>5 DEF TypeOK, FlightOK
<1>2. QED  BY <1>1, TypeInit, TypeStep, PTL DEF Spec


-----------------------------------------------------------------------------
(* 5. One round at a time                                                  *)

\* No stop, no lagging stream and no wall clock cuts a round short.
Undisturbed == Troubles \cap {"stop", "lag"} = {} /\ ~WallClock

\* No round has the checkout and none waits for it.
Unclaimed(x) == ~InRound(x) /\ x.pending = "none"

LEMMA SettledUnclaimed ==
    ASSUME MemInv, saved.pending = "none",
           NEW x \in Memories, FlightOK(x), Unclaimed(x), Settle(x)
    PROVE  Unclaimed(t') /\ saved'.pending = "none"
<1>1. CASE x.exists
  BY <1>1, SettledMemory DEF Unclaimed, InRound, Kept, Persists
<1>2. CASE ~x.exists
  BY <1>2, SettledMemory DEF Unclaimed
<1>3. QED  BY <1>1, <1>2

LEMMA SightedUnclaimed ==
    ASSUME MemInv, Unclaimed(t), NEW s \in Sights, NEW x,
           x = IF t.exists THEN RecordSighting(t, s) ELSE t
    PROVE  x \in Memories /\ FlightOK(x) /\ Unclaimed(x) /\ Drained(x) = x
<1>1. CASE t.exists
  BY <1>1, Sighted DEF MemInv, Unclaimed, InRound, Kept, Drained, Drains
<1>2. CASE ~t.exists
  BY <1>2 DEF MemInv, Unclaimed, Drained, Drains
<1>3. QED  BY <1>1, <1>2

\* Nothing of a round is left of a coder that is gone (on_coder_gone).
LEMMA GoneStep ==
    ASSUME TypeInv, coder = "gone", Unclaimed(t), saved.pending = "none",
           stopper = "rest", Next
    PROVE  coder' = "gone" /\ Unclaimed(t') /\ saved'.pending = "none"
<1>0. ~t.flight.open /\ ~t.flight.named /\ ~t.starting /\ t.pending = "none"
  BY DEF Unclaimed, InRound, TypeInv, MemInv, FlightOK
<1>a. /\ t \in Memories /\ FlightOK(t) /\ MemInv
      /\ driver.sight \in Sights /\ client.sight \in Sights /\ report.sight \in Sights
      /\ \A k \in Tasks : task[k].sight \in Sights
  BY DEF TypeInv, MemInv, RestInv, StartInv, Starts
<1>b. Drained(t) = t
  BY <1>0 DEF Drained, Drains
<1>1. CASE UNCHANGED <<coder, t, saved>>
  BY <1>1 DEF Unclaimed, InRound
<1>2. ASSUME NEW x \in Memories, FlightOK(x), Unclaimed(x), coder' = "gone",
             Settle(x) \/ (t' = x /\ UNCHANGED saved)
      PROVE  coder' = "gone" /\ Unclaimed(t') /\ saved'.pending = "none"
  BY <1>2, <1>a, SettledUnclaimed
<1>3. CASE DriverStep
  <2>1. CASE DriverHears \/ DriverResyncs
    BY <1>0, <1>1, <2>1 DEF DriverHears, DriverResyncs, world
  <2>2. CASE DriverScanned \/ TickGates
    <3> DEFINE x == IF t.exists THEN RecordSighting(t, driver.sight) ELSE t
    <3>1. x \in Memories /\ FlightOK(x) /\ Unclaimed(x) /\ Drained(x) = x
      BY <1>a, SightedUnclaimed
    <3>2. Settle(x) /\ coder' = coder
      BY <2>2, <3>1 DEF DriverScanned, TickGates, world
    <3> HIDE DEF x
    <3>3. QED  BY <1>2, <3>1, <3>2
  <2>3. CASE DriverTicks
    <3>1. coder' = coder /\ (Settle(t) \/ (t' = t /\ UNCHANGED saved))
      BY <1>b, <2>3 DEF DriverTicks, TickStarts, world
    <3>2. QED  BY <1>2, <1>a, <3>1
  <2>4. CASE TickTimesOut
    BY <1>0, <2>4 DEF TickTimesOut
  <2>5. CASE TickReadsFull
    BY <1>1, <2>5 DEF TickReadsFull, world
  <2>6. QED  BY <1>3, <2>1, <2>2, <2>3, <2>4, <2>5 DEF DriverStep
<1>4. ASSUME NEW k \in Tasks, TaskStep(k) \/ UserStarts(k) \/ PrOpens(k)
      PROVE  coder' = "gone" /\ Unclaimed(t') /\ saved'.pending = "none"
  <2>1. CASE UserStarts(k) \/ PrOpens(k)
    BY <2>1 DEF UserStarts, PrOpens
  <2>2. CASE PrLooked(k)
    <3> DEFINE x == IF t.exists THEN RecordSighting(t, task[k].sight) ELSE t
    <3>1. x \in Memories /\ FlightOK(x) /\ Unclaimed(x)
      BY <1>a, SightedUnclaimed
    <3>2. Settle(x) /\ coder' = coder
      BY <2>2 DEF PrLooked, world
    <3> HIDE DEF x
    <3>3. QED  BY <1>2, <3>1, <3>2
  <2>3. CASE StartRuns(k)
    <3>1. Settle(t) /\ coder' = coder
      BY <2>3 DEF StartRuns, Start, world
    <3>2. QED  BY <1>2, <1>a, <3>1
  <2>4. CASE RoundLooks(k)
    BY <1>1, <2>4 DEF RoundLooks, world
  <2>5. CASE RoundBegins(k)
    <3> DEFINE s == task[k].sight
               z == RecordSighting(t, s)
               failed == IF s.kind = "read" THEN State(s.read) ELSE None
               x == IF t.exists THEN RecordFailure(z, task[k].before, failed) ELSE t
    <3>1. Settle(x) /\ coder' = coder
      BY <2>5 DEF RoundBegins, world
    <3>2. task[k] \in Starts /\ task[k].at = "begin"
      BY <2>5 DEF RoundBegins, TypeInv, StartInv
    <3>3. s \in Sights /\ (s.kind = "read" => s.read \in Codes \union Unverified)
      BY <2>5, <3>2 DEF TypeInv, StartInv, Starts, Sights, Reads, NotScanned, Unreadable
    <3>4. failed \in Codes \union Unverified \union {None}
      BY <3>3 DEF State
    <3>5. task[k].before \in Origins \ {"scan"}
      BY <3>2 DEF Starts, Origins
    <3>6. z \in Memories /\ FlightOK(z) /\ Kept(t, z)
      BY <1>a, <3>3, Sighted
    <3> HIDE DEF z, failed
    <3>7. CASE t.exists
      <4>1. x \in Memories /\ FlightOK(x) /\ Closed(z, x) /\ ~x.starting
        BY <3>4, <3>5, <3>6, <3>7, FailureRecorded
      <4>2. Unclaimed(x)
        BY <1>0, <3>6, <4>1, NoFlightTyped DEF Unclaimed, InRound, Closed, Kept
      <4> HIDE DEF x
      <4>3. QED  BY <1>2, <3>1, <4>1, <4>2
    <3>8. CASE ~t.exists
      BY <1>2, <1>a, <3>1, <3>8
    <3>9. QED  BY <3>7, <3>8
  <2>6. CASE RoundFails(k) /\ coder' = coder
    <3> DEFINE x == IF t.exists THEN RoundFailed(t) ELSE t
    <3>1. x \in Memories /\ FlightOK(x) /\ Unclaimed(x)
      BY <1>0, <1>a, RoundFailedTyped, NoFlightTyped DEF Unclaimed, InRound, Closed
    <3>2. Settle(x)
      BY <2>6 DEF RoundFails
    <3> HIDE DEF x
    <3>3. QED  BY <1>2, <2>6, <3>1, <3>2
  <2>7. CASE RoundEnsures(k) /\ ~RoundFails(k)
    <3>1. /\ t' = [Touched EXCEPT !.reviewer = TRUE, !.flight.named = t.flight.open]
          /\ saved' = saved /\ coder' = coder
      BY <2>7 DEF RoundEnsures, world
    <3>2. t'.starting = t.starting /\ t'.pending = t.pending /\ t'.flight.open = t.flight.open
      BY <1>a, <3>1 DEF Touched, Memories
    <3>3. QED  BY <1>0, <3>1, <3>2 DEF Unclaimed, InRound
  <2>8. CASE RoundSends(k) /\ ~RoundFails(k)
    <3>1. Settle(t) /\ coder' = coder
      BY <2>8 DEF RoundSends, world
    <3>2. QED  BY <1>2, <1>a, <3>1
  <2>9. (RoundEnsures(k) \/ RoundSends(k)) => coder' = coder
    BY DEF RoundEnsures, RoundSends, world
  <2>10. QED
    BY <1>4, <2>1, <2>2, <2>3, <2>4, <2>5, <2>6, <2>7, <2>8, <2>9 DEF TaskStep
<1>5. CASE ReportLooked \/ ClientLooked
  <2> DEFINE x(s) == IF t.exists THEN RecordSighting(t, s) ELSE t
  <2>1. \A s \in Sights : x(s) \in Memories /\ FlightOK(x(s)) /\ Unclaimed(x(s))
    BY <1>a, SightedUnclaimed
  <2>2. (Settle(x(report.sight)) \/ Settle(x(client.sight))) /\ coder' = coder
    BY <1>5 DEF ReportLooked, ClientLooked, world
  <2> HIDE DEF x
  <2>3. QED  BY <1>2, <1>a, <2>1, <2>2
<1>6. CASE \/ ReviewerSubmits \/ UserStops \/ StopInterrupts \/ ClientLooks \/ CodeMoves
           \/ CoderTurnStarts \/ CoderTurnEnds \/ DelegationAdmitted \/ CoderGoes
  BY <1>0, <1>1, <1>6 DEF ReviewerSubmits, UserStops, StopInterrupts, ClientLooks, CodeMoves,
                    CoderTurnStarts, CoderTurnEnds, DelegationAdmitted, CoderGoes, world
<1>7. CASE ReportLooks \/ DelegationEnds
           \/ (\E status \in {"idle", "error"} : ReviewerTurnEnds(status))
  BY <1>1, <1>7 DEF ReportLooks, DelegationEnds, ReviewerTurnEnds, world
<1>8. CASE Restart
  <2>1. t' = Loaded(saved) /\ saved' = saved /\ coder' = "gone"
    BY <1>8 DEF Restart
  <2>2. t'.flight = NoFlight /\ ~t'.starting /\ t'.pending = "none"
    BY <2>1, LoadedTyped, FreshTyped DEF MemInv, TypeInv
  <2>3. QED  BY <2>1, <2>2, NoFlightTyped DEF Unclaimed, InRound
<1>9. QED  BY <1>3, <1>4, <1>5, <1>6, <1>7, <1>8 DEF Next, StopClears


\* What of a memory a round stands on.
SameRound(x, y) ==
    /\ y.flight = x.flight /\ y.starting = x.starting /\ y.round = x.round
    /\ x.exists => y.exists
    /\ y.pending # "none" => y.exists

LEMMA WorkingIs ==
    /\ Working = {k \in Tasks : Claiming(k) \/ Sending(k)}
    /\ Working' = {k \in Tasks : Claiming(k)' \/ Sending(k)'}
BY DEF Working, Claiming, Sending

\* A step that lets the round alone.
LEMMA RoundFrame ==
    ASSUME RoundOK, TurnOK, SameRound(t, t'),
           deleg' \in {deleg, FALSE}, UNCHANGED <<events, reviewer>>,
           \A k \in Tasks : /\ Claiming(k)' <=> Claiming(k)
                            /\ Sending(k)' <=> Sending(k)
                            /\ task'[k].at = "send" <=> task[k].at = "send"
                            /\ Sending(k) => task'[k].round = task[k].round
    PROVE  RoundOK' /\ TurnOK'
<1>1. Working' = Working
  BY WorkingIs
<1>2. InRound(t') = InRound(t) /\ t'.flight = t.flight
  BY DEF SameRound, InRound
<1>3. RoundOK'
  <2>1. (InRound(t) => t.exists /\ ~deleg)'
    BY <1>2 DEF RoundOK, SameRound
  <2>2. (t.pending # "none" => t.exists)' /\ (~(t.starting /\ t.flight.open))'
    BY DEF RoundOK, SameRound
  <2>3. ASSUME NEW k \in Tasks
        PROVE  /\ Claiming(k)' => t'.starting
               /\ Sending(k)' => t'.flight.open /\ t'.round = task'[k].round
               /\ task'[k].at = "send" => t'.flight.named
    BY <2>3 DEF RoundOK, SameRound
  <2>4. QED  BY <1>1, <2>1, <2>2, <2>3 DEF RoundOK
<1>4. TurnOK'
  <2>1. CASE ~(t.flight.open /\ Working = {})
    BY <1>1, <1>2, <2>1 DEF TurnOK, Unsent
  <2>2. CASE t.flight.open /\ Working = {}
    <3>1. Sent
      BY <2>2 DEF TurnOK
    <3>2. PICK r \in 0 .. Len(events) + 1, e \in 0 .. Len(events) + 1 : Heard(r, e)
      BY <3>1 DEF Sent
    <3>3. Heard(r, e)'
      BY <1>2, <3>2 DEF Heard
    <3>4. t'.flight.named /\ reviewer'.inbox = {}
      BY <1>2, <3>1 DEF Sent, SameRound
    <3>5. r \in 0 .. Len(events') + 1 /\ e \in 0 .. Len(events') + 1
      OBVIOUS
    <3>6. Sent'
      BY <3>3, <3>4, <3>5, Zenon DEF Sent
    <3>7. QED  BY <1>1, <1>2, <2>2, <3>6 DEF TurnOK
  <2>3. QED  BY <2>1, <2>2
<1>5. QED  BY <1>3, <1>4

\* A start that is claimed.
LEMMA RoundClaim ==
    ASSUME RoundOK, TurnOK, task \in [Tasks -> Starts], ~InRound(t), Claims(t, t'), ~deleg,
           deleg' = deleg, UNCHANGED <<events, reviewer>>,
           NEW k \in Tasks, NEW r \in Starts, r.at = "look",
           task' = [task EXCEPT ![k] = r]
    PROVE  RoundOK' /\ TurnOK'
<1>1. \A j \in Tasks : ~Claiming(j) /\ ~Sending(j)
  BY DEF RoundOK, InRound
<1>2. \A j \in Tasks : task'[j] = IF j = k THEN r ELSE task[j]
  OBVIOUS
<1>3. /\ \A j \in Tasks : ~Sending(j)' /\ (Claiming(j)' => j = k)
      /\ Working' \subseteq {k} /\ k \in Working'
  BY <1>1, <1>2, WorkingIs DEF Claiming, Sending
<1>4. RoundOK'
  BY <1>1, <1>2, <1>3 DEF RoundOK, Claims, InRound, Sending
<1>5. ~t.flight.open /\ ~t'.flight.open
  BY DEF InRound, Claims
<1>6. TurnOK'
  BY <1>5 DEF TurnOK, Unsent, Claims
<1>7. QED  BY <1>4, <1>6

\* A round that is over.
LEMMA RoundOver ==
    ASSUME Unsent', Closed(t, t'), ~t'.starting, t'.pending # "none" => t'.exists,
           \A k \in Tasks : ~Claiming(k)' /\ ~Sending(k)'
    PROVE  RoundOK' /\ TurnOK'
<1>1. ~t'.flight.open
  BY NoFlightTyped DEF Closed
<1>2. Working' = {}
  BY WorkingIs
<1>3. QED  BY <1>1, <1>2 DEF RoundOK, TurnOK, InRound, Sending

\* Starts.
LEMMA StartKeepsRound ==
    ASSUME TypeInv, RoundOK, TurnOK, NEW k \in Tasks, NEW trigger \in Starters,
           ~Claiming(k), ~Sending(k),
           Start(k, trigger), UNCHANGED <<deleg, events, reviewer>>
    PROVE  RoundOK' /\ TurnOK'
<1>0. task \in [Tasks -> Starts] /\ Free \in Starts /\ Free.at = "none" /\ MemInv
  BY StartsTyped DEF TypeInv, StartInv
<1>1. CASE task' = [task EXCEPT ![k] = Free] /\ SameRound(t, t')
  <2>1. \A j \in Tasks : task'[j] = IF j = k THEN Free ELSE task[j]
    BY <1>0, <1>1
  <2>2. \A j \in Tasks : /\ Claiming(j)' <=> Claiming(j)
                         /\ Sending(j)' <=> Sending(j)
                         /\ task'[j].at = "send" <=> task[j].at = "send"
                         /\ Sending(j) => task'[j].round = task[j].round
    BY <1>0, <2>1 DEF Claiming, Sending
  <2>3. QED  BY <1>1, <2>2, RoundFrame
<1>2. CASE /\ CoderIdle /\ ~InRound(t) /\ Claims(t, t')
           /\ task' = [task EXCEPT ![k] = Claimed(trigger, "start")]
  <2>1. Claimed(trigger, "start") \in Starts /\ Claimed(trigger, "start").at = "look"
    BY StartsTyped
  <2>2. ~deleg
    BY <1>2 DEF CoderIdle
  <2>3. QED  BY <1>0, <1>2, <2>1, <2>2, RoundClaim
<1>3. Kept(t, t') => SameRound(t, t')
  BY DEF Kept, SameRound, RoundOK
<1>4. Queues(t, t', trigger) => SameRound(t, t')
  BY DEF Queues, SameRound
<1>5. QED  BY <1>0, <1>1, <1>2, <1>3, <1>4, StartCases

\* The queued start, behind what a look saw.
LEMMA DrainKeepsRound ==
    ASSUME TypeInv, RoundOK, TurnOK, NEW x \in Memories, FlightOK(x), Kept(t, x),
           task' = DrainTasks(x), Kept(Drained(x), t'),
           UNCHANGED <<deleg, events, reviewer>>
    PROVE  RoundOK' /\ TurnOK'
<1> DEFINE y == Drained(x)
<1>0. task \in [Tasks -> Starts]
  BY DEF TypeInv, StartInv
<1>1. \/ y = x /\ DrainTasks(x) = task
      \/ /\ CoderIdle /\ ~InRound(x) /\ x.pending # "none" /\ x.exists
         /\ Claims(x, y)
         /\ \E k \in Tasks :
               /\ task[k].at = "none"
               /\ DrainTasks(x) = [task EXCEPT ![k] = Claimed(x.pending, "queued")]
  BY DrainedCases DEF TypeInv
<1>2. CASE y = x /\ DrainTasks(x) = task
  <2>1. SameRound(t, t')
    BY <1>2 DEF Kept, SameRound, RoundOK
  <2>2. task' = task
    BY <1>2
  <2>3. QED  BY <2>1, <2>2, RoundFrame DEF Claiming, Sending
<1>3. CASE /\ CoderIdle /\ ~InRound(x) /\ x.pending # "none" /\ x.exists
           /\ Claims(x, y)
           /\ \E k \in Tasks :
                 /\ task[k].at = "none"
                 /\ DrainTasks(x) = [task EXCEPT ![k] = Claimed(x.pending, "queued")]
  <2>1. PICK k \in Tasks : DrainTasks(x) = [task EXCEPT ![k] = Claimed(x.pending, "queued")]
    BY <1>3
  <2>2. x.pending \in Starters
    BY <1>3 DEF Memories
  <2>3. Claimed(x.pending, "queued") \in Starts /\ Claimed(x.pending, "queued").at = "look"
    BY <2>2, StartsTyped
  <2>4. ~InRound(t) /\ Claims(t, t') /\ ~deleg
    BY <1>3 DEF Kept, Claims, InRound, CoderIdle
  <2>5. QED  BY <1>0, <2>1, <2>3, <2>4, RoundClaim
<1>4. QED  BY <1>1, <1>2, <1>3


LEMMA LookKeepsRound ==
    ASSUME MemInv, RoundOK, NEW s \in Sights,
           Settle(IF t.exists THEN RecordSighting(t, s) ELSE t)
    PROVE  SameRound(t, t')
<1> DEFINE x == IF t.exists THEN RecordSighting(t, s) ELSE t
<1>1. x \in Memories /\ FlightOK(x) /\ Kept(t, x)
  BY Sighted DEF MemInv, Kept
<1>2. Settle(x)
  OBVIOUS
<1> HIDE DEF x
<1>3. Kept(x, t')
  BY <1>1, <1>2, SettledMemory
<1>4. QED  BY <1>1, <1>3 DEF Kept, SameRound, RoundOK

\* Steps that let the round alone.
LEMMA QuietSteps ==
    ASSUME TypeInv, RoundOK, TurnOK,
           \/ TickReadsFull \/ TickGates \/ ReportLooks \/ ReportLooked
           \/ ClientLooks \/ ClientLooked
           \/ CodeMoves \/ CoderTurnStarts \/ DelegationEnds
           \/ UNCHANGED vars
    PROVE  RoundOK' /\ TurnOK'
<1>1. /\ deleg' \in {deleg, FALSE} /\ UNCHANGED <<events, reviewer>>
  BY DEF TickReadsFull, TickGates, ReportLooks, ReportLooked, ClientLooks, ClientLooked,
         CodeMoves, CoderTurnStarts, DelegationEnds, vars, world
<1>2. SameRound(t, t')
  <2>1. CASE UNCHANGED t
    BY <2>1 DEF SameRound, RoundOK
  <2>2. CASE TickGates \/ ReportLooked \/ ClientLooked
    <3>1. driver.sight \in Sights /\ report.sight \in Sights /\ client.sight \in Sights
          /\ MemInv
      BY DEF TypeInv, RestInv
    <3>2. \E s \in {driver.sight, report.sight, client.sight} :
             Settle(IF t.exists THEN RecordSighting(t, s) ELSE t)
      BY <2>2 DEF TickGates, ReportLooked, ClientLooked
    <3>3. QED  BY <3>1, <3>2, LookKeepsRound
  <2>3. QED
    BY <2>1, <2>2 DEF TickReadsFull, ReportLooks, ClientLooks, CodeMoves,
                      CoderTurnStarts, DelegationEnds, vars
<1>3. CASE UNCHANGED task
  BY <1>1, <1>2, <1>3, RoundFrame DEF Claiming, Sending
<1>4. CASE TickGates /\ ~UNCHANGED task
  <2> DEFINE r == [Free EXCEPT !.at = "start", !.trigger = "re-review"]
  <2>1. PICK k \in Tasks : task[k].at = "none" /\ task' = [task EXCEPT ![k] = r]
    BY <1>4, Zenon DEF TickGates
  <2>2. r.at = "start"
    BY StartsTyped DEF Starters
  <2> HIDE DEF r
  <2>3. \A j \in Tasks : task'[j] = IF j = k THEN r ELSE task[j]
    BY <2>1 DEF TypeInv, StartInv
  <2>4. \A j \in Tasks : /\ Claiming(j)' <=> Claiming(j)
                         /\ Sending(j)' <=> Sending(j)
                         /\ task'[j].at = "send" <=> task[j].at = "send"
                         /\ Sending(j) => task'[j].round = task[j].round
    BY <2>1, <2>2, <2>3 DEF Claiming, Sending
  <2>5. QED  BY <1>1, <1>2, <2>4, RoundFrame
<1>5. QED
  BY <1>3, <1>4 DEF TickReadsFull, ReportLooks, ReportLooked, ClientLooks, ClientLooked,
         CodeMoves, CoderTurnStarts, DelegationEnds, vars

\* Starts, up to their read of the code.
LEMMA StartStepsKeepRound ==
    ASSUME TypeInv, RoundOK, TurnOK, NEW k \in Tasks,
           UserStarts(k) \/ PrOpens(k) \/ PrLooked(k) \/ StartRuns(k) \/ RoundLooks(k)
    PROVE  RoundOK' /\ TurnOK'
<1>0. /\ task \in [Tasks -> Starts] /\ MemInv
      /\ "manual" \in Starters /\ "pr-open" \in Starters
      /\ UNCHANGED <<deleg, events, reviewer>>
  BY DEF TypeInv, StartInv, Starters, UserStarts, PrOpens, PrLooked, StartRuns, RoundLooks, world
<1>1. ASSUME NEW r, task' = [task EXCEPT ![k] = r], SameRound(t, t'),
             \/ /\ task[k].at \in {"none", "pr", "start"}
                /\ r.at \in {"none", "pr", "start"}
             \/ task[k].at = "look" /\ r.at = "begin"
      PROVE  RoundOK' /\ TurnOK'
  <2>1. \A j \in Tasks : task'[j] = IF j = k THEN r ELSE task[j]
    BY <1>0, <1>1
  <2>2. \A j \in Tasks : /\ Claiming(j)' <=> Claiming(j)
                         /\ Sending(j)' <=> Sending(j)
                         /\ task'[j].at = "send" <=> task[j].at = "send"
                         /\ Sending(j) => task'[j].round = task[j].round
    BY <1>1, <2>1 DEF Claiming, Sending
  <2>3. QED  BY <1>0, <1>1, <2>2, RoundFrame
<1>2. ASSUME NEW trigger \in Starters, Start(k, trigger), task[k].at \in {"none", "start"}
      PROVE  RoundOK' /\ TurnOK'
  <2>1. ~Claiming(k) /\ ~Sending(k)
    BY <1>2 DEF Claiming, Sending
  <2>2. QED  BY <1>0, <1>2, <2>1, StartKeepsRound
<1>3. CASE UserStarts(k)
  BY <1>0, <1>2, <1>3 DEF UserStarts
<1>4. CASE PrOpens(k)
  <2>1. CASE UNCHANGED <<t, task>>
    <3>1. SameRound(t, t')
      BY <2>1 DEF SameRound, RoundOK
    <3>2. QED  BY <1>0, <2>1, <3>1, RoundFrame DEF Claiming, Sending
  <2>2. CASE Start(k, "pr-open")
    BY <1>0, <1>2, <1>4, <2>2 DEF PrOpens
  <2>3. ASSUME NEW s, UNCHANGED t, task' = [task EXCEPT ![k].at = "pr", ![k].sight = s]
        PROVE  RoundOK' /\ TurnOK'
    <3> DEFINE r == [task[k] EXCEPT !.at = "pr", !.sight = s]
    <3>1. task' = [task EXCEPT ![k] = r]
      BY <1>0, <2>3
    <3>2. r.at = "pr"
      BY <1>0 DEF Starts
    <3>3. SameRound(t, t')
      BY <2>3 DEF SameRound, RoundOK
    <3>4. task[k].at = "none"
      BY <1>4 DEF PrOpens
    <3> HIDE DEF r
    <3>5. QED  BY <1>1, <3>1, <3>2, <3>3, <3>4
  <2>4. QED  BY <1>4, <2>1, <2>2, <2>3, Zenon DEF PrOpens
<1>5. CASE PrLooked(k)
  <2> DEFINE r == [Free EXCEPT !.at = "start", !.trigger = "pr-open"]
  <2>1. task[k].sight \in Sights
    BY <1>0 DEF Starts
  <2>2. SameRound(t, t')
    BY <1>0, <1>5, <2>1, LookKeepsRound DEF PrLooked
  <2>3. Free.at = "none" /\ r.at = "start"
    BY <1>0, StartsTyped
  <2>4. \E z \in {Free, r} : task' = [task EXCEPT ![k] = z]
    BY <1>5 DEF PrLooked
  <2>5. task[k].at = "pr"
    BY <1>5 DEF PrLooked
  <2> HIDE DEF r
  <2>6. QED  BY <1>1, <2>2, <2>3, <2>4, <2>5
<1>6. CASE StartRuns(k)
  <2>1. task[k].trigger \in Starters
    BY <1>6 DEF StartRuns, TypeInv, StartInv
  <2>2. QED  BY <1>2, <1>6, <2>1 DEF StartRuns
<1>7. CASE RoundLooks(k)
  <2>1. PICK s \in SightsNow(TRUE) :
           task' = [task EXCEPT ![k].at = "begin", ![k].sight = s]
    BY <1>7 DEF RoundLooks
  <2> DEFINE r == [task[k] EXCEPT !.at = "begin", !.sight = s]
  <2>2. task' = [task EXCEPT ![k] = r]
    BY <1>0, <2>1
  <2>3. r.at = "begin" /\ task[k].at = "look"
    BY <1>0, <1>7 DEF Starts, RoundLooks
  <2>4. SameRound(t, t')
    BY <1>7 DEF RoundLooks, SameRound, RoundOK
  <2> HIDE DEF r
  <2>5. QED  BY <1>1, <2>2, <2>3, <2>4
<1>8. QED  BY <1>3, <1>4, <1>5, <1>6, <1>7


\* The round of a start begins: what failed ends the claim.
LEMMA BeginKeepsRound ==
    ASSUME TypeInv, RoundOK, TurnOK, coder # "gone", NEW k \in Tasks, RoundBegins(k)
    PROVE  RoundOK' /\ TurnOK'
<1> DEFINE s == task[k].sight
           x == RecordSighting(t, s)
           ok == /\ t.exists /\ coder # "gone" /\ s.kind = "read"
                 /\ s.read.content # "unverified" /\ ~x.flight.open
           failed == IF s.kind = "read" THEN State(s.read) ELSE None
<1>0. /\ task \in [Tasks -> Starts] /\ MemInv /\ t \in Memories /\ FlightOK(t)
      /\ UNCHANGED <<deleg, events, reviewer>> /\ task[k].at = "begin"
  BY DEF TypeInv, StartInv, MemInv, RoundBegins, world
<1>1. /\ Claiming(k) /\ k \in Working /\ t.starting /\ t.exists /\ ~t.flight.open /\ ~deleg
      /\ \A j \in Tasks : j # k => ~Claiming(j) /\ ~Sending(j)
  BY <1>0, WorkingIs DEF Claiming, RoundOK, InRound
<1>2. Unsent
  BY <1>1 DEF TurnOK
<1>3. s \in Sights /\ (s.kind = "read" => s.read \in Codes \union Unverified)
  BY <1>0 DEF TypeInv, StartInv, Starts, Sights, Reads, NotScanned, Unreadable
<1>4. x \in Memories /\ FlightOK(x) /\ Kept(t, x)
  BY <1>0, <1>3, Sighted
<1>5. CASE ok
  <2> DEFINE y == Begun(x, task[k].trigger, s.read)
             r == [task[k] EXCEPT !.at = "ensure", !.sight = NotScanned, !.round = t.round + 1]
  <2>1. Settle(y) /\ task' = [task EXCEPT ![k].at = "ensure", ![k].sight = NotScanned,
                                          ![k].round = t.round + 1]
    BY <1>5 DEF RoundBegins
  <2>2. s.read \in Codes
    BY <1>3, <1>5, ReadsApart
  <2>3. /\ y \in Memories /\ FlightOK(y) /\ y.exists = x.exists /\ y.round = x.round + 1
        /\ ~y.starting /\ y.flight.open /\ ~y.flight.submitted /\ ~y.flight.saw
    BY <1>4, <2>2, BegunTyped
  <2>4. task' = [task EXCEPT ![k] = r]
    BY <1>0, <2>1
  <2>5. r.at = "ensure" /\ r.round = t.round + 1
    BY <1>0 DEF Starts
  <2> HIDE DEF y, r, x
  <2>6. \A j \in Tasks : task'[j] = IF j = k THEN r ELSE task[j]
    BY <1>0, <2>4
  <2>7. Kept(y, t')
    BY <2>1, <2>3, SettledMemory, <1>0
  <2>8. /\ t'.exists /\ t'.round = t.round + 1 /\ ~t'.starting /\ t'.flight.open
        /\ ~t'.flight.submitted /\ ~t'.flight.saw
    BY <1>1, <1>4, <2>3, <2>7 DEF Kept
  <2>9. \A j \in Tasks : /\ ~Claiming(j)' /\ (Sending(j)' <=> j = k)
                         /\ task'[j].at # "send"
    BY <1>1, <2>5, <2>6 DEF Claiming, Sending
  <2>10. Working' = {k}
    BY <2>9, WorkingIs
  <2>11. RoundOK'
    BY <1>0, <1>1, <2>5, <2>6, <2>8, <2>9, <2>10 DEF RoundOK, InRound
  <2>12. Unsent'
    BY <1>0, <1>2, <2>8 DEF Unsent
  <2>13. QED  BY <2>10, <2>11, <2>12 DEF TurnOK
<1>6. CASE ~ok
  <2> DEFINE y == RecordFailure(x, task[k].before, failed)
  <2>1. Settle(y) /\ task' = [task EXCEPT ![k] = Free]
    BY <1>1, <1>6 DEF RoundBegins
  <2>2. failed \in Codes \union Unverified \union {None}
    BY <1>3 DEF State
  <2>3. task[k].before \in Origins \ {"scan"}
    BY <1>0 DEF Starts, Origins
  <2> HIDE DEF x, failed
  <2>4. y \in Memories /\ FlightOK(y) /\ Closed(x, y) /\ ~y.starting
    BY <1>4, <2>2, <2>3, FailureRecorded
  <2> HIDE DEF y
  <2>5. Kept(y, t')
    BY <1>0, <2>1, <2>4, SettledMemory
  <2>6. Closed(t, t') /\ ~t'.starting /\ t'.exists
    BY <1>1, <1>4, <2>4, <2>5 DEF Kept, Closed
  <2>7. \A j \in Tasks : task'[j] = IF j = k THEN Free ELSE task[j]
    BY <1>0, <2>1
  <2>8. \A j \in Tasks : ~Claiming(j)' /\ ~Sending(j)'
    BY <1>1, <2>7, StartsTyped DEF Claiming, Sending
  <2>9. Unsent'
    BY <1>0, <1>2, <2>6, NoFlightTyped DEF Unsent, Closed
  <2>10. QED  BY <2>6, <2>8, <2>9, RoundOver
<1>7. QED  BY <1>5, <1>6

\* A prompt that cannot be delivered ends its round; one that is goes to the
\* reviewer, who was not at work.
LEMMA DeliveryKeepsRound ==
    ASSUME TypeInv, RoundOK, TurnOK, NEW k \in Tasks, RoundEnsures(k) \/ RoundSends(k)
    PROVE  RoundOK' /\ TurnOK'
<1>0. /\ task \in [Tasks -> Starts] /\ MemInv /\ t \in Memories /\ FlightOK(t)
      /\ deleg' = deleg /\ task[k].at \in {"ensure", "send"}
      /\ events \in Seq(Events)
  BY DEF TypeInv, StartInv, MemInv, RestInv, RoundEnsures, RoundSends, world
<1>1. /\ Sending(k) /\ k \in Working /\ t.flight.open /\ ~t.starting /\ t.exists /\ ~deleg
      /\ t.round = task[k].round
      /\ \A j \in Tasks : j # k => ~Claiming(j) /\ ~Sending(j)
  BY <1>0, WorkingIs DEF Sending, RoundOK, InRound
<1>2. Unsent
  BY <1>1 DEF TurnOK
<1>3. CASE RoundFails(k)
  <2> DEFINE y == RoundFailed(t)
  <2>1. Settle(y) /\ task' = [task EXCEPT ![k] = Free] /\ UNCHANGED <<events, reviewer>>
    BY <1>1, <1>3 DEF RoundFails
  <2>2. y \in Memories /\ FlightOK(y) /\ Closed(t, y) /\ ~y.starting
    BY <1>0, RoundFailedTyped
  <2> HIDE DEF y
  <2>3. Kept(y, t')
    BY <1>0, <2>1, <2>2, SettledMemory
  <2>4. Closed(t, t') /\ ~t'.starting /\ t'.exists
    BY <1>1, <2>2, <2>3 DEF Kept, Closed
  <2>5. \A j \in Tasks : task'[j] = IF j = k THEN Free ELSE task[j]
    BY <1>0, <2>1
  <2>6. \A j \in Tasks : ~Claiming(j)' /\ ~Sending(j)'
    BY <1>1, <2>5, StartsTyped DEF Claiming, Sending
  <2>7. Unsent'
    BY <1>2, <2>1, <2>4, NoFlightTyped DEF Unsent, Closed
  <2>8. QED  BY <2>4, <2>6, <2>7, RoundOver
<1>4. CASE RoundEnsures(k) /\ ~RoundFails(k)
  <2>1. /\ reviewer' = [reviewer EXCEPT !.status = IF @ = "down" THEN "idle" ELSE @]
        /\ events' = IF reviewer.status = "down"
                     THEN Append(events, <<"reviewer", "idle">>) ELSE events
        /\ t' = [Touched EXCEPT !.reviewer = TRUE, !.flight.named = t.flight.open]
        /\ task' = [task EXCEPT ![k].at = "send"]
    BY <1>4 DEF RoundEnsures
  <2>2. /\ t'.exists /\ t'.starting = t.starting /\ t'.round = t.round
        /\ t'.flight.open /\ t'.flight.named
        /\ t'.flight.submitted = t.flight.submitted /\ t'.flight.saw = t.flight.saw
    BY <1>0, <1>1, <2>1 DEF Touched, Memories
  <2>3. /\ \A j \in Tasks \ {k} : task'[j] = task[j]
        /\ task'[k].at = "send" /\ task'[k].round = task[k].round
    BY <1>0, <2>1 DEF Starts
  <2>4. \A j \in Tasks : ~Claiming(j)' /\ (Sending(j)' <=> j = k)
    BY <1>1, <2>3 DEF Claiming, Sending
  <2>5. Working' = {k}
    BY <2>4, WorkingIs
  <2>6. RoundOK'
    BY <1>0, <1>1, <2>2, <2>3, <2>4, <2>5 DEF RoundOK, InRound
  <2>7. reviewer'.status # "running" /\ reviewer'.inbox = {}
    BY <1>2, <2>1 DEF Unsent, TypeInv, RestInv
  <2>8. \A i \in DOMAIN events' : Harmless(events'[i])
    <3>1. CASE events' = events
      BY <1>2, <3>1 DEF Unsent
    <3>2. CASE events' = Append(events, <<"reviewer", "idle">>)
      BY <1>0, <1>2, <3>2 DEF Unsent, Harmless
    <3>3. QED  BY <2>1, <3>1, <3>2
  <2>9. Unsent'
    BY <1>2, <2>2, <2>7, <2>8 DEF Unsent
  <2>10. QED  BY <2>5, <2>6, <2>9 DEF TurnOK
<1>5. CASE RoundSends(k) /\ ~RoundFails(k)
  <2>1. /\ task' = [task EXCEPT ![k] = Free] /\ Settle(t) /\ task[k].at = "send"
        /\ reviewer' = [status |-> "running", inbox |-> {},
                        turn |-> reviewer.inbox \union {task[k].round},
                        interrupted |-> FALSE]
        /\ events' = Append(events, <<"reviewer", "running">>)
    BY <1>2, <1>5 DEF RoundSends, Unsent
  <2>2. Kept(t, t') /\ t.flight.named
    BY <1>0, <2>1, SettledMemory DEF RoundOK
  <2>3. \A j \in Tasks : task'[j] = IF j = k THEN Free ELSE task[j]
    BY <1>0, <2>1
  <2>4. \A j \in Tasks : ~Claiming(j)' /\ ~Sending(j)'
    BY <1>1, <2>3, StartsTyped DEF Claiming, Sending
  <2>5. Working' = {}
    BY <2>4, WorkingIs
  <2>6. RoundOK'
    <3>1. \A j \in Tasks : task'[j].at # "send"
      BY <2>4 DEF Sending
    <3>2. QED
      BY <1>0, <1>1, <2>2, <2>4, <2>5, <3>1 DEF RoundOK, InRound, Kept
  <2>7. reviewer'.inbox = {} /\ reviewer'.status = "running"
    BY <1>1, <1>2, <2>1, <2>2 DEF Unsent, Kept
  <2>a. Len(events) \in Nat
    BY <1>0
  <2>b. PICK r \in Nat : r = Len(events) + 1
    BY <2>a
  <2>c. PICK e \in Nat : e = r + 1
    OBVIOUS
  <2>8. /\ Len(events') = r /\ DOMAIN events' = 1 .. r
        /\ \A i \in 1 .. Len(events) : events'[i] = events[i]
        /\ events'[r] = <<"reviewer", "running">>
        /\ DOMAIN events = 1 .. Len(events)
        /\ Len(events) \in Nat /\ r \in Nat \ {0} /\ e = r + 1
        /\ \A i \in 1 .. r : i < r => i \in 1 .. Len(events)
        /\ r \in 0 .. r + 1 /\ e \in 0 .. r + 1
    BY <1>0, <2>1, <2>b, <2>c
  <2>9. Heard(r, e)'
    <3>1. ~t'.flight.saw
      BY <1>2, <2>2 DEF Unsent, Kept
    <3>2. ASSUME NEW i \in DOMAIN events'
          PROVE  /\ i < r => Harmless(events'[i])
                 /\ i = r => IsRunning(events'[i])
                 /\ i # e /\ ~(i > r)
      <4>1. i \in 1 .. r
        BY <2>8, <3>2
      <4>2. i < r => Harmless(events'[i])
        BY <1>2, <2>8, <4>1 DEF Unsent
      <4>3. QED  BY <2>8, <4>1, <4>2 DEF IsRunning
    <3>3. t'.flight.saw <=> r = 0
      BY <2>8, <3>1
    <3>4. reviewer'.status = "running" <=> e = Len(events') + 1
      BY <2>7, <2>8
    <3>5. r < e
      BY <2>8
    <3>6. QED  BY <3>2, <3>3, <3>4, <3>5, Zenon DEF Heard
  <2>10. Sent'
    <3>1. t'.flight.named
      BY <2>2 DEF Kept
    <3>2. r \in 0 .. Len(events') + 1 /\ e \in 0 .. Len(events') + 1
      BY <2>8
    <3>3. QED  BY <2>7, <2>9, <3>1, <3>2, Zenon DEF Sent
  <2>11. t'.flight.open
    BY <1>1, <2>2 DEF Kept
  <2>12. QED  BY <2>5, <2>6, <2>10, <2>11 DEF TurnOK
<1>6. QED  BY <1>3, <1>4, <1>5

\* The same round, of which the reviewer may have been heard.
SameRoundButSaw(x, y) ==
    /\ y.exists = x.exists /\ y.starting = x.starting /\ y.round = x.round
    /\ y.pending = x.pending
    /\ y.flight.open = x.flight.open /\ y.flight.named = x.flight.named
    /\ y.flight.submitted = x.flight.submitted

\* An event that does not end the turn is taken.
LEMMA HeardShift ==
    ASSUME events \in Seq(Events), events # <<>>, events' = Tail(events),
           UNCHANGED reviewer,
           NEW r \in Nat, NEW e \in Nat, r <= Len(events) + 1, e <= Len(events) + 1,
           Heard(r, e), e # 1,
           NEW p \in Nat, NEW q \in Nat, p = IF r = 0 THEN 0 ELSE r - 1, q + 1 = e,
           t'.flight.saw <=> p = 0
    PROVE  /\ Heard(p, q)'
           /\ p \in 0 .. Len(events') + 1 /\ q \in 0 .. Len(events') + 1
<1>1. /\ Len(events) \in Nat \ {0} /\ Len(events') \in Nat /\ Len(events') + 1 = Len(events)
      /\ DOMAIN events = 1 .. Len(events) /\ DOMAIN events' = 1 .. Len(events')
      /\ \A i \in DOMAIN events' : /\ events'[i] = events[i + 1] /\ i \in Nat \ {0}
                                   /\ i + 1 \in DOMAIN events
  <2>1. /\ Len(events) \in Nat \ {0} /\ Len(events') = Len(events) - 1
        /\ DOMAIN events = 1 .. Len(events) /\ DOMAIN events' = 1 .. Len(events) - 1
        /\ \A i \in DOMAIN events' : events'[i] = events[i + 1]
    BY EventTaken
  <2>2. QED  BY <2>1
<1>2. r < e
  BY DEF Heard
<1>3. p \in 0 .. Len(events') + 1 /\ q \in 0 .. Len(events') + 1 /\ p < q
  BY <1>1, <1>2
<1>4. reviewer'.status = "running" <=> q = Len(events') + 1
  <2>1. reviewer.status = "running" <=> e = Len(events) + 1
    BY DEF Heard
  <2>2. reviewer'.status = reviewer.status
    OBVIOUS
  <2>a. Len(events') \in Nat /\ Len(events') + 1 = Len(events)
    BY <1>1
  <2>b. PICK n \in Nat : n = Len(events') /\ Len(events) = n + 1
    BY <2>a
  <2>c. e = n + 2 <=> q = n + 1
    OBVIOUS
  <2>3. e = Len(events) + 1 <=> q = Len(events') + 1
    BY <2>b, <2>c
  <2>4. QED  BY <2>1, <2>2, <2>3
<1>5. ASSUME NEW i \in DOMAIN events'
      PROVE  /\ i < p => Harmless(events'[i])
             /\ i = p => IsRunning(events'[i])
             /\ i = q => IsEnd(events'[i])
             /\ i > p /\ i # q => FromCoder(events'[i])
  <2>1. PICK j \in Nat : j = i + 1
    BY <1>1, <1>5
  <2>2. j \in DOMAIN events /\ events'[i] = events[j]
    BY <1>1, <1>5, <2>1
  <2>3. /\ j < r => Harmless(events[j])
        /\ j = r => IsRunning(events[j])
        /\ j = e => IsEnd(events[j])
        /\ j > r /\ j # e => FromCoder(events[j])
    BY <2>2 DEF Heard
  <2>4. /\ i < p => j < r
        /\ i = p => j = r
        /\ i = q => j = e
        /\ i > p /\ i # q => j > r /\ j # e
    BY <1>1, <1>5, <2>1
  <2>5. QED  BY <2>2, <2>3, <2>4
<1>6. Heard(p, q)'
  BY <1>3, <1>4, <1>5 DEF Heard
<1>7. QED  BY <1>3, <1>6

\* A status event: the end of the turn ends the round, and nothing else does.
LEMMA HearingKeepsRound ==
    ASSUME TypeInv, RoundOK, TurnOK, DriverHears
    PROVE  RoundOK' /\ TurnOK'
<1> DEFINE ev == events[1]
           x == OnReviewerStatus(t, ev[2])
<1>1. /\ events # <<>> /\ events' = Tail(events) /\ events \in Seq(Events)
      /\ UNCHANGED <<deleg, task, reviewer>>
      /\ t \in Memories /\ FlightOK(t) /\ MemInv
  BY DEF DriverHears, TypeInv, MemInv, RestInv, world
<1>2. /\ Head(events) = ev /\ ev \in Events /\ 1 \in DOMAIN events
      /\ Len(events) \in Nat \ {0} /\ DOMAIN events = 1 .. Len(events)
      /\ DOMAIN events' = 1 .. Len(events) - 1
      /\ \A i \in DOMAIN events' : events'[i] = events[i + 1] /\ i + 1 \in DOMAIN events
  BY <1>1, EventTaken
<1>3. IF ev[1] = "coder" \/ ~t.flight.named THEN UNCHANGED t
      ELSE IF x.flight.open THEN t' = x ELSE Settle(x)
  BY <1>2 DEF DriverHears
<1> HIDE DEF ev
<1>4. \/ FromCoder(ev)
      \/ ev[1] = "reviewer" /\ ev = <<"reviewer", ev[2]>> /\ ev[2] \in {"idle", "error", "running"}
  BY <1>2, EventKinds DEF FromCoder
<1>5. Working' = Working /\ \A k \in Tasks : /\ Claiming(k)' <=> Claiming(k)
                                             /\ Sending(k)' <=> Sending(k)
  BY <1>1, WorkingIs DEF Claiming, Sending
<1>6. ASSUME SameRoundButSaw(t, t')
      PROVE  RoundOK'
  BY <1>1, <1>5, <1>6 DEF RoundOK, SameRoundButSaw, InRound
<1>7. Harmless(ev) /\ ~t.flight.saw => UNCHANGED t
  <2>1. SUFFICES ASSUME ~FromCoder(ev), Harmless(ev), ~t.flight.saw, t.flight.named
                 PROVE  UNCHANGED t
    BY <1>3 DEF FromCoder
  <2>2. ev[2] = "idle" /\ ev[1] # "coder"
    BY <2>1 DEF Harmless, FromCoder
  <2>3. x = t
    BY <1>1, <1>4, <2>1, <2>2, StatusTyped
  <2>4. t.flight.open
    BY <1>1, <2>1 DEF FlightOK
  <2>5. QED  BY <1>3, <2>1, <2>2, <2>3, <2>4
<1>8. UNCHANGED t => SameRoundButSaw(t, t')
  BY DEF SameRoundButSaw
<1>9. CASE ~(t.flight.open /\ Working = {})
  <2>1. Unsent
    BY <1>9 DEF TurnOK
  <2>2. UNCHANGED t
    BY <1>2, <1>7, <2>1 DEF Unsent
  <2>3. Unsent'
    BY <1>1, <1>2, <2>1, <2>2 DEF Unsent
  <2>4. QED  BY <1>5, <1>6, <1>8, <1>9, <2>2, <2>3 DEF TurnOK
<1>10. CASE t.flight.open /\ Working = {}
  <2>1. Sent
    BY <1>10 DEF TurnOK
  <2>2. PICK r \in 0 .. Len(events) + 1, e \in 0 .. Len(events) + 1 : Heard(r, e)
    BY <2>1 DEF Sent
  <2>3. /\ r \in Nat /\ e \in Nat /\ r <= Len(events) + 1 /\ e <= Len(events) + 1 /\ r < e
        /\ t.flight.saw <=> r = 0
    BY <1>2, <2>2 DEF Heard
  <2>4. /\ 1 < r => Harmless(ev)
        /\ 1 = r => IsRunning(ev)
        /\ 1 = e => IsEnd(ev)
        /\ 1 > r /\ 1 # e => FromCoder(ev)
    BY <1>2, <2>2 DEF Heard, ev
  <2>5. t.flight.named /\ ~t.starting /\ t.exists
    BY <1>10, <2>1 DEF Sent, RoundOK, InRound
  <2>6. CASE e = 1
    <3>1. t.flight.saw /\ IsEnd(ev) /\ reviewer.status # "running"
      BY <1>2, <2>2, <2>3, <2>4, <2>6 DEF Heard
    <3>2. ev[1] = "reviewer" /\ ev[2] \in {"idle", "error"}
      BY <3>1 DEF IsEnd
    <3>3. x \in Memories /\ FlightOK(x) /\ Closed(t, x)
      BY <1>1, <2>5, <3>1, <3>2, StatusTyped
    <3> HIDE DEF x
    <3>4. Settle(x)
      BY <1>3, <2>5, <3>2, <3>3, NoFlightTyped DEF Closed
    <3>5. Kept(x, t')
      BY <1>1, <3>3, <3>4, SettledMemory
    <3>6. Closed(t, t') /\ t'.exists /\ ~t'.starting
      BY <2>5, <3>3, <3>5 DEF Closed, Kept
    <3>7. ASSUME NEW i \in DOMAIN events'
          PROVE  Harmless(events'[i])
      <4>1. i + 1 > r /\ i + 1 # e /\ i + 1 \in DOMAIN events
        BY <1>2, <2>3, <2>6, <3>7
      <4>2. PICK j \in DOMAIN events : j = i + 1
        BY <4>1
      <4>3. FromCoder(events[j])
        BY <2>2, <4>1, <4>2 DEF Heard
      <4>4. QED  BY <1>2, <3>7, <4>2, <4>3 DEF Harmless
    <3>8. Unsent'
      BY <1>1, <2>1, <3>1, <3>6, <3>7, NoFlightTyped DEF Unsent, Sent, Closed
    <3>9. \A k \in Tasks : ~Claiming(k)' /\ ~Sending(k)'
      BY <1>5, <1>10, WorkingIs
    <3>10. QED  BY <3>6, <3>8, <3>9, RoundOver
  <2>7. CASE e # 1
    <3>1. PICK p \in Nat : p = IF r = 0 THEN 0 ELSE r - 1
      BY <2>3
    <3>2. PICK q \in Nat : q + 1 = e
      BY <2>3
    <3>3. SameRoundButSaw(t, t') /\ (t'.flight.saw <=> p = 0)
      <4>1. CASE r = 1
        <5>1. ev[1] = "reviewer" /\ ev[2] = "running"
          BY <2>4, <4>1 DEF IsRunning
        <5>2. x = [t EXCEPT !.flight.saw = TRUE]
          BY <1>1, <2>5, <5>1, StatusTyped
        <5>3. /\ x.flight.open /\ x.flight.saw /\ SameRoundButSaw(t, x)
          <6> HIDE DEF x
          <6>1. x.flight = [t.flight EXCEPT !.saw = TRUE]
            BY <1>1, <5>2 DEF Memories
          <6>2. /\ x.flight.saw /\ x.flight.open = t.flight.open
                /\ x.flight.named = t.flight.named
                /\ x.flight.submitted = t.flight.submitted
            BY <1>1, <6>1 DEF Memories
          <6>3. /\ x.exists = t.exists /\ x.starting = t.starting /\ x.round = t.round
                /\ x.pending = t.pending
            BY <1>1, <5>2 DEF Memories
          <6>4. QED  BY <1>10, <6>2, <6>3 DEF SameRoundButSaw
        <5>4. t' = x
          BY <1>3, <2>5, <5>1, <5>3
        <5>5. QED  BY <3>1, <4>1, <5>3, <5>4
      <4>2. CASE r # 1
        <5>1. (Harmless(ev) /\ ~t.flight.saw) \/ FromCoder(ev)
          BY <2>3, <2>4, <2>7, <4>2
        <5>2. UNCHANGED t
          BY <1>3, <1>7, <5>1 DEF FromCoder
        <5>3. QED  BY <1>8, <2>3, <3>1, <4>2, <5>2
      <4>3. QED  BY <4>1, <4>2
    <3>4. Heard(p, q)' /\ p \in 0 .. Len(events') + 1 /\ q \in 0 .. Len(events') + 1
      BY <1>1, <2>2, <2>3, <2>7, <3>1, <3>2, <3>3, HeardShift
    <3>5. Sent'
      <4>1. t'.flight.named /\ reviewer'.inbox = {}
        BY <1>1, <2>1, <3>3 DEF Sent, SameRoundButSaw
      <4>2. QED  BY <3>4, <4>1, Zenon DEF Sent
    <3>6. t'.flight.open
      BY <1>10, <3>3 DEF SameRoundButSaw
    <3>7. QED  BY <1>5, <1>6, <1>10, <3>3, <3>5, <3>6 DEF TurnOK
  <2>8. QED  BY <2>6, <2>7
<1>11. QED  BY <1>9, <1>10

\* The scan of the code, a tick, and the start they find queued.
LEMMA DrainStepsKeepRound ==
    ASSUME TypeInv, RoundOK, TurnOK, DriverScanned \/ DriverTicks
    PROVE  RoundOK' /\ TurnOK'
<1>1. /\ t \in Memories /\ FlightOK(t) /\ MemInv /\ StartInv /\ driver.sight \in Sights
      /\ UNCHANGED <<deleg, events, reviewer>>
  BY DEF TypeInv, MemInv, RestInv, DriverScanned, DriverTicks, world
<1>2. ASSUME NEW x \in Memories, FlightOK(x), Kept(t, x), task' = DrainTasks(x),
             Settle(Drained(x)) \/ t' = Drained(x)
      PROVE  RoundOK' /\ TurnOK'
  <2>1. Drained(x) \in Memories /\ FlightOK(Drained(x))
    BY <1>1, <1>2, DrainedCases
  <2>2. Kept(Drained(x), t')
    BY <1>1, <1>2, <2>1, SettledMemory DEF Kept
  <2>3. QED  BY <1>1, <1>2, <2>2, DrainKeepsRound
<1>3. CASE DriverScanned
  <2> DEFINE x == IF t.exists THEN RecordSighting(t, driver.sight) ELSE t
  <2>1. x \in Memories /\ FlightOK(x) /\ Kept(t, x)
    BY <1>1, Sighted DEF Kept
  <2>2. Settle(Drained(x)) /\ task' = DrainTasks(x)
    BY <1>3 DEF DriverScanned
  <2> HIDE DEF x
  <2>3. QED  BY <1>2, <2>1, <2>2
<1>4. CASE DriverTicks
  <2>1. task' = DrainTasks(t) /\ (Settle(Drained(t)) \/ t' = Drained(t))
    BY <1>4 DEF DriverTicks, TickStarts
  <2>2. Kept(t, t)
    BY DEF Kept
  <2>3. QED  BY <1>1, <1>2, <2>1, <2>2
<1>5. QED  BY <1>3, <1>4

\* A report leaves the round to its turn's end.
LEMMA SubmitKeepsRound ==
    ASSUME TypeInv, RoundOK, TurnOK, ReviewerSubmits
    PROVE  RoundOK' /\ TurnOK'
<1>1. /\ t \in Memories /\ FlightOK(t)
      /\ reviewer.status = "running" /\ t.flight.named /\ t.flight.open
      /\ t' = [t EXCEPT !.flight.submitted = TRUE, !.reviewed = t.roundCode]
      /\ UNCHANGED <<task, deleg, events, reviewer>>
  BY DEF TypeInv, MemInv, FlightOK, ReviewerSubmits, world
<1>2. /\ t'.exists = t.exists /\ t'.starting = t.starting /\ t'.round = t.round
      /\ t'.pending = t.pending
      /\ t'.flight.open = t.flight.open /\ t'.flight.named = t.flight.named
      /\ t'.flight.saw = t.flight.saw
  BY <1>1 DEF Memories
<1>3. Working = {} /\ Sent /\ Working' = Working
  BY <1>1, WorkingIs DEF TurnOK, Unsent, Claiming, Sending
<1>4. RoundOK'
  BY <1>1, <1>2, <1>3 DEF RoundOK, InRound, Claiming, Sending
<1>5. Sent'
  <2>1. PICK r \in 0 .. Len(events) + 1, e \in 0 .. Len(events) + 1 : Heard(r, e)
    BY <1>3 DEF Sent
  <2>2. Heard(r, e)'
    BY <1>1, <1>2, <2>1 DEF Heard
  <2>3. t'.flight.named /\ reviewer'.inbox = {}
    BY <1>1, <1>2, <1>3 DEF Sent
  <2>4. r \in 0 .. Len(events') + 1 /\ e \in 0 .. Len(events') + 1
    BY <1>1
  <2>5. QED  BY <2>2, <2>3, <2>4, Zenon DEF Sent
<1>6. QED  BY <1>1, <1>2, <1>3, <1>4, <1>5 DEF TurnOK

\* What the reviewer says after the prompt is out ends its turn; what the coder
\* says does not.
LEMMA EventKeepsRound ==
    ASSUME TypeInv, RoundOK, TurnOK, NEW ev \in Events, events' = Append(events, ev),
           UNCHANGED <<t, task, deleg>>,
           \/ FromCoder(ev) /\ UNCHANGED reviewer
           \/ /\ IsEnd(ev) /\ reviewer.status = "running"
              /\ reviewer'.status # "running" /\ reviewer'.inbox = reviewer.inbox
    PROVE  RoundOK' /\ TurnOK'
<1>1. Working' = Working
  BY WorkingIs DEF Claiming, Sending
<1>2. RoundOK'
  BY <1>1 DEF RoundOK, InRound, Claiming, Sending
<1>3. events \in Seq(Events)
  BY DEF TypeInv, RestInv
<1>4. PICK n \in Nat : n = Len(events)
  BY <1>3
<1>5. /\ Len(events') = n + 1 /\ DOMAIN events = 1 .. n /\ DOMAIN events' = 1 .. n + 1
      /\ \A i \in 1 .. n : events'[i] = events[i]
      /\ events'[n + 1] = ev
  BY <1>3, <1>4
<1>6. \A i \in DOMAIN events' : (i \in DOMAIN events /\ events'[i] = events[i]) \/ i = n + 1
  BY <1>5
<1>7. CASE ~(t.flight.open /\ Working = {})
  <2>1. Unsent /\ FromCoder(ev) /\ reviewer' = reviewer
    BY <1>7 DEF TurnOK, Unsent
  <2>2. Unsent'
    BY <1>5, <1>6, <2>1 DEF Unsent, Harmless
  <2>3. QED  BY <1>1, <1>2, <1>7, <2>2 DEF TurnOK
<1>8. CASE t.flight.open /\ Working = {}
  <2>1. Sent
    BY <1>8 DEF TurnOK
  <2>2. PICK r \in 0 .. n + 1, e \in 0 .. n + 1 : Heard(r, e)
    BY <1>4, <2>1 DEF Sent
  <2>3. t.flight.saw <=> r = 0
    BY <2>2 DEF Heard
  <2>a. r < e
    BY <2>2 DEF Heard
  <2>b. r \in Nat /\ e \in Nat /\ e <= n + 1 /\ r <= n
    BY <2>a
  <2>4. reviewer.status = "running" <=> e = n + 1
    BY <1>4, <2>2 DEF Heard
  <2>5. PICK q \in Nat : q = IF FromCoder(ev) /\ e = n + 1 THEN n + 2 ELSE e
    OBVIOUS
  <2>6. /\ r < q /\ q \in 0 .. n + 2 /\ r \in 0 .. n + 2
        /\ FromCoder(ev) => q # n + 1
        /\ ~FromCoder(ev) => q = e
    <3>1. CASE q = n + 2 /\ e = n + 1 /\ FromCoder(ev)
      BY <2>b, <3>1
    <3>2. CASE q = e /\ ~(FromCoder(ev) /\ e = n + 1)
      BY <2>a, <2>b, <3>2
    <3>3. QED  BY <2>5, <3>1, <3>2
  <2>7. reviewer'.status = "running" <=> q = n + 2
    <3>1. CASE FromCoder(ev) /\ reviewer' = reviewer
      BY <2>4, <2>5, <3>1
    <3>2. CASE ~FromCoder(ev) /\ reviewer.status = "running" /\ reviewer'.status # "running"
      BY <2>4, <2>6, <3>2
    <3>3. ~FromCoder(ev) \/ ~IsEnd(ev)
      BY DEF FromCoder, IsEnd
    <3>4. QED  BY <3>1, <3>2, <3>3
  <2>8. ASSUME NEW i \in DOMAIN events'
        PROVE  /\ i < r => Harmless(events'[i])
               /\ i = r => IsRunning(events'[i])
               /\ i = q => IsEnd(events'[i])
               /\ i > r /\ i # q => FromCoder(events'[i])
    <3>1. CASE i \in DOMAIN events /\ events'[i] = events[i]
      <4>1. /\ i < r => Harmless(events[i])
            /\ i = r => IsRunning(events[i])
            /\ i = e => IsEnd(events[i])
            /\ i > r /\ i # e => FromCoder(events[i])
        BY <2>2, <3>1 DEF Heard
      <4>2. i <= n
        BY <1>5, <3>1
      <4>3. i = q <=> i = e
        BY <1>5, <2>5, <3>1, <4>2
      <4>4. QED  BY <3>1, <4>1, <4>3
    <3>2. CASE i = n + 1
      <4>1. ~(i < r) /\ i # r
        BY <2>b, <3>2
      <4>2. i = q => ~FromCoder(ev)
        BY <2>6, <3>2
      <4>3. CASE FromCoder(ev)
        BY <1>5, <3>2, <4>1, <4>2, <4>3
      <4>4. CASE ~FromCoder(ev)
        <5>1. IsEnd(ev) /\ q = n + 1
          BY <2>4, <2>6, <4>4
        <5>2. QED  BY <1>5, <3>2, <4>1, <5>1
      <4>5. QED  BY <4>3, <4>4
    <3>3. QED  BY <1>6, <2>8, <3>1, <3>2
  <2>9. Heard(r, q)'
    <3>1. t'.flight.saw <=> r = 0
      BY <2>3
    <3>2. reviewer'.status = "running" <=> q = Len(events') + 1
      <4>1. Len(events') + 1 = n + 2
        BY <1>5
      <4>2. QED  BY <2>7, <4>1
    <3>3. r < q
      BY <2>6
    <3>4. QED  BY <2>8, <3>1, <3>2, <3>3, Zenon DEF Heard
  <2>10. Sent'
    <3>1. t'.flight.named /\ reviewer'.inbox = {}
      BY <2>1 DEF Sent
    <3>2. r \in 0 .. Len(events') + 1 /\ q \in 0 .. Len(events') + 1
      BY <1>5, <2>6
    <3>3. QED  BY <2>9, <3>1, <3>2, Zenon DEF Sent
  <2>11. QED  BY <1>1, <1>2, <1>8, <2>10 DEF TurnOK
<1>9. QED  BY <1>7, <1>8

\* The reviewer, the coder and the host.
LEMMA WorldKeepsRound ==
    ASSUME TypeInv, RoundOK, TurnOK,
           \/ \E status \in {"idle", "error"} : ReviewerTurnEnds(status)
           \/ CoderTurnEnds \/ DelegationAdmitted \/ Restart
    PROVE  RoundOK' /\ TurnOK'
<1>0. events \in Seq(Events)
  BY DEF TypeInv, RestInv
<1>1. ASSUME NEW status \in {"idle", "error"}, ReviewerTurnEnds(status)
      PROVE  RoundOK' /\ TurnOK'
  <2>1. reviewer.status = "running" /\ reviewer.inbox = {}
    BY <1>1 DEF ReviewerTurnEnds, TurnOK, Sent, Unsent
  <2>2. /\ reviewer'.status = "idle" /\ reviewer'.inbox = reviewer.inbox
        /\ UNCHANGED <<t, task, deleg>>
    BY <1>1, <2>1 DEF ReviewerTurnEnds, world
  <2>3. events' = events \o <<<<"reviewer", status>>>> \o <<>>
    BY <1>1, <2>1 DEF ReviewerTurnEnds
  <2>4. <<"reviewer", status>> \in Events /\ IsEnd(<<"reviewer", status>>)
    BY EventsTyped DEF IsEnd
  <2>5. events' = Append(events, <<"reviewer", status>>)
    BY <1>0, <2>3, <2>4
  <2>6. QED  BY <2>1, <2>2, <2>4, <2>5, EventKeepsRound
<1>2. CASE CoderTurnEnds
  <2>1. /\ <<"coder", "idle">> \in Events /\ FromCoder(<<"coder", "idle">>)
        /\ events' = Append(events, <<"coder", "idle">>)
        /\ UNCHANGED <<t, task, deleg, reviewer>>
    BY <1>2 DEF CoderTurnEnds, Events, FromCoder
  <2>2. QED  BY <2>1, EventKeepsRound
<1>3. CASE DelegationAdmitted
  <2>1. ~InRound(t) /\ UNCHANGED <<t, task, events, reviewer>>
    BY <1>3 DEF DelegationAdmitted
  <2>2. Working' = Working
    BY <2>1, WorkingIs DEF Claiming, Sending
  <2>3. RoundOK'
    BY <2>1, <2>2 DEF RoundOK, InRound, Claiming, Sending
  <2>4. Unsent'
    BY <2>1 DEF TurnOK, InRound, Unsent
  <2>5. QED  BY <2>1, <2>3, <2>4 DEF TurnOK, InRound
<1>4. CASE Restart
  <2>1. /\ t' = Loaded(saved) /\ task' = [k \in Tasks |-> Free] /\ events' = <<>>
        /\ reviewer' = [status |-> "down", inbox |-> {}, turn |-> {}, interrupted |-> FALSE]
    BY <1>4 DEF Restart
  <2>2. /\ t'.flight = NoFlight /\ ~t'.starting
        /\ saved.exists => t'.exists
        /\ ~saved.exists => t' = Untracked
    BY <2>1, LoadedTyped DEF TypeInv, MemInv
  <2>3. \A k \in Tasks : ~Claiming(k)' /\ ~Sending(k)' /\ task'[k].at # "send"
    BY <2>1, StartsTyped DEF Claiming, Sending
  <2>4. Working' = {}
    BY <2>3, WorkingIs
  <2>5. ~InRound(t') /\ ~t'.flight.open
    BY <2>2, NoFlightTyped DEF InRound
  <2>6. t'.pending # "none" => t'.exists
    BY <2>2, FreshTyped
  <2>7. RoundOK'
    BY <2>2, <2>3, <2>4, <2>5, <2>6 DEF RoundOK
  <2>8. Unsent'
    BY <2>1, <2>2, NoFlightTyped DEF Unsent
  <2>9. QED  BY <2>5, <2>7, <2>8 DEF TurnOK
<1>5. QED  BY <1>1, <1>2, <1>3, <1>4

\* A step of a checkout whose coder is there.
LEMMA LiveStep ==
    ASSUME TypeInv, RoundOK, TurnOK, stopper = "rest", coder # "gone", Undisturbed,
           [Next]_vars
    PROVE  RoundInv'
<1>1. /\ ~UserStops /\ ~StopInterrupts /\ ~StopClears
      /\ ~DriverResyncs /\ ~TickTimesOut
  BY DEF UserStops, StopInterrupts, StopClears, DriverResyncs, TickTimesOut, Undisturbed,
         Trouble, MayHappen
<1>2. (coder' = "gone" => CoderGoes) /\ stopper' = "rest"
  BY <1>1 DEF Next, DriverStep, TaskStep, DriverHears, DriverScanned, DriverTicks,
         TickReadsFull, TickGates, PrLooked, StartRuns, RoundLooks, RoundBegins,
         RoundEnsures, RoundSends, UserStarts, PrOpens, ReviewerSubmits, ReportLooks,
         ReportLooked, ClientLooks, ClientLooked, ReviewerTurnEnds, CodeMoves,
         CoderTurnStarts, CoderTurnEnds, DelegationAdmitted, DelegationEnds, CoderGoes,
         Restart, world, vars
<1>3. CASE CoderGoes
  <2>1. coder' = "gone" /\ t' = Untracked /\ saved' = Untracked
    BY <1>3 DEF CoderGoes
  <2>2. QED  BY <1>2, <2>1, FreshTyped, NoFlightTyped DEF RoundInv, GoneInv, InRound
<1>4. ASSUME RoundOK' /\ TurnOK', ~CoderGoes
      PROVE  RoundInv'
  BY <1>2, <1>4 DEF RoundInv, GoneInv
<1>6. CASE ReviewerSubmits
  BY <1>2, <1>3, <1>4, <1>6, SubmitKeepsRound
<1>7. CASE ~ReviewerSubmits /\ ~CoderGoes
  <2>1. ASSUME NEW k \in Tasks, TaskStep(k) \/ UserStarts(k) \/ PrOpens(k)
        PROVE  RoundOK' /\ TurnOK'
    BY <2>1, StartStepsKeepRound, BeginKeepsRound, DeliveryKeepsRound DEF TaskStep
  <2>2. ASSUME DriverStep
        PROVE  RoundOK' /\ TurnOK'
    BY <1>1, <2>2, HearingKeepsRound, DrainStepsKeepRound, QuietSteps DEF DriverStep
  <2>3. ASSUME \/ \E status \in {"idle", "error"} : ReviewerTurnEnds(status)
               \/ CoderTurnEnds \/ DelegationAdmitted \/ Restart
        PROVE  RoundOK' /\ TurnOK'
    BY <2>3, WorldKeepsRound
  <2>4. ASSUME \/ ReportLooks \/ ReportLooked \/ ClientLooks \/ ClientLooked
               \/ CodeMoves \/ CoderTurnStarts \/ DelegationEnds \/ UNCHANGED vars
        PROVE  RoundOK' /\ TurnOK'
    BY <2>4, QuietSteps
  <2>5. RoundOK' /\ TurnOK'
    BY <1>1, <1>7, <2>1, <2>2, <2>3, <2>4 DEF Next
  <2>6. QED  BY <1>4, <1>7, <2>5
<1>8. QED  BY <1>3, <1>6, <1>7

LEMMA RoundStep ==
    ASSUME TypeInv, RoundInv, Undisturbed, [Next]_vars
    PROVE  RoundInv'
<1>1. CASE coder # "gone"
  BY <1>1, LiveStep DEF RoundInv
<1>2. CASE coder = "gone" /\ UNCHANGED vars
  BY <1>2 DEF vars, world, observers, RoundInv, GoneInv, InRound
<1>3. CASE coder = "gone" /\ Next
  <2>1. coder' = "gone" /\ Unclaimed(t') /\ saved'.pending = "none"
    BY <1>3, GoneStep DEF RoundInv, GoneInv, Unclaimed
  <2>2. /\ ~UserStops /\ ~StopInterrupts /\ ~StopClears
    BY <1>3 DEF UserStops, StopInterrupts, StopClears, RoundInv
  <2>3. stopper' = "rest"
    BY <1>3, <2>2 DEF Next, DriverStep, TaskStep, DriverHears, DriverResyncs, DriverScanned,
         DriverTicks, TickTimesOut, TickReadsFull, TickGates, PrLooked, StartRuns, RoundLooks,
         RoundBegins, RoundEnsures, RoundSends, UserStarts, PrOpens, ReviewerSubmits,
         ReportLooks, ReportLooked, ClientLooks, ClientLooked, ReviewerTurnEnds, CodeMoves,
         CoderTurnStarts, CoderTurnEnds, DelegationAdmitted, DelegationEnds, CoderGoes,
         Restart, RoundInv
  <2>4. QED  BY <2>1, <2>3 DEF RoundInv, GoneInv, Unclaimed
<1>4. QED  BY <1>1, <1>2, <1>3

LEMMA RoundInit == Init => RoundInv
<1> SUFFICES ASSUME Init PROVE RoundInv
  OBVIOUS
<1>1. /\ t = Untracked /\ coder = "idle" /\ stopper = "rest" /\ events = <<>>
      /\ task = [k \in Tasks |-> Free]
      /\ reviewer = [status |-> "down", inbox |-> {}, turn |-> {}, interrupted |-> FALSE]
  BY DEF Init
<1>2. \A k \in Tasks : ~Claiming(k) /\ ~Sending(k) /\ task[k].at # "send"
  BY <1>1, StartsTyped DEF Claiming, Sending
<1>3. Working = {} /\ ~InRound(t) /\ ~t.flight.open
  BY <1>1, <1>2, WorkingIs, FreshTyped, NoFlightTyped DEF InRound
<1>4. RoundOK
  BY <1>1, <1>2, <1>3, FreshTyped DEF RoundOK
<1>5. TurnOK
  BY <1>1, <1>3, FreshTyped, NoFlightTyped DEF TurnOK, Unsent
<1>6. QED  BY <1>1, <1>4, <1>5 DEF RoundInv, GoneInv

LEMMA RoundInvariant ==
    ASSUME Undisturbed
    PROVE  Spec => [](TypeInv /\ RoundInv)
<1>1. TypeInv /\ RoundInv /\ [Next]_vars => TypeInv' /\ RoundInv'
  BY TypeStep, RoundStep
<1>2. QED  BY <1>1, TypeInit, RoundInit, PTL DEF Spec

\* One round at a time (claim_if_free, claim_pending and the admission lock of
\* record_unless_reviewed): no delegation is admitted beside a round, and a start
\* holds the claim, and then the flight it opened, until its prompt is out.
THEOREM OneRoundAtATime ==
    ASSUME Undisturbed
    PROVE  Spec => []OneRound
<1>1. TypeInv /\ RoundInv => OneRound
  <2> SUFFICES ASSUME TypeInv, RoundInv PROVE OneRound
    OBVIOUS
  <2>1. ~(InRound(t) /\ deleg)
    BY DEF RoundInv, GoneInv, RoundOK
  <2>2. ASSUME coder # "gone", NEW k \in Working
        PROVE  /\ Working = {k}
               /\ task[k].at \in {"look", "begin"} => t.starting /\ ~t.flight.open
               /\ task[k].at \in {"ensure", "send"} =>
                     t.flight.open /\ t.round = task[k].round
    BY <2>2, WorkingIs DEF RoundInv, RoundOK, Claiming, Sending
  <2>3. QED  BY <2>1, <2>2 DEF OneRound
<1>2. QED  BY <1>1, RoundInvariant, PTL

-----------------------------------------------------------------------------
(* 6. One automatic attempt per code                                       *)

\* Nor does a read, a spawn or a send fail, and no tick finds the box asleep.
Unfailing == Undisturbed /\ Troubles \cap {"fault", "asleep"} = {}

\* A code that is not shown to be another is the same one.
LEMMA SameCode ==
    ASSUME NEW c \in Codes, NEW d \in Codes, Identity(c, d) # "different"
    PROVE  c = d
<1>1. /\ c = [cheap |-> c.cheap, content |-> c.content]
      /\ d = [cheap |-> d.cheap, content |-> d.content]
      /\ c.content # "skipped"
  BY ReviewLoopAssumption
<1>2. c.cheap = d.cheap /\ c.content = d.content
  BY <1>1 DEF Identity
<1>3. QED  BY <1>1, <1>2

LEMMA SightSeen ==
    ASSUME TypeInv, Unfailing, NEW full \in BOOLEAN, NEW s \in SightsNow(full)
    PROVE  /\ s \in Sights /\ s.kind = "read" /\ Seen(s)
           /\ full => s.read \notin Skipped
           /\ s.read \in Skipped => s.read.cheap # t.reviewed.cheap
BY SightTyped DEF Unfailing, MayHappen, Seen

LEMMA NotScannedSeen ==
    Seen(NotScanned) /\ NotScanned.kind = "unscanned" /\ NotScanned \in Sights
BY ReadsApart DEF Seen, NotScanned, Sights, Reads

\* What of a memory the attempts stand on.
SameMemory(x, y) ==
    /\ y.roundCode = x.roundCode /\ y.reviewed = x.reviewed /\ y.failure = x.failure
    /\ y.flight.open = x.flight.open /\ y.flight.submitted = x.flight.submitted
    /\ x.exists => y.exists

\* The row follows the memory, or is left as it was.
RowFollows ==
    \/ UNCHANGED saved
    \/ t'.exists /\ Persists(t', saved') /\ (InRound(t') => t'.phase = "reviewing")

LEMMA RecallKept ==
    ASSUME RecallOK, MemoryOK, tried' \in {tried, None}, SameMemory(t, t'), RowFollows
    PROVE  RecallOK' /\ MemoryOK'
<1>1. RecallOK'
  <2>1. CASE tried' = None
    BY <2>1 DEF RecallOK
  <2>2. CASE tried' # None
    <3>1. /\ tried' = tried /\ t.exists /\ saved.exists
          /\ t.roundCode = tried /\ saved.roundCode = tried
          /\ t.flight.open \/ t.reviewed = tried \/ t.failure.code = tried
          /\ \/ saved.phase = "reviewing" \/ saved.reviewed = tried
             \/ saved.failure.code = tried
      BY <2>2 DEF RecallOK, Recalled
    <3>2. /\ t'.exists /\ t'.roundCode = tried
          /\ t'.flight.open \/ t'.reviewed = tried \/ t'.failure.code = tried
      BY <3>1 DEF SameMemory
    <3>3. /\ saved'.exists /\ saved'.roundCode = tried
          /\ \/ saved'.phase = "reviewing" \/ saved'.reviewed = tried
             \/ saved'.failure.code = tried
      BY <3>1, <3>2 DEF RowFollows, Persists, InRound
    <3>4. QED  BY <3>1, <3>2, <3>3 DEF RecallOK, Recalled
  <2>3. QED  BY <2>1, <2>2
<1>2. MemoryOK'
  BY DEF MemoryOK, SameMemory, RowFollows, Persists
<1>3. QED  BY <1>1, <1>2

\* A memory that is settled.
LEMMA SettleFollows ==
    ASSUME MemInv, NEW x \in Memories, FlightOK(x), Settle(x)
    PROVE  RowFollows /\ t'.failure = x.failure /\ Kept(x, t')
<1>1. CASE x.exists
  BY <1>1, SettledMemory DEF RowFollows, Kept, InRound
<1>2. CASE ~x.exists
  BY <1>2, SettledMemory DEF RowFollows
<1>3. QED  BY <1>1, <1>2

\* A round that is over leaves its code reviewed, or failed.
LEMMA RecallClosed ==
    ASSUME RecallOK, MemoryOK, tried' \in {tried, None}, t.exists,
           Closed(t, t'), Persists(t', saved'),
           \/ t'.failure = t.failure /\ t.flight.submitted
           \/ t'.failure.origin # "scan" /\ t'.failure.code = t.roundCode
    PROVE  RecallOK' /\ MemoryOK'
<1>1. ~t'.flight.submitted /\ t'.roundCode = t.roundCode /\ t'.reviewed = t.reviewed
      /\ t'.exists
  BY NoFlightTyped DEF Closed
<1>2. /\ saved'.exists /\ saved'.roundCode = t'.roundCode /\ saved'.reviewed = t'.reviewed
      /\ saved'.failure = t'.failure
  BY <1>1 DEF Persists
<1>3. MemoryOK'
  BY <1>1, <1>2 DEF MemoryOK
<1>4. t'.reviewed = t'.roundCode \/ t'.failure.code = t'.roundCode
  BY <1>1 DEF MemoryOK
<1>5. RecallOK'
  BY <1>1, <1>2, <1>4 DEF RecallOK, Recalled
<1>6. QED  BY <1>3, <1>5

\* No start is allowed that was not.
LEMMA AttemptKept ==
    ASSUME AttemptOK, tried' \in {tried, None}, RowFollows,
           \A k \in Tasks : Allowed(k)' => Allowed(k),
           t'.pending = "re-review" => t.pending = "re-review"
    PROVE  AttemptOK'
<1>1. saved'.pending = "re-review" => saved.pending = "re-review" \/ t.pending = "re-review"
  BY DEF RowFollows, Persists
<1>2. /\ \A j, k \in Tasks : Allowed(j)' /\ Allowed(k)' => j = k
      /\ \A k \in Tasks : Allowed(k)' => t'.pending # "re-review"
  BY DEF AttemptOK
<1>3. (\/ t.pending = "re-review" \/ saved.pending = "re-review"
       \/ \E k \in Tasks : Allowed(k))'
      => tried' = None
  BY <1>1 DEF AttemptOK
<1>4. QED  BY <1>2, <1>3 DEF AttemptOK

LEMMA SightsKept ==
    ASSUME SightsOK, task \in [Tasks -> Starts], NEW k \in Tasks, NEW r,
           task' = [task EXCEPT ![k] = r], Seen(r.sight),
           r.at \in {"pr", "begin"} => r.sight.kind = "read",
           UNCHANGED <<driver, client, report>>
    PROVE  SightsOK'
<1>1. \A j \in Tasks : task'[j] = IF j = k THEN r ELSE task[j]
  OBVIOUS
<1>2. \A j \in Tasks : /\ Seen(task'[j].sight)
                       /\ task'[j].at \in {"pr", "begin"} => task'[j].sight.kind = "read"
  BY <1>1 DEF SightsOK
<1>3. QED  BY <1>2 DEF SightsOK, Seen

LEMMA DriverKept ==
    ASSUME DriverOK, UNCHANGED driver, t'.reviewed = t.reviewed,
           t.flight.submitted => t'.flight.submitted
    PROVE  DriverOK'
BY DEF DriverOK

\* A recorded look.
LEMMA LookFacts ==
    ASSUME MemInv, MemoryOK, NEW s \in Sights, Seen(s), Shown(s),
           NEW x, x = IF t.exists THEN RecordSighting(t, s) ELSE t
    PROVE  /\ x \in Memories /\ FlightOK(x) /\ Kept(t, x) /\ x.failure = t.failure
           /\ tried' \in {tried, None}
           /\ t.exists /\ s.kind = "read" => x.lastRead = s.read
<1>1. CASE t.exists
  BY <1>1, Sighted DEF MemInv, MemoryOK, Seen, Shown
<1>2. CASE ~t.exists
  BY <1>2 DEF MemInv, Kept, Shown
<1>3. QED  BY <1>1, <1>2

\* A start asked for: an allowed one keeps its claim, or waits in the queue.
LEMMA StartKeepsAttempts ==
    ASSUME TypeInv, Attempts, NEW k \in Tasks, NEW trigger \in Starters,
           Start(k, trigger), trigger = "re-review" => Allowed(k),
           UNCHANGED <<driver, client, report, tried>>
    PROVE  Attempts'
<1>0. task \in [Tasks -> Starts] /\ MemInv
  BY DEF TypeInv, StartInv
<1>1. /\ MemInv' /\ t'.failure = t.failure
      /\ \/ /\ Kept(t, t') /\ task' = [task EXCEPT ![k] = Free]
         \/ /\ coder # "gone" /\ CoderIdle /\ ~InRound(t) /\ t.pending = "none"
            /\ Claims(t, t')
            /\ task' = [task EXCEPT ![k] = Claimed(trigger, "start")]
         \/ /\ coder # "gone" /\ ~InRound(t) /\ t.pending = "none"
            /\ Queues(t, t', trigger)
            /\ task' = [task EXCEPT ![k] = Free]
      /\ t'.exists => Persists(t', saved')
      /\ t'.exists /\ InRound(t') => t'.phase = "reviewing"
      /\ ~t'.exists => saved' = saved
  BY <1>0, StartCases
<1>2. RowFollows
  BY <1>1 DEF RowFollows
<1>3. SameMemory(t, t')
  BY <1>1 DEF SameMemory, Kept, Claims, Queues
<1>4. RecallOK' /\ MemoryOK'
  BY <1>2, <1>3, RecallKept DEF Attempts
<1>5. DriverOK'
  BY <1>3, DriverKept DEF Attempts, SameMemory
<1>6. PICK r : /\ r \in {Free, Claimed(trigger, "start")}
               /\ task' = [task EXCEPT ![k] = r]
  BY <1>1
<1>7. /\ Free.at = "none" /\ Free.sight = NotScanned /\ Free.trigger = "none"
      /\ Claimed(trigger, "start").at = "look"
      /\ Claimed(trigger, "start").trigger = trigger
      /\ Claimed(trigger, "start").sight = NotScanned
  BY StartsTyped
<1>8. SightsOK'
  <2>1. Seen(r.sight) /\ r.at \notin {"pr", "begin"}
    BY <1>6, <1>7, NotScannedSeen
  <2>2. QED  BY <1>0, <1>6, <2>1, SightsKept DEF Attempts
<1>9. \A j \in Tasks : task'[j] = IF j = k THEN r ELSE task[j]
  BY <1>0, <1>6
<1>10. AttemptOK'
  <2>1. CASE Kept(t, t') \/ Claims(t, t') \/ trigger # "re-review"
    <3>1. \A j \in Tasks : Allowed(j)' => Allowed(j)
      BY <1>6, <1>7, <1>9 DEF Allowed
    <3>2. t'.pending = "re-review" => t.pending = "re-review"
      BY <1>1, <2>1 DEF Kept, Claims, Queues
    <3>3. QED  BY <1>2, <3>1, <3>2, AttemptKept DEF Attempts
  <2>2. CASE Queues(t, t', trigger) /\ trigger = "re-review" /\ ~Kept(t, t') /\ ~Claims(t, t')
    <3>1. Allowed(k) /\ tried' = None
      BY <2>2 DEF Attempts, AttemptOK
    <3>2. r = Free
      BY <1>0, <1>1, <1>6, <2>2
    <3>3. \A j \in Tasks : ~Allowed(j)'
      BY <1>7, <1>9, <3>1, <3>2 DEF Attempts, AttemptOK, Allowed
    <3>4. QED  BY <3>1, <3>3 DEF AttemptOK
  <2>3. QED  BY <1>1, <2>1, <2>2
<1>11. QED  BY <1>4, <1>5, <1>8, <1>10 DEF Attempts

\* The queued start that is claimed: allowed if it was.
LEMMA DrainKeepsAttempts ==
    ASSUME TypeInv, Attempts, NEW x \in Memories, FlightOK(x), Kept(t, x),
           x.failure = t.failure, tried' \in {tried, None},
           task' = DrainTasks(x), Kept(Drained(x), t'), t'.failure = Drained(x).failure,
           RowFollows
    PROVE  /\ AttemptOK' /\ RecallOK' /\ MemoryOK' /\ SameMemory(t, t')
           /\ \A k \in Tasks : /\ Seen(task'[k].sight)
                               /\ task'[k].at \in {"pr", "begin"} => task'[k].sight.kind = "read"
<1> DEFINE y == Drained(x)
<1>0. task \in [Tasks -> Starts] /\ StartInv
  BY DEF TypeInv, StartInv
<1>1. /\ y.failure = x.failure /\ y.exists = x.exists
      /\ \/ y = x /\ DrainTasks(x) = task
         \/ /\ x.pending # "none" /\ Claims(x, y)
            /\ \E k \in Tasks :
                  /\ task[k].at = "none"
                  /\ DrainTasks(x) = [task EXCEPT ![k] = Claimed(x.pending, "queued")]
  BY <1>0, DrainedCases
<1> HIDE DEF y
<1>2. Kept(y, t') /\ t'.failure = y.failure
  BY DEF y
<1>3. SameMemory(t, t')
  BY <1>1, <1>2 DEF SameMemory, Kept, Claims
<1>4. RecallOK' /\ MemoryOK'
  BY <1>3, RecallKept DEF Attempts
<1>5. CASE y = x /\ DrainTasks(x) = task
  <2>1. task' = task /\ t'.pending = t.pending
    BY <1>2, <1>5 DEF Kept
  <2>2. \A j \in Tasks : Allowed(j)' => Allowed(j)
    BY <2>1 DEF Allowed
  <2>3. AttemptOK'
    BY <2>1, <2>2, AttemptKept DEF Attempts
  <2>4. QED  BY <1>3, <1>4, <2>1, <2>3 DEF Attempts, SightsOK, Seen
<1>6. CASE /\ x.pending # "none" /\ Claims(x, y)
           /\ \E k \in Tasks :
                 /\ task[k].at = "none"
                 /\ DrainTasks(x) = [task EXCEPT ![k] = Claimed(x.pending, "queued")]
  <2>1. PICK k \in Tasks : /\ task[k].at = "none"
                           /\ DrainTasks(x) = [task EXCEPT ![k] = Claimed(x.pending, "queued")]
    BY <1>6
  <2>2. PICK r : r = Claimed(x.pending, "queued")
    OBVIOUS
  <2>3. x.pending \in Starters /\ x.pending = t.pending
    BY <1>6 DEF Memories, Kept
  <2>4. r.at = "look" /\ r.trigger = t.pending /\ r.sight = NotScanned
    BY <2>2, <2>3, StartsTyped
  <2>5. \A j \in Tasks : task'[j] = IF j = k THEN r ELSE task[j]
    BY <1>0, <2>1, <2>2
  <2>6. t'.pending = "none"
    BY <1>2, <1>6 DEF Kept, Claims
  <2>7. AttemptOK'
    <3>1. CASE t.pending = "re-review"
      <4>1. tried' = None /\ \A j \in Tasks : ~Allowed(j)
        BY <3>1 DEF Attempts, AttemptOK
      <4>2. \A j \in Tasks : Allowed(j)' => j = k
        BY <2>5, <4>1 DEF Allowed
      <4>3. QED  BY <2>6, <4>1, <4>2 DEF AttemptOK
    <3>2. CASE t.pending # "re-review"
      <4>1. \A j \in Tasks : Allowed(j)' => Allowed(j)
        BY <2>4, <2>5, <3>2 DEF Allowed
      <4>2. QED  BY <2>6, <4>1, AttemptKept DEF Attempts
    <3>3. QED  BY <3>1, <3>2
  <2>8. \A j \in Tasks : /\ Seen(task'[j].sight)
                         /\ task'[j].at \in {"pr", "begin"} => task'[j].sight.kind = "read"
    BY <2>4, <2>5, NotScannedSeen DEF Attempts, SightsOK
  <2>9. QED  BY <1>3, <1>4, <2>7, <2>8
<1>7. QED  BY <1>1, <1>5, <1>6

\* A start that goes on and asks for nothing new.
LEMMA TaskKeepsAttempts ==
    ASSUME TypeInv, Attempts, NEW k \in Tasks, NEW r, task' = [task EXCEPT ![k] = r],
           Seen(r.sight), r.at \in {"pr", "begin"} => r.sight.kind = "read",
           \/ r.at \notin {"start", "look", "begin"}
           \/ r.trigger # "re-review"
           \/ r.trigger = task[k].trigger /\ task[k].at \in {"start", "look", "begin"},
           SameMemory(t, t'), t'.pending = t.pending, RowFollows,
           tried' \in {tried, None}, UNCHANGED <<driver, client, report>>
    PROVE  Attempts'
<1>0. task \in [Tasks -> Starts]
  BY DEF TypeInv, StartInv
<1>1. \A j \in Tasks : task'[j] = IF j = k THEN r ELSE task[j]
  BY <1>0
<1>2. \A j \in Tasks : Allowed(j)' => Allowed(j)
  BY <1>1 DEF Allowed
<1>3. AttemptOK'
  BY <1>2, AttemptKept DEF Attempts
<1>4. RecallOK' /\ MemoryOK'
  BY RecallKept DEF Attempts
<1>5. DriverOK'
  BY DriverKept DEF Attempts, SameMemory
<1>6. SightsOK'
  BY <1>0, SightsKept DEF Attempts
<1>7. QED  BY <1>3, <1>4, <1>5, <1>6 DEF Attempts

\* Starts, up to their read of the code.
LEMMA StartStepsKeepAttempts ==
    ASSUME TypeInv, Attempts, Unfailing, NEW k \in Tasks,
           UserStarts(k) \/ PrOpens(k) \/ PrLooked(k) \/ StartRuns(k) \/ RoundLooks(k)
    PROVE  Attempts'
<1>0. /\ task \in [Tasks -> Starts] /\ MemInv /\ MemoryOK
      /\ "manual" \in Starters /\ "pr-open" \in Starters
      /\ UNCHANGED <<driver, client, report>>
  BY DEF TypeInv, StartInv, Starters, UserStarts, PrOpens, PrLooked, StartRuns, RoundLooks,
         Attempts
<1>1. UNCHANGED <<t, saved>> => SameMemory(t, t') /\ t'.pending = t.pending /\ RowFollows
  BY DEF SameMemory, RowFollows
<1>2. CASE UserStarts(k)
  BY <1>0, <1>2, StartKeepsAttempts DEF UserStarts, observers
<1>3. CASE PrOpens(k)
  <2>0. tried' = tried /\ task[k].at = "none"
    BY <1>3 DEF PrOpens, observers
  <2>1. CASE UNCHANGED <<t, saved, task>>
    <3>1. task' = [task EXCEPT ![k] = task[k]]
      BY <1>0, <2>1
    <3>2. Seen(task[k].sight)
      BY DEF Attempts, SightsOK
    <3>3. QED  BY <1>0, <1>1, <2>0, <2>1, <3>1, <3>2, TaskKeepsAttempts
  <2>2. CASE Start(k, "pr-open")
    BY <1>0, <2>0, <2>2, StartKeepsAttempts
  <2>3. ASSUME NEW s \in SightsNow(FALSE), UNCHANGED <<t, saved>>,
               task' = [task EXCEPT ![k].at = "pr", ![k].sight = s]
        PROVE  Attempts'
    <3> DEFINE r == [task[k] EXCEPT !.at = "pr", !.sight = s]
    <3>1. task' = [task EXCEPT ![k] = r]
      BY <1>0, <2>3
    <3>2. r.at = "pr" /\ r.sight = s
      BY <1>0 DEF Starts
    <3>3. Seen(s) /\ s.kind = "read"
      BY <2>3, SightSeen
    <3> HIDE DEF r
    <3>4. QED  BY <1>0, <1>1, <2>0, <2>3, <3>1, <3>2, <3>3, TaskKeepsAttempts
  <2>4. QED  BY <1>3, <2>1, <2>2, <2>3, Zenon DEF PrOpens
<1>4. CASE PrLooked(k)
  <2> DEFINE x == IF t.exists THEN RecordSighting(t, task[k].sight) ELSE t
             q == [Free EXCEPT !.at = "start", !.trigger = "pr-open"]
  <2>1. Settle(x) /\ Shown(task[k].sight) /\ \E z \in {Free, q} : task' = [task EXCEPT ![k] = z]
    BY <1>4 DEF PrLooked
  <2>2. /\ x \in Memories /\ FlightOK(x) /\ Kept(t, x) /\ x.failure = t.failure
        /\ tried' \in {tried, None}
    <3>1. task[k].sight \in Sights /\ Seen(task[k].sight)
      BY <1>0 DEF Starts, Attempts, SightsOK
    <3>2. QED  BY <1>0, <2>1, <3>1, LookFacts
  <2> HIDE DEF x
  <2>3. RowFollows /\ t'.failure = x.failure /\ Kept(x, t')
    BY <1>0, <2>1, <2>2, SettleFollows
  <2>4. SameMemory(t, t') /\ t'.pending = t.pending
    BY <2>2, <2>3 DEF Kept, SameMemory
  <2>5. /\ Free.at = "none" /\ Free.sight = NotScanned
        /\ q.at = "start" /\ q.trigger = "pr-open" /\ q.sight = NotScanned
    BY <1>0, StartsTyped
  <2> HIDE DEF q
  <2>6. PICK z \in {Free, q} : task' = [task EXCEPT ![k] = z]
    BY <2>1
  <2>7. Seen(z.sight) /\ z.at \notin {"pr", "begin"} /\
        (z.at \notin {"start", "look", "begin"} \/ z.trigger # "re-review")
    BY <2>5, <2>6, NotScannedSeen
  <2>8. QED  BY <1>0, <2>2, <2>3, <2>4, <2>6, <2>7, TaskKeepsAttempts
<1>5. CASE StartRuns(k)
  <2>1. task[k].trigger \in Starters /\ task[k].at = "start" /\ tried' = tried
    BY <1>5 DEF StartRuns, TypeInv, StartInv, observers
  <2>2. task[k].trigger = "re-review" => Allowed(k)
    BY <2>1 DEF Allowed
  <2>3. QED  BY <1>0, <1>5, <2>1, <2>2, StartKeepsAttempts DEF StartRuns
<1>6. CASE RoundLooks(k)
  <2>1. PICK s \in SightsNow(TRUE) :
           task' = [task EXCEPT ![k].at = "begin", ![k].sight = s]
    BY <1>6 DEF RoundLooks
  <2> DEFINE r == [task[k] EXCEPT !.at = "begin", !.sight = s]
  <2>2. task' = [task EXCEPT ![k] = r]
    BY <1>0, <2>1
  <2>3. r.at = "begin" /\ r.sight = s /\ r.trigger = task[k].trigger /\ task[k].at = "look"
    BY <1>0, <1>6 DEF Starts, RoundLooks
  <2>4. Seen(s) /\ s.kind = "read"
    BY SightSeen
  <2>5. UNCHANGED <<t, saved, tried>>
    BY <1>6 DEF RoundLooks, observers
  <2> HIDE DEF r
  <2>6. QED  BY <1>0, <1>1, <2>2, <2>3, <2>4, <2>5, TaskKeepsAttempts
<1>7. QED  BY <1>2, <1>3, <1>4, <1>5, <1>6

\* The round begins: an allowed one uses its attempt up, and another that reads
\* the code last tried leaves it remembered.
LEMMA BeginKeepsAttempts ==
    ASSUME TypeInv, RoundOK, Attempts, coder # "gone", NEW k \in Tasks, RoundBegins(k)
    PROVE  Attempts'
<1> DEFINE s == task[k].sight
           x == RecordSighting(t, s)
           y == Begun(x, task[k].trigger, s.read)
           r == [task[k] EXCEPT !.at = "ensure", !.sight = NotScanned, !.round = t.round + 1]
<1>0. /\ task \in [Tasks -> Starts] /\ MemInv /\ t \in Memories /\ FlightOK(t)
      /\ UNCHANGED <<driver, client, report>> /\ task[k].at = "begin"
  BY DEF TypeInv, StartInv, MemInv, RoundBegins
<1>1. t.exists /\ ~t.flight.open /\ ~t.flight.submitted
  BY <1>0 DEF Claiming, RoundOK, InRound, FlightOK
<1>2. s \in Sights /\ s.kind = "read" /\ s.read \in Codes
  <2>1. s \in Sights /\ s.kind = "read" /\ Seen(s)
    BY <1>0 DEF Starts, Attempts, SightsOK
  <2>2. s.read \notin Skipped
    BY <1>0, <2>1 DEF TypeInv, StartInv
  <2>3. QED  BY <2>1, <2>2 DEF Sights, Reads, NotScanned, Unreadable, Seen
<1>3. x \in Memories /\ FlightOK(x) /\ Kept(t, x)
  BY <1>0, <1>2, Sighted
<1>4. /\ Settle(y) /\ task' = [task EXCEPT ![k].at = "ensure", ![k].sight = NotScanned,
                                            ![k].round = t.round + 1]
      /\ IF task[k].trigger = "re-review" THEN tried' = s.read ELSE Shown(s)
  <2>1. s.read.content # "unverified" /\ ~x.flight.open
    BY <1>1, <1>2, <1>3, ReadsApart DEF Kept
  <2>2. QED  BY <1>1, <1>2, <2>1 DEF RoundBegins
<1>5. /\ y \in Memories /\ FlightOK(y)
      /\ y.exists = x.exists /\ y.reviewed = x.reviewed
      /\ y.roundCode = s.read /\ y.pending = x.pending
      /\ y.failure = NoFailure
      /\ y.flight.open /\ ~y.flight.submitted
  BY <1>2, <1>3, BegunTyped
<1>6. task' = [task EXCEPT ![k] = r]
  BY <1>0, <1>4
<1>7. r.at = "ensure" /\ r.sight = NotScanned
  BY <1>0 DEF Starts
<1> HIDE DEF y, r, x
<1>8. /\ y.exists /\ InRound(y)
  BY <1>1, <1>3, <1>5 DEF Kept, InRound
<1>9. /\ Kept(y, t') /\ t'.failure = NoFailure /\ t'.phase = "reviewing"
      /\ Persists(t', saved')
  BY <1>4, <1>5, <1>8, SettledMemory
<1>10. /\ t'.exists /\ t'.roundCode = s.read /\ t'.reviewed = t.reviewed
       /\ t'.flight.open /\ ~t'.flight.submitted /\ t'.pending = t.pending
  BY <1>3, <1>5, <1>8, <1>9 DEF Kept
<1>11. /\ saved'.exists /\ saved'.roundCode = s.read /\ saved'.phase = "reviewing"
       /\ saved'.failure = NoFailure /\ saved'.pending = t.pending
  BY <1>9, <1>10 DEF Persists
<1>12. MemoryOK'
  <2>1. NoFailure.origin = "none" /\ NoFailure.code = None
    BY DEF NoFailure
  <2>2. QED  BY <1>9, <1>10, <1>11, <2>1 DEF MemoryOK
<1>13. tried' # None => tried' = s.read
  <2>1. CASE task[k].trigger = "re-review"
    BY <1>4, <2>1
  <2>2. CASE task[k].trigger # "re-review" /\ tried # None
    <3>1. tried \in Codes
      BY <2>2 DEF TypeInv, RestInv
    <3>2. tried' = IF Identity(s.read, tried) = "different" THEN None ELSE tried
      BY <1>1, <1>2, <1>4, <2>2 DEF Shown
    <3>3. QED  BY <1>2, <3>1, <3>2, SameCode
  <2>3. CASE task[k].trigger # "re-review" /\ tried = None
    BY <1>4, <2>3 DEF Shown
  <2>4. QED  BY <2>1, <2>2, <2>3
<1>14. RecallOK'
  BY <1>10, <1>11, <1>13 DEF RecallOK
<1>15. \A j \in Tasks : task'[j] = IF j = k THEN r ELSE task[j]
  BY <1>0, <1>6
<1>16. AttemptOK'
  <2>1. \A j \in Tasks : Allowed(j)' => Allowed(j) /\ j # k
    BY <1>7, <1>15 DEF Allowed
  <2>2. CASE task[k].trigger = "re-review"
    <3>1. Allowed(k)
      BY <1>0, <2>2 DEF Allowed
    <3>2. t.pending # "re-review" /\ \A j \in Tasks : ~Allowed(j)'
      BY <2>1, <3>1 DEF Attempts, AttemptOK
    <3>3. QED  BY <1>10, <1>11, <3>2 DEF AttemptOK
  <2>3. CASE task[k].trigger # "re-review"
    <3>1. tried' \in {tried, None}
      BY <1>4, <2>3 DEF Shown
    <3>2. RowFollows
      BY <1>9, <1>10 DEF RowFollows
    <3>3. QED  BY <1>10, <2>1, <3>1, <3>2, AttemptKept DEF Attempts
  <2>4. QED  BY <2>2, <2>3
<1>17. DriverOK'
  BY <1>0, <1>1, <1>10, DriverKept DEF Attempts
<1>18. SightsOK'
  BY <1>0, <1>6, <1>7, NotScannedSeen, SightsKept DEF Attempts
<1>19. QED  BY <1>12, <1>14, <1>16, <1>17, <1>18 DEF Attempts

\* A prompt that is delivered, or cannot be.
LEMMA DeliveryKeepsAttempts ==
    ASSUME TypeInv, RoundOK, TurnOK, Attempts, NEW k \in Tasks, RoundEnsures(k) \/ RoundSends(k)
    PROVE  Attempts'
<1>0. /\ task \in [Tasks -> Starts] /\ MemInv /\ t \in Memories /\ FlightOK(t)
      /\ task[k].at \in {"ensure", "send"} /\ tried' = tried
      /\ UNCHANGED <<driver, client, report>>
  BY DEF TypeInv, StartInv, MemInv, RoundEnsures, RoundSends, observers
<1>1. t.flight.open /\ t.exists /\ k \in Working
  BY <1>0, WorkingIs DEF Sending, RoundOK, InRound
<1>2. ~t.flight.submitted /\ reviewer.status # "running"
  BY <1>1 DEF TurnOK, Unsent
<1>3. /\ Free.at = "none" /\ Seen(Free.sight)
  BY StartsTyped, NotScannedSeen
<1>4. CASE RoundFails(k)
  <2> DEFINE y == RoundFailed(t)
  <2>1. Settle(y) /\ task' = [task EXCEPT ![k] = Free]
    BY <1>1, <1>4 DEF RoundFails
  <2>2. /\ y \in Memories /\ FlightOK(y) /\ Closed(t, y)
        /\ y.failure.origin = "round" /\ y.failure.code = t.roundCode
    BY <1>0, RoundFailedTyped
  <2> HIDE DEF y
  <2>3. y.exists
    BY <1>1, <2>2 DEF Closed
  <2>4. Kept(y, t') /\ t'.failure = y.failure /\ Persists(t', saved')
    BY <1>0, <2>1, <2>2, <2>3, SettledMemory
  <2>5. Closed(t, t')
    BY <2>2, <2>4 DEF Kept, Closed
  <2>6. RecallOK' /\ MemoryOK'
    BY <1>0, <1>1, <2>2, <2>4, <2>5, RecallClosed DEF Attempts
  <2>7. DriverOK'
    BY <1>0, <1>2, <2>5, DriverKept DEF Attempts, Closed
  <2>8. SightsOK'
    BY <1>0, <1>3, <2>1, SightsKept DEF Attempts
  <2>9. AttemptOK'
    <3>1. \A j \in Tasks : task'[j] = IF j = k THEN Free ELSE task[j]
      BY <1>0, <2>1
    <3>2. \A j \in Tasks : Allowed(j)' => Allowed(j)
      BY <1>3, <3>1 DEF Allowed
    <3>3. t'.pending = t.pending
      BY <2>5 DEF Closed
    <3>4. saved'.pending = t'.pending
      BY <2>4 DEF Persists
    <3>5. QED  BY <1>0, <3>2, <3>3, <3>4 DEF Attempts, AttemptOK
  <2>10. QED  BY <2>6, <2>7, <2>8, <2>9 DEF Attempts
<1>5. CASE RoundEnsures(k) /\ ~RoundFails(k)
  <2> DEFINE r == [task[k] EXCEPT !.at = "send"]
  <2>1. /\ t' = [Touched EXCEPT !.reviewer = TRUE, !.flight.named = t.flight.open]
        /\ task' = [task EXCEPT ![k].at = "send"]
        /\ UNCHANGED saved
    BY <1>5 DEF RoundEnsures
  <2>2. SameMemory(t, t') /\ t'.pending = t.pending /\ RowFollows
    <3>1. /\ t'.flight.open = t.flight.open /\ t'.flight.submitted = t.flight.submitted
          /\ t'.roundCode = t.roundCode /\ t'.reviewed = t.reviewed
          /\ t'.failure = t.failure /\ t'.exists /\ t'.pending = t.pending
      BY <1>0, <1>1, <2>1 DEF Touched, Memories
    <3>2. QED  BY <2>1, <3>1 DEF SameMemory, RowFollows
  <2>3. task' = [task EXCEPT ![k] = r]
    BY <1>0, <2>1
  <2>4. r.at = "send" /\ r.sight = task[k].sight
    BY <1>0 DEF Starts
  <2>5. Seen(task[k].sight)
    BY DEF Attempts, SightsOK
  <2> HIDE DEF r
  <2>6. QED  BY <1>0, <2>2, <2>3, <2>4, <2>5, TaskKeepsAttempts
<1>6. CASE RoundSends(k) /\ ~RoundFails(k)
  <2>1. task' = [task EXCEPT ![k] = Free] /\ Settle(t)
    BY <1>6 DEF RoundSends
  <2>2. RowFollows /\ t'.failure = t.failure /\ Kept(t, t')
    BY <1>0, <2>1, SettleFollows
  <2>3. SameMemory(t, t') /\ t'.pending = t.pending
    BY <2>2 DEF SameMemory, Kept
  <2>4. QED  BY <1>0, <1>3, <2>1, <2>2, <2>3, TaskKeepsAttempts
<1>7. QED  BY <1>4, <1>5, <1>6

\* A step that leaves the starts and the driver alone.
LEMMA MemoryKeepsAttempts ==
    ASSUME Attempts, SameMemory(t, t'), t'.pending = t.pending, RowFollows,
           tried' \in {tried, None}, UNCHANGED task,
           DriverOK', Seen(driver.sight)', Seen(client.sight)', Seen(report.sight)'
    PROVE  Attempts'
<1>1. \A k \in Tasks : Allowed(k)' => Allowed(k)
  BY DEF Allowed
<1>2. AttemptOK'
  BY <1>1, AttemptKept DEF Attempts
<1>3. RecallOK' /\ MemoryOK'
  BY RecallKept DEF Attempts
<1>4. SightsOK'
  BY DEF Attempts, SightsOK, Seen
<1>5. QED  BY <1>2, <1>3, <1>4 DEF Attempts

\* A status event: a round it ends leaves its code reviewed, or failed.
LEMMA HearingKeepsAttempts ==
    ASSUME TypeInv, RoundOK, Attempts, Unfailing, DriverHears
    PROVE  Attempts'
<1> DEFINE ev == events[1]
           x == OnReviewerStatus(t, ev[2])
<1>1. /\ events # <<>> /\ events \in Seq(Events) /\ driver.at = "rest" /\ tried' = tried
      /\ UNCHANGED <<task, client, report>>
      /\ t \in Memories /\ FlightOK(t) /\ MemInv
  BY DEF DriverHears, TypeInv, MemInv, RestInv, observers
<1>2. Head(events) = ev /\ ev \in Events
  BY <1>1, EventTaken
<1>3. /\ \/ UNCHANGED driver
         \/ DriverReads("scanned", FALSE)
      /\ IF ev[1] = "coder" \/ ~t.flight.named THEN UNCHANGED <<t, saved>>
         ELSE IF x.flight.open THEN t' = x /\ UNCHANGED saved ELSE Settle(x)
  BY <1>2 DEF DriverHears
<1> HIDE DEF ev
<1>4. DriverOK' /\ Seen(driver.sight)' /\ Seen(client.sight)' /\ Seen(report.sight)'
  <2>1. Seen(client.sight)' /\ Seen(report.sight)'
    BY <1>1 DEF Attempts, SightsOK, Seen
  <2>2. CASE UNCHANGED driver
    BY <1>1, <2>1, <2>2 DEF DriverOK, Attempts, SightsOK, Seen
  <2>3. CASE DriverReads("scanned", FALSE)
    <3>1. PICK s \in SightsNow(FALSE) : driver' = [at |-> "scanned", sight |-> s]
      BY <2>3 DEF DriverReads
    <3>2. s.kind = "read" /\ Seen(s)
      BY SightSeen
    <3>3. driver'.at = "scanned" /\ driver'.sight = s
      BY <3>1
    <3>4. QED  BY <2>1, <3>2, <3>3 DEF DriverOK, Seen
  <2>4. QED  BY <1>3, <2>2, <2>3
<1>5. CASE UNCHANGED <<t, saved>>
  <2>1. SameMemory(t, t') /\ t'.pending = t.pending /\ RowFollows
    BY <1>5 DEF SameMemory, RowFollows
  <2>2. QED  BY <1>1, <1>4, <2>1, MemoryKeepsAttempts
<1>6. CASE /\ ev[1] # "coder" /\ t.flight.named
           /\ IF x.flight.open THEN t' = x /\ UNCHANGED saved ELSE Settle(x)
  <2>1. ev[2] \in {"idle", "error", "running"} /\ t.flight.open /\ t.exists
    BY <1>1, <1>2, <1>6, EventKinds DEF FlightOK, RoundOK, InRound
  <2>2. /\ x \in Memories /\ FlightOK(x)
        /\ ev[2] = "idle" /\ ~t.flight.saw => x = t
        /\ ev[2] = "error" \/ (ev[2] = "idle" /\ t.flight.saw) => Closed(t, x)
        /\ t.flight.submitted => \/ x.failure = t.failure
                                 \/ x.failure.origin = "round" /\ x.failure.code = t.roundCode
        /\ t.flight.open /\ ~t.flight.submitted /\ ~x.flight.open =>
              x.failure.origin = "round" /\ x.failure.code = t.roundCode
        /\ ev[2] = "running" => x = [t EXCEPT !.flight.saw = TRUE]
    BY <1>1, <1>6, <2>1, StatusTyped
  <2> HIDE DEF x
  <2>3. CASE Closed(t, x)
    <3>1. ~x.flight.open /\ x.exists
      BY <2>1, <2>3, NoFlightTyped DEF Closed
    <3>2. Settle(x)
      BY <1>6, <3>1
    <3>3. Kept(x, t') /\ t'.failure = x.failure /\ Persists(t', saved')
      BY <1>1, <2>2, <3>1, <3>2, SettledMemory
    <3>4. Closed(t, t')
      BY <2>3, <3>3 DEF Kept, Closed
    <3>5. \/ x.failure = t.failure /\ t.flight.submitted
          \/ x.failure.origin = "round" /\ x.failure.code = t.roundCode
      BY <2>1, <2>2, <3>1
    <3>6. RecallOK' /\ MemoryOK'
      BY <1>1, <2>1, <3>3, <3>4, <3>5, RecallClosed DEF Attempts
    <3>7. AttemptOK'
      <4>1. \A j \in Tasks : Allowed(j)' <=> Allowed(j)
        BY <1>1 DEF Allowed
      <4>2. t'.pending = t.pending /\ saved'.pending = t.pending
        BY <3>3, <3>4 DEF Closed, Persists
      <4>3. QED  BY <1>1, <4>1, <4>2 DEF Attempts, AttemptOK
    <3>8. SightsOK'
      BY <1>1, <1>4 DEF Attempts, SightsOK, Seen
    <3>9. QED  BY <1>4, <3>6, <3>7, <3>8 DEF Attempts
  <2>4. CASE ~Closed(t, x)
    <3>1. SameMemory(t, x) /\ x.pending = t.pending /\ x.flight.open
      <4>1. CASE x = t
        BY <2>1, <4>1 DEF SameMemory
      <4>2. CASE x = [t EXCEPT !.flight.saw = TRUE]
        <5>1. x.flight = [t.flight EXCEPT !.saw = TRUE]
          BY <1>1, <4>2 DEF Memories
        <5>2. x.flight.open = t.flight.open /\ x.flight.submitted = t.flight.submitted
          BY <1>1, <5>1 DEF Memories
        <5>3. /\ x.roundCode = t.roundCode /\ x.reviewed = t.reviewed
              /\ x.failure = t.failure /\ x.exists = t.exists /\ x.pending = t.pending
          BY <1>1, <4>2 DEF Memories
        <5>4. QED  BY <2>1, <5>2, <5>3 DEF SameMemory
      <4>3. QED  BY <2>1, <2>2, <2>4, <4>1, <4>2
    <3>2. t' = x /\ UNCHANGED saved
      BY <1>6, <3>1
    <3>3. RowFollows
      BY <3>2 DEF RowFollows
    <3>4. QED  BY <1>1, <1>4, <3>1, <3>2, <3>3, MemoryKeepsAttempts
  <2>5. QED  BY <2>3, <2>4
<1>7. QED  BY <1>3, <1>5, <1>6

\* The scan, the ticks and their reads.
LEMMA DrainStepsKeepAttempts ==
    ASSUME TypeInv, Attempts, Unfailing, DriverScanned \/ DriverTicks \/ TickReadsFull
    PROVE  Attempts'
<1>0. /\ t \in Memories /\ FlightOK(t) /\ MemInv /\ MemoryOK /\ StartInv
      /\ driver.sight \in Sights /\ Seen(driver.sight)
      /\ UNCHANGED <<client, report>>
  BY DEF TypeInv, MemInv, RestInv, Attempts, SightsOK, DriverScanned, DriverTicks, TickReadsFull
<1>1. Seen(client.sight)' /\ Seen(report.sight)'
  BY <1>0 DEF Attempts, SightsOK, Seen
<1>2. CASE DriverScanned
  <2> DEFINE x == IF t.exists THEN RecordSighting(t, driver.sight) ELSE t
  <2>1. /\ Settle(Drained(x)) /\ task' = DrainTasks(x) /\ Shown(driver.sight)
        /\ driver' = Resting
    BY <1>2 DEF DriverScanned
  <2>2. /\ x \in Memories /\ FlightOK(x) /\ Kept(t, x) /\ x.failure = t.failure
        /\ tried' \in {tried, None}
    BY <1>0, <2>1, LookFacts
  <2> HIDE DEF x
  <2>3. Drained(x) \in Memories /\ FlightOK(Drained(x))
    BY <1>0, <2>2, DrainedCases
  <2>4. RowFollows /\ t'.failure = Drained(x).failure /\ Kept(Drained(x), t')
    BY <1>0, <2>1, <2>3, SettleFollows
  <2>5. /\ AttemptOK' /\ RecallOK' /\ MemoryOK'
        /\ \A k \in Tasks : /\ Seen(task'[k].sight)
                            /\ task'[k].at \in {"pr", "begin"} => task'[k].sight.kind = "read"
    BY <2>1, <2>2, <2>4, DrainKeepsAttempts
  <2>6. driver'.at = "rest" /\ Seen(driver.sight)'
    BY <2>1, NotScannedSeen DEF Resting, Seen
  <2>7. DriverOK'
    BY <2>6 DEF DriverOK
  <2>8. SightsOK'
    BY <1>1, <2>5, <2>6 DEF SightsOK, Seen
  <2>9. QED  BY <2>5, <2>7, <2>8 DEF Attempts
<1>3. CASE DriverTicks
  <2> DEFINE y == Drained(t)
  <2>1. /\ task' = DrainTasks(t) /\ tried' = tried /\ t.exists
        /\ \/ DriverReads("polled", FALSE) /\ t' = y /\ UNCHANGED saved
           \/ Settle(y) /\ UNCHANGED driver /\ driver.at = "rest"
    BY <1>3 DEF DriverTicks, TickStarts, DriverPolls, Unfailing, Trouble, MayHappen, observers
  <2>2. y \in Memories /\ FlightOK(y)
    BY <1>0, DrainedCases
  <2>3. RowFollows /\ t'.failure = y.failure /\ Kept(y, t')
    <3>1. CASE t' = y /\ UNCHANGED saved
      BY <3>1 DEF RowFollows, Kept
    <3>2. CASE Settle(y)
      BY <1>0, <2>2, <3>2, SettleFollows
    <3>3. QED  BY <2>1, <3>1, <3>2
  <2>4. Kept(t, t)
    BY DEF Kept
  <2>5. /\ AttemptOK' /\ RecallOK' /\ MemoryOK' /\ SameMemory(t, t')
        /\ \A k \in Tasks : /\ Seen(task'[k].sight)
                            /\ task'[k].at \in {"pr", "begin"} => task'[k].sight.kind = "read"
    BY <1>0, <2>1, <2>3, <2>4, DrainKeepsAttempts
  <2>6. DriverOK' /\ Seen(driver.sight)'
    <3>1. CASE UNCHANGED driver /\ driver.at = "rest"
      BY <1>0, <3>1 DEF DriverOK, Seen
    <3>2. CASE DriverReads("polled", FALSE)
      <4>1. PICK s \in SightsNow(FALSE) : driver' = [at |-> "polled", sight |-> s]
        BY <3>2 DEF DriverReads
      <4>2. /\ s.kind = "read" /\ Seen(s)
            /\ s.read \in Skipped => s.read.cheap # t.reviewed.cheap
        BY SightSeen
      <4>3. driver'.at = "polled" /\ driver'.sight = s /\ t'.reviewed = t.reviewed
        BY <2>5, <4>1 DEF SameMemory
      <4>4. QED  BY <4>2, <4>3 DEF DriverOK, Seen
    <3>3. QED  BY <2>1, <3>1, <3>2
  <2>7. SightsOK'
    BY <1>1, <2>5, <2>6 DEF SightsOK, Seen
  <2>8. QED  BY <2>5, <2>6, <2>7 DEF Attempts
<1>4. CASE TickReadsFull
  <2>1. DriverReads("gated", TRUE) /\ UNCHANGED <<t, saved, task, tried>>
    BY <1>4 DEF TickReadsFull, observers
  <2>2. PICK s \in SightsNow(TRUE) : driver' = [at |-> "gated", sight |-> s]
    BY <2>1 DEF DriverReads
  <2>3. s.kind = "read" /\ Seen(s) /\ s.read \notin Skipped
    BY SightSeen
  <2>4. driver'.at = "gated" /\ driver'.sight = s
    BY <2>2
  <2>5. DriverOK' /\ Seen(driver.sight)'
    BY <2>3, <2>4 DEF DriverOK, Seen
  <2>6. SameMemory(t, t') /\ t'.pending = t.pending /\ RowFollows
    BY <2>1 DEF SameMemory, RowFollows
  <2>7. QED  BY <1>1, <2>1, <2>5, <2>6, MemoryKeepsAttempts
<1>5. QED  BY <1>2, <1>3, <1>4

\* What the gate allows is code that the read has told from the code last tried.
LEMMA GateTells ==
    ASSUME TypeInv, Attempts, Unfailing, driver.at \in {"polled", "gated"},
           Shown(driver.sight), t.exists, ~InRound(t),
           NEW x, x = RecordSighting(t, driver.sight), AutomaticReview(x) = "allow"
    PROVE  tried' = None
<1> DEFINE s == driver.sight
<1>1. /\ s \in Sights /\ s.kind = "read" /\ Seen(s) /\ t \in Memories /\ FlightOK(t)
      /\ MemInv /\ MemoryOK
  BY DEF TypeInv, RestInv, MemInv, Attempts, DriverOK, SightsOK
<1>2. Kept(t, x) /\ x.failure = t.failure /\ x.lastRead = s.read
  BY <1>1, Sighted DEF MemoryOK, Seen
<1>3. tried' = IF Identity(s.read, tried) = "different" THEN None ELSE tried
  BY <1>1 DEF Shown
<1>4. SUFFICES ASSUME tried # None PROVE Identity(s.read, tried) = "different"
  BY <1>3
<1>5. t.reviewed = tried \/ t.failure.code = tried
  BY <1>4 DEF InRound, Attempts, RecallOK, Recalled
<1>6. CASE x.failure.code # None
  <2>1. Identity(s.read, x.failure.code) = "different"
    BY <1>2, <1>6 DEF AutomaticReview
  <2>2. t.failure.code = t.roundCode /\ t.roundCode = tried
    BY <1>2, <1>4, <1>6 DEF Attempts, MemoryOK, RecallOK
  <2>3. QED  BY <1>2, <2>1, <2>2
<1>7. CASE x.failure.code = None
  <2>1. x.reviewed = tried
    BY <1>2, <1>4, <1>5, <1>7 DEF Kept
  <2>2. Identity(s.read, tried) # "same"
    BY <1>2, <1>4, <2>1 DEF AutomaticReview
  <2>3. Identity(s.read, tried) # "unknown"
    <3>1. t.reviewed = tried
      BY <1>2, <2>1 DEF Kept
    <3>2. ~t.flight.submitted
      BY <1>1 DEF FlightOK, InRound
    <3>3. s.read \in Skipped => s.read.cheap # tried.cheap
      BY <3>1, <3>2 DEF Attempts, DriverOK
    <3>4. s.read \in Reads
      BY <1>1 DEF Sights, NotScanned, Unreadable
    <3>5. s.read.content = "skipped" => s.read \in Skipped
      BY <3>4, ReadsApart DEF Reads
    <3>6. QED  BY <3>3, <3>5 DEF Identity
  <2>4. QED  BY <2>2, <2>3 DEF Identity
<1>8. QED  BY <1>6, <1>7

\* The gate of the automatic re-review.
LEMMA GateKeepsAttempts ==
    ASSUME TypeInv, RoundOK, Attempts, Unfailing, TickGates
    PROVE  Attempts'
<1> DEFINE x == IF t.exists THEN RecordSighting(t, driver.sight) ELSE t
           q == [Free EXCEPT !.at = "start", !.trigger = "re-review"]
<1>0. /\ t \in Memories /\ FlightOK(t) /\ MemInv /\ MemoryOK /\ task \in [Tasks -> Starts]
      /\ driver.sight \in Sights /\ Seen(driver.sight) /\ driver.at \in {"polled", "gated"}
      /\ Settle(x) /\ Shown(driver.sight) /\ UNCHANGED <<client, report>>
  BY DEF TypeInv, MemInv, RestInv, StartInv, Attempts, SightsOK, TickGates
<1>1. /\ x \in Memories /\ FlightOK(x) /\ Kept(t, x) /\ x.failure = t.failure
      /\ tried' \in {tried, None}
  BY <1>0, LookFacts
<1>2. \/ UNCHANGED task
      \/ /\ x.exists /\ ~InRound(x) /\ x.pending = "none" /\ AutomaticReview(x) = "allow"
         /\ \A k \in Tasks : task[k].at # "start"
         /\ \E k \in Tasks : task[k].at = "none" /\ task' = [task EXCEPT ![k] = q]
  BY Zenon DEF TickGates
<1>3. driver' = Resting \/ driver' = [Resting EXCEPT !.at = "full"]
  BY DEF TickGates
<1>4. t.exists => x = RecordSighting(t, driver.sight)
  OBVIOUS
<1>5. /\ q.at = "start" /\ q.trigger = "re-review" /\ q.sight = NotScanned
  BY StartsTyped DEF Starters
<1> HIDE DEF x, q
<1>6. DriverOK' /\ Seen(driver.sight)' /\ Seen(client.sight)' /\ Seen(report.sight)'
  <2>1. driver'.at \in {"rest", "full"} /\ driver'.sight = NotScanned
    BY <1>3 DEF Resting
  <2>2. QED  BY <1>0, <2>1, NotScannedSeen DEF DriverOK, Attempts, SightsOK, Seen
<1>7. RowFollows /\ t'.failure = x.failure /\ Kept(x, t')
  BY <1>0, <1>1, SettleFollows
<1>8. SameMemory(t, t') /\ t'.pending = t.pending
  BY <1>1, <1>7 DEF Kept, SameMemory
<1>9. CASE UNCHANGED task
  BY <1>1, <1>6, <1>7, <1>8, <1>9, MemoryKeepsAttempts
<1>10. CASE /\ x.exists /\ ~InRound(x) /\ x.pending = "none" /\ AutomaticReview(x) = "allow"
            /\ \A k \in Tasks : task[k].at # "start"
            /\ \E k \in Tasks : task[k].at = "none" /\ task' = [task EXCEPT ![k] = q]
  <2>1. PICK k \in Tasks : task' = [task EXCEPT ![k] = q]
    BY <1>10
  <2>2. t.exists /\ ~InRound(t) /\ t.pending = "none"
    BY <1>1, <1>10 DEF Kept, InRound
  <2>3. tried' = None
    BY <1>0, <1>4, <1>10, <2>2, GateTells
  <2>4. \A j \in Tasks : task'[j] = IF j = k THEN q ELSE task[j]
    BY <1>0, <2>1
  <2>5. \A j \in Tasks : ~Allowed(j)
    BY <1>10, <2>2 DEF Allowed, RoundOK, Claiming, InRound
  <2>6. \A j \in Tasks : Allowed(j)' => j = k
    BY <2>4, <2>5 DEF Allowed
  <2>7. AttemptOK'
    BY <1>8, <2>2, <2>3, <2>6 DEF AttemptOK
  <2>8. RecallOK' /\ MemoryOK'
    BY <1>1, <1>7, <1>8, RecallKept DEF Attempts
  <2>9. SightsOK'
    <3>1. \A j \in Tasks : /\ Seen(task'[j].sight)
                           /\ task'[j].at \in {"pr", "begin"} => task'[j].sight.kind = "read"
      BY <1>5, <2>4, NotScannedSeen DEF Attempts, SightsOK
    <3>2. QED  BY <1>6, <3>1 DEF SightsOK, Seen
  <2>10. QED  BY <1>6, <2>7, <2>8, <2>9 DEF Attempts
<1>11. QED  BY <1>2, <1>9, <1>10

\* Reports and looks.
LEMMA LooksKeepAttempts ==
    ASSUME TypeInv, Attempts, Unfailing,
           ReviewerSubmits \/ ReportLooks \/ ReportLooked \/ ClientLooks \/ ClientLooked
    PROVE  Attempts'
<1>0. /\ t \in Memories /\ FlightOK(t) /\ MemInv /\ MemoryOK
      /\ report.sight \in Sights /\ client.sight \in Sights
      /\ Seen(driver.sight) /\ Seen(client.sight) /\ Seen(report.sight)
      /\ UNCHANGED <<task, driver>>
  BY DEF TypeInv, MemInv, RestInv, Attempts, SightsOK, ReviewerSubmits, ReportLooks,
         ReportLooked, ClientLooks, ClientLooked
<1>1. CASE ReviewerSubmits
  <2>1. /\ t' = [t EXCEPT !.flight.submitted = TRUE, !.reviewed = t.roundCode]
        /\ t.flight.open /\ UNCHANGED <<saved, client, tried>>
        /\ report' = [report EXCEPT !.at = "look"]
    BY <1>0, <1>1 DEF ReviewerSubmits, FlightOK
  <2>2. /\ t'.exists = t.exists /\ t'.roundCode = t.roundCode /\ t'.reviewed = t.roundCode
        /\ t'.failure = t.failure /\ t'.flight.open /\ t'.flight.submitted
        /\ t'.pending = t.pending
    BY <1>0, <2>1 DEF Memories
  <2>3. report'.sight = report.sight
    BY <2>1 DEF TypeInv, RestInv
  <2>4. RecallOK' /\ MemoryOK'
    BY <2>1, <2>2 DEF Attempts, RecallOK, MemoryOK, Recalled
  <2>5. DriverOK'
    BY <1>0, <2>2 DEF Attempts, DriverOK
  <2>6. SightsOK'
    BY <1>0, <2>1, <2>3 DEF Attempts, SightsOK, Seen
  <2>7. AttemptOK'
    BY <1>0, <2>1, <2>2 DEF Attempts, AttemptOK, Allowed
  <2>8. QED  BY <2>4, <2>5, <2>6, <2>7 DEF Attempts
<1>2. ASSUME UNCHANGED <<t, saved, tried>>,
             Seen(client.sight)', Seen(report.sight)'
      PROVE  Attempts'
  <2>1. SameMemory(t, t') /\ t'.pending = t.pending /\ RowFollows
    BY <1>2 DEF SameMemory, RowFollows
  <2>2. DriverOK' /\ Seen(driver.sight)'
    BY <1>0, <1>2 DEF Attempts, DriverOK, Seen
  <2>3. QED  BY <1>0, <1>2, <2>1, <2>2, MemoryKeepsAttempts
<1>3. CASE ReportLooks
  <2>1. PICK s \in SightsNow(TRUE) : report' = [at |-> "seen", sight |-> s]
    BY <1>3 DEF ReportLooks
  <2>2. Seen(s) /\ report'.sight = s
    BY <2>1, SightSeen
  <2>3. UNCHANGED <<t, saved, tried, client>>
    BY <1>3 DEF ReportLooks, observers
  <2>4. Seen(client.sight)' /\ Seen(report.sight)'
    BY <1>0, <2>2, <2>3 DEF Seen
  <2>5. QED  BY <1>2, <2>3, <2>4
<1>4. CASE ClientLooks
  <2>1. PICK s \in SightsNow(FALSE) : client' = [at |-> "seen", sight |-> s]
    BY <1>4 DEF ClientLooks
  <2>2. Seen(s) /\ client'.sight = s
    BY <2>1, SightSeen
  <2>3. UNCHANGED <<t, saved, tried, report>>
    BY <1>4 DEF ClientLooks, observers
  <2>4. Seen(client.sight)' /\ Seen(report.sight)'
    BY <1>0, <2>2, <2>3 DEF Seen
  <2>5. QED  BY <1>2, <2>3, <2>4
<1>5. ASSUME NEW s \in Sights, Seen(s), Shown(s),
             Settle(IF t.exists THEN RecordSighting(t, s) ELSE t),
             Seen(client.sight)', Seen(report.sight)'
      PROVE  Attempts'
  <2> DEFINE x == IF t.exists THEN RecordSighting(t, s) ELSE t
  <2>1. /\ x \in Memories /\ FlightOK(x) /\ Kept(t, x) /\ x.failure = t.failure
        /\ tried' \in {tried, None}
    BY <1>0, <1>5, LookFacts
  <2>2. Settle(x)
    BY <1>5
  <2> HIDE DEF x
  <2>3. RowFollows /\ t'.failure = x.failure /\ Kept(x, t')
    BY <1>0, <2>1, <2>2, SettleFollows
  <2>4. SameMemory(t, t') /\ t'.pending = t.pending
    BY <2>1, <2>3 DEF Kept, SameMemory
  <2>5. DriverOK' /\ Seen(driver.sight)'
    BY <1>0, <2>4, DriverKept DEF Attempts, SameMemory, Seen
  <2>6. QED  BY <1>0, <1>5, <2>1, <2>3, <2>4, <2>5, MemoryKeepsAttempts
<1>6. CASE ReportLooked
  <2>1. /\ Settle(IF t.exists THEN RecordSighting(t, report.sight) ELSE t)
        /\ Shown(report.sight) /\ report' = [at |-> "none", sight |-> NotScanned]
        /\ UNCHANGED client
    BY <1>6 DEF ReportLooked
  <2>2. Seen(client.sight)' /\ Seen(report.sight)'
    BY <1>0, <2>1, NotScannedSeen DEF Seen
  <2>3. QED  BY <1>0, <1>5, <2>1, <2>2
<1>7. CASE ClientLooked
  <2>1. /\ Settle(IF t.exists THEN RecordSighting(t, client.sight) ELSE t)
        /\ Shown(client.sight) /\ client' = [at |-> "none", sight |-> NotScanned]
        /\ UNCHANGED report
    BY <1>7 DEF ClientLooked
  <2>2. Seen(client.sight)' /\ Seen(report.sight)'
    BY <1>0, <2>1, NotScannedSeen DEF Seen
  <2>3. QED  BY <1>0, <1>5, <2>1, <2>2
<1>8. QED  BY <1>1, <1>3, <1>4, <1>6, <1>7

\* What a restart finds is remembered.
LEMMA RestartKeepsAttempts ==
    ASSUME TypeInv, Attempts, Restart
    PROVE  Attempts'
<1>1. /\ t' = Loaded(saved) /\ task' = [k \in Tasks |-> Free]
      /\ driver' = Resting /\ client' = NoLook /\ report' = NoLook
      /\ saved' = saved /\ tried' = tried
  BY DEF Restart, observers
<1>2. /\ t'.flight = NoFlight
      /\ saved.exists => /\ t'.exists /\ t'.roundCode = saved.roundCode
                         /\ t'.reviewed = saved.reviewed /\ t'.pending = saved.pending
                         /\ saved.phase # "reviewing" => t'.failure = saved.failure
                         /\ saved.phase = "reviewing" => /\ t'.failure.origin = "restart"
                                                         /\ t'.failure.code = saved.roundCode
      /\ ~saved.exists => t' = Untracked
  BY <1>1, LoadedTyped DEF TypeInv, MemInv
<1>3. RecallOK'
  BY <1>1, <1>2 DEF Attempts, RecallOK, Recalled
<1>4. MemoryOK'
  <2>1. NoFailure.origin = "none" /\ NoFailure.code = None
    BY DEF NoFailure
  <2>2. QED  BY <1>1, <1>2, <2>1, NoFlightTyped, FreshTyped DEF Attempts, MemoryOK
<1>5. \A k \in Tasks : task'[k].at = "none" /\ task'[k].sight = NotScanned
  BY <1>1, StartsTyped
<1>6. AttemptOK'
  <2>1. \A k \in Tasks : ~Allowed(k)'
    BY <1>5 DEF Allowed
  <2>2. t'.pending = "re-review" => saved.pending = "re-review"
    BY <1>2, FreshTyped
  <2>3. QED  BY <1>1, <2>1, <2>2 DEF Attempts, AttemptOK
<1>7. DriverOK' /\ SightsOK'
  <2>1. driver'.at = "rest" /\ driver'.sight = NotScanned
        /\ client'.sight = NotScanned /\ report'.sight = NotScanned
    BY <1>1 DEF Resting, NoLook
  <2>2. QED  BY <1>5, <2>1, NotScannedSeen DEF DriverOK, SightsOK, Seen
<1>8. QED  BY <1>3, <1>4, <1>6, <1>7 DEF Attempts

\* Steps that leave the memory, the starts and the looks alone.
LEMMA WorldKeepsAttempts ==
    ASSUME Attempts,
           \/ \E status \in {"idle", "error"} : ReviewerTurnEnds(status)
           \/ CodeMoves \/ CoderTurnStarts \/ CoderTurnEnds
           \/ DelegationAdmitted \/ DelegationEnds \/ UNCHANGED vars
    PROVE  Attempts'
<1>1. UNCHANGED <<t, saved, task, driver, client, report, tried>>
  BY DEF ReviewerTurnEnds, CodeMoves, CoderTurnStarts, CoderTurnEnds, DelegationAdmitted,
         DelegationEnds, vars, observers
<1>2. SameMemory(t, t') /\ t'.pending = t.pending /\ RowFollows
  BY <1>1 DEF SameMemory, RowFollows
<1>3. DriverOK' /\ Seen(driver.sight)' /\ Seen(client.sight)' /\ Seen(report.sight)'
  BY <1>1 DEF Attempts, DriverOK, SightsOK, Seen
<1>4. QED  BY <1>1, <1>2, <1>3, MemoryKeepsAttempts

LEMMA AttemptStep ==
    ASSUME TypeInv, RoundInv, AttemptInv, Unfailing, [Next]_vars
    PROVE  AttemptInv'
<1>1. CASE coder = "gone"
  <2>1. coder' = "gone"
    <3>1. CASE UNCHANGED vars
      BY <1>1, <3>1 DEF vars, world
    <3>2. CASE Next
      BY <1>1, <3>2, GoneStep DEF RoundInv, GoneInv, Unclaimed
    <3>3. QED  BY <3>1, <3>2
  <2>2. QED  BY <2>1 DEF AttemptInv
<1>2. CASE coder # "gone"
  <2>1. RoundOK /\ TurnOK /\ Attempts
    BY <1>2 DEF RoundInv, AttemptInv
  <2>2. SUFFICES Attempts' \/ coder' = "gone"
    BY DEF AttemptInv
  <2>3. /\ ~UserStops /\ ~StopInterrupts /\ ~StopClears
        /\ ~DriverResyncs /\ ~TickTimesOut
    BY DEF RoundInv, Unfailing, Undisturbed, UserStops, StopInterrupts, StopClears,
           DriverResyncs, TickTimesOut, Trouble, MayHappen
  <2>4. ASSUME NEW k \in Tasks, TaskStep(k) \/ UserStarts(k) \/ PrOpens(k)
        PROVE  Attempts'
    BY <1>2, <2>1, <2>4, StartStepsKeepAttempts, BeginKeepsAttempts, DeliveryKeepsAttempts
       DEF TaskStep
  <2>5. ASSUME DriverStep PROVE Attempts'
    BY <2>1, <2>3, <2>5, HearingKeepsAttempts, DrainStepsKeepAttempts, GateKeepsAttempts
       DEF DriverStep
  <2>6. ASSUME ReviewerSubmits \/ ReportLooks \/ ReportLooked \/ ClientLooks \/ ClientLooked
        PROVE  Attempts'
    BY <2>1, <2>6, LooksKeepAttempts
  <2>7. ASSUME Restart PROVE Attempts'
    BY <2>1, <2>7, RestartKeepsAttempts
  <2>8. ASSUME CoderGoes PROVE coder' = "gone"
    BY <2>8 DEF CoderGoes
  <2>9. ASSUME \/ \E status \in {"idle", "error"} : ReviewerTurnEnds(status)
               \/ CodeMoves \/ CoderTurnStarts \/ CoderTurnEnds
               \/ DelegationAdmitted \/ DelegationEnds \/ UNCHANGED vars
        PROVE  Attempts'
    BY <2>1, <2>9, WorldKeepsAttempts
  <2>10. QED  BY <2>3, <2>4, <2>5, <2>6, <2>7, <2>8, <2>9 DEF Next
<1>3. QED  BY <1>1, <1>2

LEMMA AttemptInit == Init => AttemptInv
<1> SUFFICES ASSUME Init PROVE AttemptInv
  OBVIOUS
<1>1. /\ t = Untracked /\ saved = Untracked /\ tried = None
      /\ task = [k \in Tasks |-> Free]
      /\ driver = Resting /\ client = NoLook /\ report = NoLook
  BY DEF Init
<1>2. \A k \in Tasks : task[k].at = "none" /\ task[k].sight = NotScanned
  BY <1>1, StartsTyped
<1>3. /\ driver.at = "rest" /\ driver.sight = NotScanned
      /\ client.sight = NotScanned /\ report.sight = NotScanned
  BY <1>1 DEF Resting, NoLook
<1>4. NoFailure.origin = "none" /\ NoFailure.code = None
  BY DEF NoFailure
<1>5. DriverOK /\ SightsOK
  BY <1>2, <1>3, NotScannedSeen DEF DriverOK, SightsOK, Seen
<1>6. AttemptOK /\ RecallOK
  BY <1>1, <1>2 DEF AttemptOK, RecallOK, Allowed
<1>7. MemoryOK
  BY <1>1, <1>4, FreshTyped, NoFlightTyped DEF MemoryOK
<1>8. QED  BY <1>5, <1>6, <1>7 DEF AttemptInv, Attempts

\* No round begins for a coder that is gone.
LEMMA GoneBegins ==
    ASSUME TypeInv, coder = "gone", [Next]_vars, NEW k \in Tasks, task[k].at = "begin"
    PROVE  task'[k].at # "ensure"
<1>0. task \in [Tasks -> Starts] /\ Free.at = "none" /\ StartInv
  BY StartsTyped DEF TypeInv, StartInv
<1>1. CASE task'[k] = task[k]
  BY <1>1
<1>2. ASSUME NEW j \in Tasks, TaskStep(j) \/ UserStarts(j) \/ PrOpens(j)
      PROVE  task'[k].at # "ensure"
  <2>1. CASE RoundBegins(j)
    <3>1. task' = [task EXCEPT ![j] = Free]
      BY <2>1 DEF RoundBegins
    <3>2. QED  BY <1>0, <3>1
  <2>2. CASE UserStarts(j) \/ StartRuns(j)
    BY <1>0, <1>1, <2>2 DEF UserStarts, StartRuns, Start
  <2>3. CASE PrOpens(j)
    BY <1>0, <1>1, <2>3 DEF PrOpens, Start
  <2>4. CASE PrLooked(j) \/ RoundLooks(j)
    BY <1>0, <1>1, <2>4 DEF PrLooked, RoundLooks
  <2>5. CASE RoundEnsures(j) \/ RoundSends(j)
    BY <1>0, <1>1, <2>5 DEF RoundEnsures, RoundSends, RoundFails
  <2>6. QED  BY <1>2, <2>1, <2>2, <2>3, <2>4, <2>5 DEF TaskStep
<1>3. ASSUME NEW x, task' = DrainTasks(x)
      PROVE  task'[k].at # "ensure"
  <2>1. CASE Drains(x)
    <3> DEFINE j == CHOOSE j \in Tasks : task[j].at = "none"
    <3>1. j \in Tasks /\ task[j].at = "none"
      BY <2>1 DEF Drains
    <3>2. task' = [task EXCEPT ![j] = Claimed(x.pending, "queued")]
      BY <1>3, <2>1, Zenon DEF DrainTasks
    <3> HIDE DEF j
    <3>3. QED  BY <1>0, <1>1, <3>1, <3>2
  <2>2. CASE ~Drains(x)
    BY <1>1, <1>3, <2>2 DEF DrainTasks
  <2>3. QED  BY <2>1, <2>2
<1>4. CASE TickGates
  <2>1. \/ UNCHANGED task
        \/ \E j \in Tasks : /\ task[j].at = "none"
                            /\ task' = [task EXCEPT ![j] = [Free EXCEPT !.at = "start",
                                                              !.trigger = "re-review"]]
    BY <1>4, Zenon DEF TickGates
  <2>2. QED  BY <1>0, <1>1, <2>1
<1>5. CASE Restart
  <2>1. task'[k] = Free
    BY <1>5 DEF Restart
  <2>2. QED  BY <1>0, <2>1
<1>6. CASE DriverStep
  BY <1>1, <1>3, <1>4, <1>6 DEF DriverStep, DriverHears, DriverResyncs, DriverScanned,
     DriverTicks, TickTimesOut, TickStarts, TickReadsFull
<1>7. CASE UNCHANGED task
  BY <1>1, <1>7
<1>8. QED
  BY <1>2, <1>5, <1>6, <1>7 DEF Next, ReviewerSubmits, ReportLooks, ReportLooked, UserStops,
     StopInterrupts, StopClears, ClientLooks, ClientLooked, ReviewerTurnEnds, CodeMoves, CoderTurnStarts, CoderTurnEnds,
     DelegationAdmitted, DelegationEnds, CoderGoes, vars

\* The automatic re-review (engine.rs tick and automatic_review) tries a code
\* once: a second automatic round begins only after a read has shown other code,
\* across restarts, queued starts and rounds that failed.
THEOREM AutoOnce ==
    ASSUME Unfailing
    PROVE  Spec => AutoOncePerCode
<1>1. Undisturbed
  BY DEF Unfailing
<1>2. Spec => []AttemptInv
  <2>1. (TypeInv /\ RoundInv) /\ AttemptInv /\ [Next]_vars => AttemptInv'
    BY AttemptStep
  <2>2. QED  BY <1>1, <2>1, AttemptInit, RoundInvariant, PTL DEF Spec
<1>3. ASSUME TypeInv, RoundInv, AttemptInv, [Next]_vars,
             NEW k \in Tasks, task[k].at = "begin", task'[k].at = "ensure",
             task[k].trigger = "re-review"
      PROVE  task[k].sight.read # tried
  <2>1. task \in [Tasks -> Starts] /\ Allowed(k)
    BY <1>3 DEF TypeInv, StartInv, Allowed
  <2>2. coder # "gone"
    <3>1. SUFFICES ASSUME coder = "gone" PROVE FALSE
      OBVIOUS
    <3>2. ~InRound(t)
      BY <3>1, <1>3 DEF RoundInv, GoneInv
    <3>3. QED  BY <1>3, <2>1, <3>1, <3>2, GoneBegins
  <2>3. tried = None /\ task[k].sight.kind = "read" /\ Seen(task[k].sight)
    BY <1>3, <2>1, <2>2 DEF AttemptInv, Attempts, AttemptOK, SightsOK
  <2>4. task[k].sight \in Sights
    BY <2>1 DEF Starts
  <2>5. task[k].sight.read \in Reads
    BY <2>3, <2>4 DEF Sights, NotScanned, Unreadable
  <2>6. QED  BY <2>3, <2>5, ReadsApart
<1>4. (TypeInv /\ RoundInv) /\ AttemptInv /\ [Next]_vars =>
         [\A k \in Tasks :
            /\ task[k].at = "begin" /\ task'[k].at = "ensure"
            /\ task[k].trigger = "re-review"
            => task[k].sight.read # tried]_vars
  BY <1>3
<1>5. QED  BY <1>1, <1>2, <1>4, RoundInvariant, PTL DEF Spec, AutoOncePerCode

-----------------------------------------------------------------------------
(* 7. The budget of automatic rounds                                       *)

\* What a memory charges to the pull request is what the request has had.
Account(x) == IF x.prNumber = 0 THEN autos = 0 ELSE x.prRounds = autos

\* An automatic round the gate has allowed and that has not begun: a start, or
\* one queued in the memory or in its row.
Waits == t.pending = "re-review" \/ \E k \in Tasks : Allowed(k)
Ticket == Waits \/ saved.pending = "re-review"

OneTicket ==
    /\ \A j, k \in Tasks : Allowed(j) /\ Allowed(k) => j = k
    /\ \A k \in Tasks : Allowed(k) => t.pending # "re-review"
BudgetOK ==
    /\ OneTicket
    /\ Ticket => autos < MaxRounds
    /\ Ticket \/ autos # 0 => pr = "open"
    /\ Account(t) /\ Account(saved)
    /\ ~saved.exists => saved.prNumber = 0
BudgetInv == AutoWithinBudget /\ (coder # "gone" => BudgetOK)

\* What the budget does not look at.
SameAccount(x, y) == y.prNumber = x.prNumber /\ y.prRounds = x.prRounds
Uncharged == autos' = autos /\ pr' \in {pr, "open"} /\ RowFollows /\ SameAccount(t, t')

LEMMA BudgetFrame ==
    ASSUME BudgetOK, Uncharged, OneTicket', Waits' => Ticket
    PROVE  BudgetOK'
<1>1. Account(t)'
  BY DEF BudgetOK, Uncharged, SameAccount, Account
<1>2. /\ Account(saved)'
      /\ (~saved.exists => saved.prNumber = 0)'
      /\ (saved.pending = "re-review")' => Ticket \/ Waits'
  <2>1. CASE UNCHANGED saved
    BY <2>1 DEF BudgetOK, Uncharged, Account, Ticket
  <2>2. CASE t'.exists /\ Persists(t', saved')
    BY <1>1, <2>2 DEF Persists, Account, Waits
  <2>3. QED  BY <2>1, <2>2 DEF Uncharged, RowFollows
<1>3. Ticket' => Ticket
  BY <1>2 DEF Ticket
<1>4. QED  BY <1>1, <1>2, <1>3 DEF BudgetOK, Uncharged

\* No start is allowed that was not.
LEMMA BudgetKept ==
    ASSUME BudgetOK, Uncharged, \A k \in Tasks : Allowed(k)' => Allowed(k),
           t'.pending = "re-review" => t.pending = "re-review"
    PROVE  BudgetOK'
<1>1. OneTicket' /\ (Waits' => Ticket)
  BY DEF BudgetOK, OneTicket, Waits, Ticket
<1>2. QED  BY <1>1, BudgetFrame

\* A start that goes on and asks for nothing new.
LEMMA TaskKeepsBudget ==
    ASSUME TypeInv, BudgetOK, Uncharged, t'.pending = t.pending,
           NEW k \in Tasks, NEW r, task' = [task EXCEPT ![k] = r],
           \/ r.at \notin {"start", "look", "begin"}
           \/ r.trigger # "re-review"
           \/ r.trigger = task[k].trigger /\ task[k].at \in {"start", "look", "begin"}
    PROVE  BudgetOK'
<1>1. \A j \in Tasks : task'[j] = IF j = k THEN r ELSE task[j]
  BY DEF TypeInv, StartInv
<1>2. \A j \in Tasks : Allowed(j)' => Allowed(j)
  BY <1>1 DEF Allowed
<1>3. QED  BY <1>2, BudgetKept

LEMMA MemoryKeepsBudget ==
    ASSUME BudgetOK, Uncharged, t'.pending = t.pending, UNCHANGED task
    PROVE  BudgetOK'
<1>1. \A k \in Tasks : Allowed(k)' => Allowed(k)
  BY DEF Allowed
<1>2. QED  BY <1>1, BudgetKept

\* A recorded look, settled.
LEMMA LookUncharged ==
    ASSUME MemInv, NEW s \in Sights, NEW x, x = IF t.exists THEN RecordSighting(t, s) ELSE t
    PROVE  x \in Memories /\ FlightOK(x) /\ Kept(t, x)
<1>1. CASE t.exists
  BY <1>1, Sighted DEF MemInv
<1>2. CASE ~t.exists
  BY <1>2 DEF MemInv, Kept
<1>3. QED  BY <1>1, <1>2

LEMMA SettleUncharged ==
    ASSUME MemInv, NEW x \in Memories, FlightOK(x), Settle(x),
           SameAccount(t, x), x.pending = t.pending,
           autos' = autos, pr' \in {pr, "open"}
    PROVE  Uncharged /\ t'.pending = t.pending
BY SettleFollows DEF Kept, Uncharged, SameAccount

\* A start asked for: an allowed one keeps its claim, or waits in the queue.
LEMMA StartKeepsBudget ==
    ASSUME TypeInv, BudgetOK, NEW k \in Tasks, NEW trigger \in Starters,
           Start(k, trigger), trigger = "re-review" => Allowed(k),
           autos' = autos, pr' \in {pr, "open"}
    PROVE  BudgetOK'
<1>0. task \in [Tasks -> Starts] /\ MemInv
  BY DEF TypeInv, StartInv
<1>1. /\ \/ /\ Kept(t, t') /\ task' = [task EXCEPT ![k] = Free]
         \/ /\ Claims(t, t') /\ t.pending = "none"
            /\ task' = [task EXCEPT ![k] = Claimed(trigger, "start")]
         \/ /\ Queues(t, t', trigger)
            /\ task' = [task EXCEPT ![k] = Free]
      /\ t'.exists => Persists(t', saved')
      /\ t'.exists /\ InRound(t') => t'.phase = "reviewing"
      /\ ~t'.exists => saved' = saved
  BY <1>0, StartCases
<1>2. Uncharged
  BY <1>1 DEF Uncharged, RowFollows, SameAccount, Kept, Claims, Queues
<1>3. /\ Free.at = "none"
      /\ Claimed(trigger, "start").at = "look"
      /\ Claimed(trigger, "start").trigger = trigger
  BY StartsTyped
<1>4. CASE Kept(t, t') /\ task' = [task EXCEPT ![k] = Free]
  BY <1>2, <1>3, <1>4, TaskKeepsBudget DEF Kept
<1>5. CASE Claims(t, t') /\ task' = [task EXCEPT ![k] = Claimed(trigger, "start")]
  <2>1. \A j \in Tasks : task'[j] = IF j = k THEN Claimed(trigger, "start") ELSE task[j]
    BY <1>0, <1>5
  <2>2. \A j \in Tasks : Allowed(j)' => Allowed(j)
    BY <1>3, <2>1 DEF Allowed
  <2>3. t'.pending # "re-review"
    BY <1>5 DEF Claims
  <2>4. QED  BY <1>2, <2>2, <2>3, BudgetKept
<1>6. CASE Queues(t, t', trigger) /\ task' = [task EXCEPT ![k] = Free]
  <2>1. \A j \in Tasks : task'[j] = IF j = k THEN Free ELSE task[j]
    BY <1>0, <1>6
  <2>2. \A j \in Tasks : Allowed(j)' => Allowed(j) /\ j # k
    BY <1>3, <2>1 DEF Allowed
  <2>3. t'.pending = trigger
    BY <1>6 DEF Queues
  <2>4. CASE trigger # "re-review"
    BY <1>2, <2>2, <2>3, <2>4, BudgetKept
  <2>5. CASE trigger = "re-review"
    <3>1. Allowed(k) /\ \A j \in Tasks : ~Allowed(j)'
      BY <2>2, <2>5 DEF BudgetOK, OneTicket
    <3>2. OneTicket' /\ Ticket
      BY <3>1 DEF OneTicket, Ticket, Waits
    <3>3. QED  BY <1>2, <3>2, BudgetFrame
  <2>6. QED  BY <2>4, <2>5
<1>7. QED  BY <1>1, <1>4, <1>5, <1>6

\* The queued start that is claimed: allowed if it was.
LEMMA DrainKeepsBudget ==
    ASSUME TypeInv, BudgetOK, NEW x \in Memories, FlightOK(x), Kept(t, x),
           task' = DrainTasks(x), Kept(Drained(x), t'), RowFollows,
           autos' = autos, pr' \in {pr, "open"}
    PROVE  BudgetOK'
<1> DEFINE y == Drained(x)
<1>0. task \in [Tasks -> Starts] /\ StartInv
  BY DEF TypeInv, StartInv
<1>1. \/ y = x /\ DrainTasks(x) = task
      \/ /\ x.pending # "none" /\ Claims(x, y)
         /\ \E k \in Tasks :
               DrainTasks(x) = [task EXCEPT ![k] = Claimed(x.pending, "queued")]
  BY <1>0, DrainedCases
<1> HIDE DEF y
<1>2. Kept(y, t')
  BY DEF y
<1>3. Uncharged
  BY <1>1, <1>2 DEF Uncharged, SameAccount, Kept, Claims
<1>4. CASE y = x /\ DrainTasks(x) = task
  <2>1. task' = task /\ t'.pending = t.pending
    BY <1>2, <1>4 DEF Kept
  <2>2. QED  BY <1>3, <2>1, MemoryKeepsBudget
<1>5. CASE /\ x.pending # "none" /\ Claims(x, y)
           /\ \E k \in Tasks :
                 DrainTasks(x) = [task EXCEPT ![k] = Claimed(x.pending, "queued")]
  <2>1. PICK k \in Tasks : task' = [task EXCEPT ![k] = Claimed(x.pending, "queued")]
    BY <1>5
  <2>2. PICK r : r = Claimed(x.pending, "queued")
    OBVIOUS
  <2>3. x.pending \in Starters /\ x.pending = t.pending
    BY <1>5 DEF Memories, Kept
  <2>4. r.at = "look" /\ r.trigger = t.pending
    BY <2>2, <2>3, StartsTyped
  <2>5. \A j \in Tasks : task'[j] = IF j = k THEN r ELSE task[j]
    BY <1>0, <2>1, <2>2
  <2>6. t'.pending = "none"
    BY <1>2, <1>5 DEF Kept, Claims
  <2>7. CASE t.pending = "re-review"
    <3>1. Ticket /\ \A j \in Tasks : ~Allowed(j)
      BY <2>7 DEF BudgetOK, OneTicket, Ticket, Waits
    <3>2. \A j \in Tasks : Allowed(j)' => j = k
      BY <2>5, <3>1 DEF Allowed
    <3>3. OneTicket'
      BY <2>6, <3>2 DEF OneTicket
    <3>4. QED  BY <1>3, <3>1, <3>3, BudgetFrame
  <2>8. CASE t.pending # "re-review"
    <3>1. \A j \in Tasks : Allowed(j)' => Allowed(j)
      BY <2>4, <2>5, <2>8 DEF Allowed
    <3>2. QED  BY <1>3, <2>6, <3>1, BudgetKept
  <2>9. QED  BY <2>7, <2>8
<1>6. QED  BY <1>1, <1>4, <1>5

\* Starts, up to their read of the code.
LEMMA StartStepsKeepBudget ==
    ASSUME TypeInv, BudgetOK, NEW k \in Tasks,
           UserStarts(k) \/ PrOpens(k) \/ PrLooked(k) \/ StartRuns(k) \/ RoundLooks(k)
    PROVE  BudgetOK'
<1>0. /\ task \in [Tasks -> Starts] /\ MemInv
      /\ "manual" \in Starters /\ "pr-open" \in Starters
      /\ autos' = autos /\ pr' \in {pr, "open"}
  BY DEF TypeInv, StartInv, Starters, UserStarts, PrOpens, PrLooked, StartRuns, RoundLooks,
         observers, world
<1>1. UNCHANGED <<t, saved>> => Uncharged /\ t'.pending = t.pending
  BY <1>0 DEF Uncharged, RowFollows, SameAccount
<1>2. CASE UserStarts(k)
  BY <1>0, <1>2, StartKeepsBudget DEF UserStarts
<1>3. CASE PrOpens(k)
  <2>1. CASE UNCHANGED <<t, saved, task>>
    BY <1>1, <2>1, MemoryKeepsBudget
  <2>2. CASE Start(k, "pr-open")
    BY <1>0, <2>2, StartKeepsBudget
  <2>3. ASSUME NEW s \in SightsNow(FALSE), UNCHANGED <<t, saved>>,
               task' = [task EXCEPT ![k].at = "pr", ![k].sight = s]
        PROVE  BudgetOK'
    <3> DEFINE r == [task[k] EXCEPT !.at = "pr", !.sight = s]
    <3>1. task' = [task EXCEPT ![k] = r]
      BY <1>0, <2>3
    <3>2. r.at = "pr"
      BY <1>0 DEF Starts
    <3> HIDE DEF r
    <3>3. QED  BY <1>1, <2>3, <3>1, <3>2, TaskKeepsBudget
  <2>4. QED  BY <1>3, <2>1, <2>2, <2>3, Zenon DEF PrOpens
<1>4. CASE PrLooked(k)
  <2> DEFINE x == IF t.exists THEN RecordSighting(t, task[k].sight) ELSE t
             q == [Free EXCEPT !.at = "start", !.trigger = "pr-open"]
  <2>1. Settle(x) /\ \E z \in {Free, q} : task' = [task EXCEPT ![k] = z]
    BY <1>4 DEF PrLooked
  <2>2. x \in Memories /\ FlightOK(x) /\ Kept(t, x)
    <3>1. task[k].sight \in Sights
      BY <1>0 DEF Starts
    <3>2. QED  BY <1>0, <3>1, LookUncharged
  <2> HIDE DEF x
  <2>3. Uncharged /\ t'.pending = t.pending
    BY <1>0, <2>1, <2>2, SettleUncharged DEF Kept, SameAccount
  <2>4. Free.at = "none" /\ q.trigger = "pr-open"
    BY <1>0, StartsTyped
  <2> HIDE DEF q
  <2>5. PICK z \in {Free, q} : task' = [task EXCEPT ![k] = z]
    BY <2>1
  <2>6. z.at \notin {"start", "look", "begin"} \/ z.trigger # "re-review"
    BY <2>4, <2>5
  <2>7. QED  BY <2>3, <2>5, <2>6, TaskKeepsBudget
<1>5. CASE StartRuns(k)
  <2>1. task[k].trigger \in Starters /\ task[k].at = "start"
    BY <1>5 DEF StartRuns, TypeInv, StartInv
  <2>2. task[k].trigger = "re-review" => Allowed(k)
    BY <2>1 DEF Allowed
  <2>3. QED  BY <1>0, <1>5, <2>1, <2>2, StartKeepsBudget DEF StartRuns
<1>6. CASE RoundLooks(k)
  <2>1. PICK s \in SightsNow(TRUE) :
           task' = [task EXCEPT ![k].at = "begin", ![k].sight = s]
    BY <1>6 DEF RoundLooks
  <2> DEFINE r == [task[k] EXCEPT !.at = "begin", !.sight = s]
  <2>2. task' = [task EXCEPT ![k] = r]
    BY <1>0, <2>1
  <2>3. r.trigger = task[k].trigger /\ task[k].at = "look"
    BY <1>0, <1>6 DEF Starts, RoundLooks
  <2>4. UNCHANGED <<t, saved>>
    BY <1>6 DEF RoundLooks
  <2> HIDE DEF r
  <2>5. QED  BY <1>1, <2>2, <2>3, <2>4, TaskKeepsBudget
<1>7. QED  BY <1>2, <1>3, <1>4, <1>5, <1>6

\* The round begins, or fails to: an allowed one is charged as it uses up the
\* only ticket.
LEMMA BeginKeepsBudget ==
    ASSUME TypeInv, RoundOK, AutoWithinBudget, BudgetOK, NEW k \in Tasks, RoundBegins(k)
    PROVE  AutoWithinBudget' /\ BudgetOK'
<1> DEFINE s == task[k].sight
           x == RecordSighting(t, s)
           y == Begun(x, task[k].trigger, s.read)
           r == [task[k] EXCEPT !.at = "ensure", !.sight = NotScanned, !.round = t.round + 1]
<1>0. /\ task \in [Tasks -> Starts] /\ MemInv /\ t \in Memories /\ FlightOK(t)
      /\ task[k].at = "begin" /\ pr' = pr /\ autos \in Nat /\ MaxRounds \in Nat
      /\ pr \in {"none", "open"} /\ s \in Sights
  BY ReviewLoopAssumption
     DEF TypeInv, StartInv, MemInv, RestInv, RoundBegins, world, Starts
<1>1. t.exists /\ ~t.flight.open
  BY <1>0 DEF Claiming, RoundOK, InRound
<1>2. x \in Memories /\ FlightOK(x) /\ Kept(t, x)
  BY <1>0, Sighted
<1>3. CASE /\ s.kind = "read" /\ s.read.content # "unverified" /\ ~x.flight.open
           /\ coder # "gone"
  <2>1. /\ Settle(y) /\ task' = [task EXCEPT ![k].at = "ensure", ![k].sight = NotScanned,
                                             ![k].round = t.round + 1]
        /\ autos' = IF task[k].trigger = "re-review" THEN autos + 1 ELSE autos
    BY <1>1, <1>3 DEF RoundBegins
  <2>2. s.read \in Codes
    <3>1. s.read \notin Skipped
      BY <1>0, <1>3 DEF TypeInv, StartInv
    <3>2. s.read \in Reads
      BY <1>0, <1>3 DEF Sights, NotScanned, Unreadable
    <3>3. QED  BY <1>3, <3>1, <3>2, ReadsApart DEF Reads
  <2>3. /\ y \in Memories /\ FlightOK(y) /\ y.exists = x.exists /\ y.pending = x.pending
        /\ y.flight.open /\ y.prNumber = PrNumber
        /\ y.prRounds = (IF x.prNumber = PrNumber THEN x.prRounds ELSE 0)
                        + (IF task[k].trigger = "re-review" THEN 1 ELSE 0)
    BY <1>2, <2>2, BegunTyped
  <2>4. task' = [task EXCEPT ![k] = r]
    BY <1>0, <2>1
  <2>5. r.at = "ensure"
    BY <1>0 DEF Starts
  <2> HIDE DEF y, r, x, s
  <2>6. y.exists /\ InRound(y)
    BY <1>1, <1>2, <2>3 DEF Kept, InRound
  <2>7. Kept(y, t') /\ Persists(t', saved')
    BY <2>1, <2>3, <2>6, SettledMemory
  <2>8. /\ t'.exists /\ saved'.exists /\ t'.pending = t.pending /\ saved'.pending = t.pending
        /\ t'.prNumber = PrNumber /\ saved'.prNumber = PrNumber
        /\ t'.prRounds = y.prRounds /\ saved'.prRounds = y.prRounds
    BY <1>2, <2>3, <2>6, <2>7 DEF Kept, Persists
  <2>9. \A j \in Tasks : task'[j] = IF j = k THEN r ELSE task[j]
    BY <1>0, <2>4
  <2>10. \A j \in Tasks : Allowed(j)' => Allowed(j) /\ j # k
    BY <2>5, <2>9 DEF Allowed
  <2>11. /\ t.prNumber \in {0, 1} /\ x.prNumber = t.prNumber /\ x.prRounds = t.prRounds
         /\ t.prRounds \in Nat
    BY <1>0, <1>2 DEF Kept, Memories
  <2>12. OneTicket'
    BY <2>8, <2>10 DEF BudgetOK, OneTicket
  <2>13. CASE task[k].trigger = "re-review"
    <3>1. Allowed(k)
      BY <1>0, <2>13 DEF Allowed
    <3>2. autos < MaxRounds /\ pr = "open" /\ t.pending # "re-review"
          /\ \A j \in Tasks : ~Allowed(j)'
      BY <2>10, <3>1 DEF BudgetOK, OneTicket, Ticket, Waits
    <3>3. ~Ticket'
      BY <2>8, <3>2 DEF Ticket, Waits
    <3>4. autos' = autos + 1 /\ PrNumber = 1
      BY <2>1, <2>13, <3>2 DEF PrNumber
    <3>5. y.prRounds = autos'
      BY <1>0, <2>3, <2>11, <2>13, <3>4 DEF BudgetOK, Account
    <3>6. Account(t)' /\ Account(saved)'
      BY <2>8, <3>4, <3>5 DEF Account
    <3>7. AutoWithinBudget'
      BY <1>0, <3>2, <3>4 DEF AutoWithinBudget
    <3>8. QED  BY <1>0, <2>8, <2>12, <3>2, <3>3, <3>6, <3>7 DEF BudgetOK
  <2>14. CASE task[k].trigger # "re-review"
    <3>1. autos' = autos
      BY <2>1, <2>14
    <3>2. y.prNumber = 0 => autos = 0
      BY <1>0, <2>3 DEF BudgetOK, PrNumber
    <3>3. y.prNumber # 0 => y.prRounds = autos
      <4>1. CASE pr = "none"
        BY <2>3, <4>1 DEF PrNumber
      <4>2. CASE pr # "none" /\ t.prNumber = 1
        BY <2>3, <2>11, <2>14, <4>2 DEF BudgetOK, Account, PrNumber
      <4>3. CASE pr # "none" /\ t.prNumber = 0
        BY <2>3, <2>11, <2>14, <4>3 DEF BudgetOK, Account, PrNumber
      <4>4. QED  BY <2>11, <4>1, <4>2, <4>3
    <3>4. Account(t)' /\ Account(saved)'
      BY <2>3, <2>8, <3>1, <3>2, <3>3 DEF Account
    <3>5. Ticket' => Ticket
      BY <2>8, <2>10 DEF Ticket, Waits
    <3>6. QED
      BY <1>0, <2>8, <2>12, <3>1, <3>4, <3>5 DEF BudgetOK, AutoWithinBudget
  <2>15. QED  BY <2>13, <2>14
<1>4. CASE ~(/\ s.kind = "read" /\ s.read.content # "unverified" /\ ~x.flight.open
             /\ coder # "gone")
  <2> DEFINE failed == IF s.kind = "read" THEN State(s.read) ELSE None
             z == RecordFailure(x, task[k].before, failed)
  <2>1. /\ Settle(z) /\ task' = [task EXCEPT ![k] = Free] /\ autos' = autos
    BY <1>1, <1>4 DEF RoundBegins
  <2>2. /\ failed \in Codes \union Unverified \union {None}
        /\ task[k].before \in Origins \ {"scan"}
    <3>1. s.kind = "read" => s.read \in Codes \union Unverified
      BY <1>0 DEF TypeInv, StartInv, Sights, Reads, NotScanned, Unreadable
    <3>2. task[k].before \in {"none", "start", "queued"}
      BY <1>0 DEF Starts
    <3>3. QED  BY <3>1, <3>2 DEF State, Origins
  <2> HIDE DEF failed, x
  <2>3. z \in Memories /\ FlightOK(z) /\ Closed(x, z)
    BY <1>2, <2>2, FailureRecorded
  <2> HIDE DEF z
  <2>4. SameAccount(t, z) /\ z.pending = t.pending
    BY <1>2, <2>3 DEF Kept, Closed, SameAccount
  <2>5. Uncharged /\ t'.pending = t.pending
    BY <1>0, <2>1, <2>3, <2>4, SettleUncharged
  <2>6. Free.at = "none"
    BY StartsTyped
  <2>7. BudgetOK'
    BY <2>1, <2>5, <2>6, TaskKeepsBudget
  <2>8. QED  BY <2>1, <2>7 DEF AutoWithinBudget
<1>5. QED  BY <1>3, <1>4

\* A prompt that is delivered, or cannot be.
LEMMA DeliveryKeepsBudget ==
    ASSUME TypeInv, RoundOK, BudgetOK, NEW k \in Tasks, RoundEnsures(k) \/ RoundSends(k)
    PROVE  BudgetOK'
<1>0. /\ task \in [Tasks -> Starts] /\ MemInv /\ t \in Memories /\ FlightOK(t)
      /\ task[k].at \in {"ensure", "send"} /\ autos' = autos /\ pr' \in {pr, "open"}
      /\ Free.at = "none"
  BY StartsTyped
     DEF TypeInv, StartInv, MemInv, RoundEnsures, RoundSends, observers, world
<1>1. t.exists
  BY <1>0 DEF Sending, RoundOK, InRound
<1>2. CASE RoundFails(k)
  <2> DEFINE y == RoundFailed(t)
  <2>1. Settle(y) /\ task' = [task EXCEPT ![k] = Free]
    BY <1>1, <1>2 DEF RoundFails
  <2>2. y \in Memories /\ FlightOK(y) /\ Closed(t, y)
    BY <1>0, RoundFailedTyped
  <2> HIDE DEF y
  <2>3. Uncharged /\ t'.pending = t.pending
    BY <1>0, <2>1, <2>2, SettleUncharged DEF Closed, SameAccount
  <2>4. QED  BY <1>0, <2>1, <2>3, TaskKeepsBudget
<1>3. CASE RoundEnsures(k) /\ ~RoundFails(k)
  <2> DEFINE r == [task[k] EXCEPT !.at = "send"]
  <2>1. /\ t' = [Touched EXCEPT !.reviewer = TRUE, !.flight.named = t.flight.open]
        /\ task' = [task EXCEPT ![k].at = "send"]
        /\ UNCHANGED saved
    BY <1>3 DEF RoundEnsures
  <2>2. SameAccount(t, t') /\ t'.pending = t.pending
    BY <1>0, <2>1 DEF Touched, Memories, SameAccount
  <2>3. Uncharged
    BY <1>0, <2>1, <2>2 DEF Uncharged, RowFollows
  <2>4. task' = [task EXCEPT ![k] = r]
    BY <1>0, <2>1
  <2>5. r.at = "send"
    BY <1>0 DEF Starts
  <2> HIDE DEF r
  <2>6. QED  BY <2>2, <2>3, <2>4, <2>5, TaskKeepsBudget
<1>4. CASE RoundSends(k) /\ ~RoundFails(k)
  <2>1. task' = [task EXCEPT ![k] = Free] /\ Settle(t)
    BY <1>4 DEF RoundSends
  <2>2. SameAccount(t, t)
    BY DEF SameAccount
  <2>3. Uncharged /\ t'.pending = t.pending
    BY <1>0, <2>1, <2>2, SettleUncharged
  <2>4. QED  BY <1>0, <2>1, <2>3, TaskKeepsBudget
<1>5. QED  BY <1>2, <1>3, <1>4

\* A status event.
LEMMA HearingKeepsBudget ==
    ASSUME TypeInv, BudgetOK, DriverHears
    PROVE  BudgetOK'
<1> DEFINE ev == events[1]
           x == OnReviewerStatus(t, ev[2])
<1>1. /\ events # <<>> /\ events \in Seq(Events) /\ UNCHANGED task
      /\ t \in Memories /\ FlightOK(t) /\ MemInv /\ autos' = autos /\ pr' \in {pr, "open"}
  BY DEF DriverHears, TypeInv, MemInv, RestInv, observers, world
<1>2. Head(events) = ev /\ ev \in Events
  BY <1>1, EventTaken
<1>3. IF ev[1] = "coder" \/ ~t.flight.named THEN UNCHANGED <<t, saved>>
      ELSE IF x.flight.open THEN t' = x /\ UNCHANGED saved ELSE Settle(x)
  BY <1>2 DEF DriverHears
<1> HIDE DEF ev
<1>4. CASE UNCHANGED <<t, saved>>
  BY <1>1, <1>4, MemoryKeepsBudget DEF Uncharged, RowFollows, SameAccount
<1>5. CASE /\ ev[1] # "coder" /\ t.flight.named
           /\ IF x.flight.open THEN t' = x /\ UNCHANGED saved ELSE Settle(x)
  <2>1. ev[2] \in {"idle", "error", "running"}
    BY <1>1, <1>2, <1>5, EventKinds
  <2>2. /\ x \in Memories /\ FlightOK(x)
        /\ ev[2] = "idle" /\ ~t.flight.saw => x = t
        /\ ev[2] = "error" \/ (ev[2] = "idle" /\ t.flight.saw) => Closed(t, x)
        /\ ev[2] = "running" => x = [t EXCEPT !.flight.saw = TRUE]
    BY <1>1, <1>5, <2>1, StatusTyped
  <2>3. SameAccount(t, x) /\ x.pending = t.pending
    <3>1. CASE ev[2] = "running"
      BY <1>1, <2>2, <3>1 DEF Memories, SameAccount
    <3>2. CASE ev[2] # "running"
      BY <2>1, <2>2, <3>2 DEF Closed, SameAccount
    <3>3. QED  BY <3>1, <3>2
  <2> HIDE DEF x
  <2>4. CASE t' = x /\ UNCHANGED saved
    BY <1>1, <2>3, <2>4, MemoryKeepsBudget DEF Uncharged, RowFollows
  <2>5. CASE Settle(x)
    BY <1>1, <2>2, <2>3, <2>5, SettleUncharged, MemoryKeepsBudget
  <2>6. QED  BY <1>5, <2>4, <2>5
<1>6. QED  BY <1>3, <1>4, <1>5

\* The scan, the ticks and their reads.
LEMMA DrainStepsKeepBudget ==
    ASSUME TypeInv, BudgetOK, DriverScanned \/ DriverTicks \/ TickReadsFull
    PROVE  BudgetOK'
<1>0. /\ t \in Memories /\ FlightOK(t) /\ MemInv /\ StartInv
      /\ driver.sight \in Sights /\ autos' = autos /\ pr' \in {pr, "open"}
  BY DEF TypeInv, MemInv, RestInv, DriverScanned, DriverTicks, TickReadsFull, observers, world
<1>1. CASE DriverScanned
  <2> DEFINE x == IF t.exists THEN RecordSighting(t, driver.sight) ELSE t
  <2>1. Settle(Drained(x)) /\ task' = DrainTasks(x)
    BY <1>1 DEF DriverScanned
  <2>2. x \in Memories /\ FlightOK(x) /\ Kept(t, x)
    BY <1>0, LookUncharged
  <2> HIDE DEF x
  <2>3. Drained(x) \in Memories /\ FlightOK(Drained(x))
    BY <1>0, <2>2, DrainedCases
  <2>4. RowFollows /\ Kept(Drained(x), t')
    BY <1>0, <2>1, <2>3, SettleFollows
  <2>5. QED  BY <1>0, <2>1, <2>2, <2>4, DrainKeepsBudget
<1>2. CASE DriverTicks
  <2> DEFINE y == Drained(t)
  <2>1. /\ task' = DrainTasks(t)
        /\ (t' = y /\ UNCHANGED saved) \/ Settle(y)
    BY <1>2 DEF DriverTicks, TickStarts
  <2>2. y \in Memories /\ FlightOK(y)
    BY <1>0, DrainedCases
  <2>3. RowFollows /\ Kept(y, t')
    <3>1. CASE t' = y /\ UNCHANGED saved
      BY <3>1 DEF RowFollows, Kept
    <3>2. CASE Settle(y)
      BY <1>0, <2>2, <3>2, SettleFollows
    <3>3. QED  BY <2>1, <3>1, <3>2
  <2>4. Kept(t, t)
    BY DEF Kept
  <2>5. QED  BY <1>0, <2>1, <2>3, <2>4, DrainKeepsBudget
<1>3. CASE TickReadsFull
  <2>1. UNCHANGED <<t, saved, task>>
    BY <1>3 DEF TickReadsFull
  <2>2. QED  BY <1>0, <2>1, MemoryKeepsBudget DEF Uncharged, RowFollows, SameAccount
<1>4. QED  BY <1>1, <1>2, <1>3

\* The gate allows an automatic round where the budget has one left and no other
\* is on its way.
LEMMA GateKeepsBudget ==
    ASSUME TypeInv, RoundOK, BudgetOK, TickGates
    PROVE  BudgetOK'
<1> DEFINE x == IF t.exists THEN RecordSighting(t, driver.sight) ELSE t
           q == [Free EXCEPT !.at = "start", !.trigger = "re-review"]
<1>0. /\ t \in Memories /\ FlightOK(t) /\ MemInv /\ task \in [Tasks -> Starts]
      /\ driver.sight \in Sights /\ Settle(x) /\ autos' = autos /\ pr' \in {pr, "open"}
      /\ MaxRounds \in Nat \ {0}
  BY ReviewLoopAssumption DEF TypeInv, MemInv, RestInv, StartInv, TickGates, world
<1>1. x \in Memories /\ FlightOK(x) /\ Kept(t, x)
  BY <1>0, LookUncharged
<1>2. \/ UNCHANGED task
      \/ /\ ~InRound(x) /\ x.pending = "none" /\ pr = "open" /\ AutoBudgetLeft(x)
         /\ \A k \in Tasks : task[k].at # "start"
         /\ \E k \in Tasks : task' = [task EXCEPT ![k] = q]
  BY Zenon DEF TickGates
<1>3. q.at = "start" /\ q.trigger = "re-review"
  BY StartsTyped DEF Starters
<1> HIDE DEF x, q
<1>4. Uncharged /\ t'.pending = t.pending
  BY <1>0, <1>1, SettleUncharged DEF Kept, SameAccount
<1>5. CASE UNCHANGED task
  BY <1>4, <1>5, MemoryKeepsBudget
<1>6. CASE /\ ~InRound(x) /\ x.pending = "none" /\ pr = "open" /\ AutoBudgetLeft(x)
           /\ \A k \in Tasks : task[k].at # "start"
           /\ \E k \in Tasks : task' = [task EXCEPT ![k] = q]
  <2>1. PICK k \in Tasks : task' = [task EXCEPT ![k] = q]
    BY <1>6
  <2>2. ~InRound(t) /\ t'.pending = "none"
    BY <1>1, <1>4, <1>6 DEF Kept, InRound
  <2>3. \A j \in Tasks : task'[j] = IF j = k THEN q ELSE task[j]
    BY <1>0, <2>1
  <2>4. \A j \in Tasks : ~Allowed(j)
    BY <1>6, <2>2 DEF Allowed, RoundOK, Claiming, InRound
  <2>5. \A j \in Tasks : Allowed(j)' => j = k
    BY <2>3, <2>4 DEF Allowed
  <2>6. OneTicket'
    BY <2>2, <2>5 DEF OneTicket
  <2>7. autos < MaxRounds
    <3>1. t.prNumber = 0 \/ t.prRounds < MaxRounds
      BY <1>0, <1>1, <1>6 DEF AutoBudgetLeft, PrNumber, Kept, Memories
    <3>2. QED  BY <1>0, <3>1 DEF BudgetOK, Account
  <2>8. Account(t)' /\ Account(saved)' /\ (~saved.exists => saved.prNumber = 0)'
    <3>1. Account(t)'
      BY <1>4 DEF BudgetOK, Uncharged, SameAccount, Account
    <3>2. QED  BY <1>4, <3>1 DEF BudgetOK, Uncharged, RowFollows, Persists, Account
  <2>9. autos' < MaxRounds /\ pr' = "open"
    BY <1>0, <1>6, <2>7
  <2>10. QED  BY <2>6, <2>8, <2>9 DEF BudgetOK
<1>7. QED  BY <1>2, <1>5, <1>6

\* Reports and looks.
LEMMA LooksKeepBudget ==
    ASSUME TypeInv, BudgetOK,
           ReviewerSubmits \/ ReportLooks \/ ReportLooked \/ ClientLooks \/ ClientLooked
    PROVE  BudgetOK'
<1>0. /\ t \in Memories /\ FlightOK(t) /\ MemInv
      /\ report.sight \in Sights /\ client.sight \in Sights
      /\ UNCHANGED task /\ autos' = autos /\ pr' \in {pr, "open"}
  BY DEF TypeInv, MemInv, RestInv, ReviewerSubmits, ReportLooks, ReportLooked, ClientLooks,
         ClientLooked, observers, world
<1>1. CASE ReviewerSubmits
  <2>1. /\ t' = [t EXCEPT !.flight.submitted = TRUE, !.reviewed = t.roundCode]
        /\ UNCHANGED saved
    BY <1>1 DEF ReviewerSubmits
  <2>2. SameAccount(t, t') /\ t'.pending = t.pending
    BY <1>0, <2>1 DEF Memories, SameAccount
  <2>3. QED  BY <1>0, <2>1, <2>2, MemoryKeepsBudget DEF Uncharged, RowFollows
<1>2. CASE ReportLooks \/ ClientLooks
  <2>1. UNCHANGED <<t, saved>>
    BY <1>2 DEF ReportLooks, ClientLooks
  <2>2. QED  BY <1>0, <2>1, MemoryKeepsBudget DEF Uncharged, RowFollows, SameAccount
<1>3. ASSUME NEW s \in Sights, Settle(IF t.exists THEN RecordSighting(t, s) ELSE t)
      PROVE  BudgetOK'
  <2> DEFINE x == IF t.exists THEN RecordSighting(t, s) ELSE t
  <2>1. x \in Memories /\ FlightOK(x) /\ Kept(t, x)
    BY <1>0, LookUncharged
  <2>2. Settle(x)
    BY <1>3
  <2> HIDE DEF x
  <2>3. QED
    BY <1>0, <2>1, <2>2, SettleUncharged, MemoryKeepsBudget DEF Kept, SameAccount
<1>4. CASE ReportLooked \/ ClientLooked
  BY <1>0, <1>3, <1>4 DEF ReportLooked, ClientLooked
<1>5. QED  BY <1>1, <1>2, <1>4

\* A restart finds the account and the queue in the row.
LEMMA RestartKeepsBudget ==
    ASSUME TypeInv, BudgetOK, Restart
    PROVE  BudgetOK'
<1>1. /\ t' = Loaded(saved) /\ task' = [k \in Tasks |-> Free] /\ saved' = saved
      /\ autos' = autos /\ pr' = pr
  BY DEF Restart, observers
<1>2. /\ saved.exists => /\ t'.pending = saved.pending /\ t'.prNumber = saved.prNumber
                         /\ t'.prRounds = saved.prRounds
      /\ ~saved.exists => t'.pending = "none" /\ t'.prNumber = 0
  BY <1>1, LoadedTyped, FreshTyped DEF TypeInv, MemInv
<1>3. \A k \in Tasks : ~Allowed(k)'
  BY <1>1, StartsTyped DEF Allowed
<1>4. OneTicket' /\ (Ticket' => Ticket)
  BY <1>1, <1>2, <1>3 DEF OneTicket, Ticket, Waits
<1>5. Account(t)' /\ Account(saved)' /\ (~saved.exists => saved.prNumber = 0)'
  BY <1>1, <1>2 DEF BudgetOK, Account
<1>6. QED  BY <1>1, <1>4, <1>5 DEF BudgetOK

\* Steps that leave the memory and the starts alone.
LEMMA WorldKeepsBudget ==
    ASSUME BudgetOK,
           \/ \E status \in {"idle", "error"} : ReviewerTurnEnds(status)
           \/ CodeMoves \/ CoderTurnStarts \/ CoderTurnEnds
           \/ DelegationAdmitted \/ DelegationEnds \/ UNCHANGED vars
    PROVE  BudgetOK'
<1>1. UNCHANGED <<t, saved, task, pr, autos>>
  BY DEF ReviewerTurnEnds, CodeMoves, CoderTurnStarts, CoderTurnEnds, DelegationAdmitted,
         DelegationEnds, vars, observers, world
<1>2. QED  BY <1>1, MemoryKeepsBudget DEF Uncharged, RowFollows, SameAccount

\* Only a round that begins is counted, and none begins for a coder that is gone.
LEMMA CountsRounds ==
    ASSUME [Next]_vars, autos' # autos
    PROVE  coder # "gone" /\ \E k \in Tasks : RoundBegins(k)
<1>1. CASE UNCHANGED vars
  BY <1>1 DEF vars, observers
<1>2. CASE DriverStep
  BY <1>2 DEF DriverStep, DriverHears, DriverResyncs, DriverScanned, DriverTicks,
     TickTimesOut, TickReadsFull, TickGates, observers
<1>3. ASSUME NEW k \in Tasks, TaskStep(k) \/ UserStarts(k) \/ PrOpens(k)
      PROVE  coder # "gone" /\ RoundBegins(k)
  <2>1. CASE RoundBegins(k)
    BY <2>1 DEF RoundBegins
  <2>2. CASE ~RoundBegins(k)
    BY <1>3, <2>2 DEF TaskStep, PrLooked, StartRuns, RoundLooks, RoundEnsures, RoundSends,
       UserStarts, PrOpens, observers
  <2>3. QED  BY <2>1, <2>2
<1>4. CASE Next /\ ~DriverStep /\ ~(\E k \in Tasks : TaskStep(k) \/ UserStarts(k) \/ PrOpens(k))
  BY <1>4 DEF Next, ReviewerSubmits, ReportLooks, ReportLooked, UserStops,
     StopInterrupts, StopClears, ClientLooks, ClientLooked, ReviewerTurnEnds, CodeMoves,
     CoderTurnStarts, CoderTurnEnds, DelegationAdmitted, DelegationEnds, CoderGoes, Restart,
     observers
<1>5. QED  BY <1>1, <1>2, <1>3, <1>4

LEMMA BudgetStep ==
    ASSUME TypeInv, RoundInv, BudgetInv, Undisturbed, [Next]_vars
    PROVE  BudgetInv'
<1>1. CASE coder = "gone"
  <2>1. coder' = "gone"
    <3>1. CASE UNCHANGED vars
      BY <1>1, <3>1 DEF vars, world
    <3>2. CASE Next
      BY <1>1, <3>2, GoneStep DEF RoundInv, GoneInv, Unclaimed
    <3>3. QED  BY <3>1, <3>2
  <2>2. autos' = autos
    BY <1>1, CountsRounds
  <2>3. QED  BY <2>1, <2>2 DEF BudgetInv, AutoWithinBudget
<1>2. CASE coder # "gone"
  <2>1. RoundOK /\ TurnOK /\ BudgetOK /\ AutoWithinBudget
    BY <1>2 DEF RoundInv, BudgetInv
  <2>2. /\ ~UserStops /\ ~StopInterrupts /\ ~StopClears
        /\ ~DriverResyncs /\ ~TickTimesOut
    BY DEF RoundInv, Undisturbed, UserStops, StopInterrupts, StopClears,
           DriverResyncs, TickTimesOut, Trouble, MayHappen
  <2>3. CASE \E k \in Tasks : RoundBegins(k)
    BY <2>1, <2>3, BeginKeepsBudget DEF BudgetInv
  <2>4. CASE ~(\E k \in Tasks : RoundBegins(k))
    <3>1. AutoWithinBudget'
      BY <2>1, <2>4, CountsRounds DEF AutoWithinBudget
    <3>2. ASSUME NEW k \in Tasks, TaskStep(k) \/ UserStarts(k) \/ PrOpens(k)
          PROVE  BudgetOK'
      BY <2>1, <2>4, <3>2, StartStepsKeepBudget, DeliveryKeepsBudget DEF TaskStep
    <3>3. ASSUME DriverStep PROVE BudgetOK'
      BY <2>1, <2>2, <3>3, HearingKeepsBudget, DrainStepsKeepBudget, GateKeepsBudget
         DEF DriverStep
    <3>4. ASSUME ReviewerSubmits \/ ReportLooks \/ ReportLooked \/ ClientLooks \/ ClientLooked
          PROVE  BudgetOK'
      BY <2>1, <3>4, LooksKeepBudget
    <3>5. ASSUME Restart PROVE BudgetOK'
      BY <2>1, <3>5, RestartKeepsBudget
    <3>6. ASSUME CoderGoes PROVE coder' = "gone"
      BY <3>6 DEF CoderGoes
    <3>7. ASSUME \/ \E status \in {"idle", "error"} : ReviewerTurnEnds(status)
                 \/ CodeMoves \/ CoderTurnStarts \/ CoderTurnEnds
                 \/ DelegationAdmitted \/ DelegationEnds \/ UNCHANGED vars
          PROVE  BudgetOK'
      BY <2>1, <3>7, WorldKeepsBudget
    <3>8. BudgetOK' \/ coder' = "gone"
      BY <2>2, <3>2, <3>3, <3>4, <3>5, <3>6, <3>7 DEF Next
    <3>9. QED  BY <3>1, <3>8 DEF BudgetInv
  <2>5. QED  BY <2>3, <2>4
<1>3. QED  BY <1>1, <1>2

LEMMA BudgetInit == Init => BudgetInv
<1> SUFFICES ASSUME Init PROVE BudgetInv
  OBVIOUS
<1>1. /\ t = Untracked /\ saved = Untracked /\ autos = 0
      /\ task = [k \in Tasks |-> Free]
  BY DEF Init
<1>2. \A k \in Tasks : ~Allowed(k)
  BY <1>1, StartsTyped DEF Allowed
<1>3. t.pending = "none" /\ saved.pending = "none" /\ t.prNumber = 0 /\ saved.prNumber = 0
  BY <1>1, FreshTyped
<1>4. BudgetOK
  BY <1>1, <1>2, <1>3 DEF BudgetOK, OneTicket, Ticket, Waits, Account
<1>5. AutoWithinBudget
  BY <1>1, ReviewLoopAssumption DEF AutoWithinBudget
<1>6. QED  BY <1>4, <1>5 DEF BudgetInv

\* The budget of a pull request (MAX_ROUNDS_PER_PR, engine.rs tick and begin):
\* the gate reads it long before the round is charged, and no automatic round
\* begins beyond it, across failures, queued starts, restarts and the user's own
\* rounds.
THEOREM WithinBudget ==
    ASSUME Undisturbed
    PROVE  Spec => []AutoWithinBudget
<1>1. (TypeInv /\ RoundInv) /\ BudgetInv /\ [Next]_vars => BudgetInv'
  BY BudgetStep
<1>2. BudgetInv => AutoWithinBudget
  BY DEF BudgetInv
<1>3. QED  BY <1>1, <1>2, BudgetInit, RoundInvariant, PTL DEF Spec
=============================================================================
