------------------------------ MODULE Readiness ------------------------------
(***************************************************************************)
(* What stands between a checkout's work and landing, and what to do about *)
(* the most blocking thing (autopilot/readiness.rs).  A reading is a       *)
(* record:                                                                 *)
(*   git       "unread" or "read"                                          *)
(*   head      the head commit                                             *)
(*   conflict  the set of conflicted paths                                 *)
(*   edits, staged   there are unstaged, staged non-conflicted changes     *)
(*   unpushed, ahead   commits only here; commits ahead of the base        *)
(*   pr        "none", "open", "merged" or "closed"                        *)
(*   merge     GitHub's merge state, "none" when the checks were not read  *)
(*   mergeable what the pull request alone says, used when merge = "none"  *)
(*   failing   the failing checks                                          *)
(*   theirs, ours   unresolved threads by who spoke last                   *)
(***************************************************************************)
EXTENDS FiniteSets, Naturals

\* A reading nothing was read for: ReadinessInput::default().
Unread == [git |-> "unread", head |-> 0, conflict |-> {}, edits |-> FALSE,
           staged |-> FALSE, unpushed |-> FALSE, ahead |-> FALSE, pr |-> "none",
           merge |-> "none", mergeable |-> "unknown", failing |-> {},
           theirs |-> {}, ours |-> {}]

\* describe_merge_gate: the gate's situation.
GateSituation(w) ==
    CASE w.merge = "clean"    -> "ready"
      [] w.merge = "unstable" -> IF w.failing # {} THEN "checks-failing"
                                                   ELSE "mergeable-soft"
      [] w.merge = "blocked"  -> IF w.failing # {} THEN "checks-failing"
                                                   ELSE "review-required"
      [] w.merge = "behind"   -> "behind"
      [] w.merge = "dirty"    -> "conflicts"
      [] w.merge = "draft"    -> "draft"
      [] w.merge \in {"unknown", "has-hooks"} -> "computing"
      [] w.merge = "none"     ->
           CASE w.mergeable = "mergeable"   -> "no-conflicts"
             [] w.mergeable = "conflicting" -> "conflicts"
             [] w.mergeable = "unknown"     -> "computing"

MergeAllowed(w) == w.merge \in {"clean", "unstable"}

Open(w) == w.pr = "open"

\* Review threads count with no proposal or with an open one.
ThreadsCount(w) == w.pr \in {"none", "open"}

\* detect_blockers: each blocker with the detail that tells one instance from
\* another.  The order of the list is NextRung's business.
DetectBlockers(w) ==
    IF w.git = "unread" THEN {}
    ELSE LET gate == GateSituation(w)
             found == {
               <<"conflicted", w.conflict # {}, w.conflict>>,
               <<"uncommitted", w.conflict = {} /\ (w.edits \/ w.staged), {}>>,
               <<"unpushed", w.unpushed, {}>>,
               <<"unsubmitted", \/ w.pr = "none" /\ w.ahead
                                \/ w.pr = "merged" /\ w.unpushed, {}>>,
               <<"proposal-closed", w.pr = "closed", {}>>,
               <<"diverged", Open(w) /\ gate \in {"conflicts", "behind"}, {}>>,
               <<"checks-failing", Open(w) /\ gate = "checks-failing",
                 w.failing>>,
               <<"review-required", Open(w) /\ gate = "review-required", {}>>,
               <<"draft", Open(w) /\ gate = "draft", {}>>,
               <<"review-unaddressed", ThreadsCount(w) /\ w.theirs # {},
                 Cardinality(w.theirs)>>,
               <<"review-disputed", ThreadsCount(w) /\ w.ours # {},
                 Cardinality(w.ours)>>}
         IN  {<<b[1], b[3]>> : b \in {f \in found : f[2]}}

\* The ladder of next_rung, most blocking first, with commit mode CommitPr (the
\* only one the driver passes): a condition and the answer when it is the
\* first that holds.  An answer is a delegation's kind or what else to do.
Ladder(w) ==
    LET kinds == {b[1] : b \in DetectBlockers(w)} IN <<
    <<w.git = "unread", "wait">>,
    <<w.pr = "merged" /\ w.conflict = {} /\ ~w.edits /\ ~w.staged /\ ~w.unpushed,
      "landed">>,
    <<"conflicted" \in kinds, "resolve">>,
    <<"uncommitted" \in kinds /\ Open(w), "commit-push">>,
    <<"uncommitted" \in kinds, "commit-pr">>,
    <<~Open(w) /\ "review-unaddressed" \in kinds, "resolve-comments">>,
    <<"unsubmitted" \in kinds, "open-pr">>,
    <<"unpushed" \in kinds, "push">>,
    <<"diverged" \in kinds, "update-branch">>,
    <<"checks-failing" \in kinds, "fix-checks">>,
    <<kinds \intersect {"review-required", "draft", "proposal-closed"} # {},
      "escalate">>,
    <<"review-unaddressed" \in kinds, "resolve-comments">>,
    <<"review-disputed" \in kinds, "escalate">>,
    <<~Open(w), "ready">>,
    <<GateSituation(w) = "computing", "wait">>,
    <<MergeAllowed(w), "merge">>,
    <<TRUE, "ready">> >>

NextRung(w) ==
    LET ladder == Ladder(w)
        first == CHOOSE i \in DOMAIN ladder :
                    /\ ladder[i][1]
                    /\ \A j \in 1..(i - 1) : ~ladder[j][1]
    IN  ladder[first][2]
=============================================================================
