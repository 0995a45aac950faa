---------------------------- MODULE MCAutopilot ----------------------------
(* Instances of Autopilot for TLC: a handful of readings that between them *)
(* reach the rungs, both brakes, a gate that is still computing and the    *)
(* user's own edits.                                                       *)
EXTENDS Autopilot

Landable == [Unread EXCEPT !.git = "read", !.head = 1, !.pr = "open",
                           !.merge = "clean", !.mergeable = "mergeable"]
Computing == [Landable EXCEPT !.merge = "unknown"]
Red       == [Landable EXCEPT !.merge = "blocked", !.failing = {"ci"}]
Behind(h) == [Landable EXCEPT !.head = h, !.merge = "behind"]
MidMerge  == [Landable EXCEPT !.conflict = {"path"},
                           !.edits = TRUE, !.staged = TRUE]

\* One checkout falls behind again with every attempt; another has red checks.
SafetyWorlds == <<{Behind(1), Behind(2), Behind(3)}, {Red}>>

LivenessWorlds == <<{Red, Behind(1), Computing, MidMerge}>>
=============================================================================
