---------------------------- MODULE RunContract ----------------------------
(***************************************************************************)
(* What a workflow run promises about the work it produces, whatever its   *)
(* steps, agents, cancels, panics and crashes do: step results are         *)
(* committed in order, one at a time and each once; the branch is          *)
(* published at most once, and only when every step is in it; deleting the *)
(* run removes the commits and ends everything.                            *)
(***************************************************************************)
EXTENDS Naturals

CONSTANT N      \* steps of the workflow

VARIABLES
    pinned,     \* steps whose commit is pinned in the run repo
    published,  \* what reached the remote
    gone        \* the run was deleted

contractVars == <<pinned, published, gone>>

Init == pinned = {} /\ published = "none" /\ gone = FALSE

CommitStep ==
    /\ ~gone /\ published = "none"
    /\ \E k \in 1..N : pinned = 1..(k - 1) /\ pinned' = 1..k
    /\ UNCHANGED <<published, gone>>

Publish ==
    /\ ~gone /\ published = "none" /\ pinned = 1..N
    /\ published' \in {"pushed", "pr"}
    /\ UNCHANGED <<pinned, gone>>

Delete ==
    /\ ~gone
    /\ gone' = TRUE
    /\ pinned' = {}
    /\ UNCHANGED published

Next == CommitStep \/ Publish \/ Delete

Spec == Init /\ [][Next]_contractVars
============================================================================
