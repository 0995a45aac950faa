----------------------------- MODULE MCRoadmap -----------------------------
(* Boards from which the queue is explored: two queued items that are       *)
(* independent or wait on one another, and an item waiting on one that is   *)
(* still a proposal, ruled off, or held and with an agent.                  *)
EXTENDS Roadmap

Fresh(status, deps) == [status |-> status, deps |-> deps, agent |-> FALSE,
                        run |-> 0, pr |-> 0, held |-> FALSE]

QueueBoards ==
    {<<Fresh("queued", {}), Fresh("queued", deps)>> : deps \in SUBSET {1}}
    \union {<<Fresh(status, {}), Fresh("queued", {1})>> :
               status \in {"proposed", "rejected"}}
    \union {<<[Fresh("open", {}) EXCEPT !.agent = TRUE, !.held = TRUE],
              Fresh("queued", {1})>>}

AllActs == {"accept", "queue", "unqueue", "done", "deps", "agent", "hold",
            "reject", "delete", "rank", "project", "workflow", "merge",
            "deleteRun"}
=============================================================================
