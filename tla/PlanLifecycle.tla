--------------------------- MODULE PlanLifecycle ---------------------------
(***************************************************************************)
(* What the planner promises of one plan, without requests, workers, files *)
(* or crashes: the legal status transitions (service/server.mjs:8-26), two *)
(* human gates that every tracker write passes, a retry that resumes the   *)
(* phase that failed, an undo that needs a created tree.                   *)
(***************************************************************************)
VARIABLES
  stage,       \* the plan's status
  stalled,     \* the phase a retry resumes
  shapeOK,     \* a human approved the shape
  contentOK,   \* a human approved the creation
  handle       \* "none", "partial" or "full": what of the tree an undo can reach

vars == <<stage, stalled, shapeOK, contentOK, handle>>

Phases == {"breaking_down", "grooming", "creating", "cancelling"}

Init ==
  /\ stage = "absent"
  /\ stalled = "absent"
  /\ shapeOK = FALSE
  /\ contentOK = FALSE
  /\ handle = "none"

\* Entering a phase; a stall falls back to it.
Enter(p) == stage' = p /\ stalled' = p

Submit ==
  /\ stage = "absent"
  /\ Enter("breaking_down")
  /\ UNCHANGED <<shapeOK, contentOK, handle>>

Present ==
  /\ \/ stage = "breaking_down" /\ stage' = "shape_ready"
     \/ stage = "grooming" /\ stage' = "plan_ready"
  /\ UNCHANGED <<stalled, shapeOK, contentOK, handle>>

ApproveShape ==
  /\ stage = "shape_ready"
  /\ Enter("grooming")
  /\ shapeOK' = TRUE
  /\ UNCHANGED <<contentOK, handle>>

ApproveContent ==
  /\ stage = "plan_ready"
  /\ Enter("creating")
  /\ contentOK' = TRUE
  /\ UNCHANGED <<shapeOK, handle>>

RejectPlan ==
  /\ stage \in {"shape_ready", "plan_ready"}
  /\ stage' = "rejected"
  /\ UNCHANGED <<stalled, shapeOK, contentOK, handle>>

\* The tree is complete and read back; an incomplete tree is never promoted.
Written ==
  /\ stage = "creating"
  /\ handle # "partial"
  /\ stage' = "created"
  /\ handle' = "full"
  /\ UNCHANGED <<stalled, shapeOK, contentOK>>

\* Any phase can fail, the planning phases also for lack of budget.
Stall ==
  /\ stage \in Phases
  /\ \/ stage' = "failed"
     \/ stage \in {"breaking_down", "grooming"} /\ stage' = "budget_blocked"
  /\ \/ UNCHANGED handle
     \/ stage = "creating" /\ handle = "none" /\ handle' \in {"full", "partial"}
  /\ UNCHANGED <<stalled, shapeOK, contentOK>>

\* Retry: the phase that stalled; after a failed undo, only a look at the tree.
Resume ==
  /\ stage \in {"failed", "budget_blocked"}
  /\ Enter(IF stalled = "cancelling" THEN "creating" ELSE stalled)
  /\ \/ UNCHANGED handle
     \/ stage' = "creating" /\ handle = "none" /\ handle' = "partial"
  /\ UNCHANGED <<shapeOK, contentOK>>

Undo ==
  /\ stage \in {"created", "failed"}
  /\ handle # "none"
  /\ Enter("cancelling")
  /\ UNCHANGED <<shapeOK, contentOK, handle>>

Undone ==
  /\ stage = "cancelling"
  /\ stage' = "cancelled"
  /\ UNCHANGED <<stalled, shapeOK, contentOK, handle>>

Next ==
  \/ Submit \/ Present \/ ApproveShape \/ ApproveContent \/ RejectPlan
  \/ Written \/ Stall \/ Resume \/ Undo \/ Undone

Spec == Init /\ [][Next]_vars
====
