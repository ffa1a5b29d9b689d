--------------------------- MODULE MCPlanService ---------------------------
(***************************************************************************)
(* Small instances of PlanService for TLC.                                 *)
(***************************************************************************)
EXTENDS PlanService, TLC

CONSTANTS g1, g2, bad, r1, r2, w1, w2

\* Requests and workers are interchangeable, and so are the two passing shapes.
Symmetry == Permutations({r1, r2}) \cup Permutations({w1, w2}) \cup Permutations({g1, g2})
====
