-------------------------- MODULE MCJobConclusions --------------------------
(***************************************************************************)
(* Two orgs, one of them without a token; an attempt whose jobs share a    *)
(* runner and a matrix, and one with a job of its own name.                *)
(***************************************************************************)
EXTENDS JobConclusions

Leg(attempt, org, job, runner, name, legOf) ==
  [attempt |-> attempt, org |-> org, job |-> job, runner |-> runner,
   name |-> name, legOf |-> legOf]

MCLegs == {Leg(1, "poor", "build", "r1", "build", "none"),
           Leg(2, "rich", "build", "r1", "build (a)", "build"),
           Leg(2, "rich", "build", "r1", "build (b)", "build"),
           Leg(2, "rich", "lint", "r2", "Lint", "none")}

MCBefore == {l \in MCLegs : l.org = "poor"}
=============================================================================
