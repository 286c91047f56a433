-------------------------- MODULE MCIngestionJobs --------------------------
(* Model-checking instances of IngestionJobs. *)
EXTENDS IngestionJobs, TLC

CONSTANTS w1, w2, o1, c1, c2    \* model values: workers, operators, planners

MCJobs1 == {1}
MCJobs2 == {1, 2}

(* Nothing tells two workers, or two planners, apart. *)
MCWorkerSymmetry  == Permutations({w1, w2})
MCPlannerSymmetry == Permutations({c1, c2})
=============================================================================
