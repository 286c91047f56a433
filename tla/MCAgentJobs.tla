---------------------------- MODULE MCAgentJobs ----------------------------
(* Model-checking instances of AgentJobs. *)
EXTENDS AgentJobs, TLC

CONSTANTS p1, p2, w1, w2    \* model values: API processes, executor threads

MCJobs1 == {1}
MCJobs2 == {1, 2}

(* Nothing tells two processes, or two threads, apart. *)
MCSymmetry == Permutations({p1, p2}) \cup Permutations({w1, w2})
=============================================================================
