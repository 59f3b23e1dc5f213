---------------------------- MODULE MCRunExecution ----------------------------
(* A small instance of RunExecution for TLC: a run and two requests of a human. *)
EXTENDS RunExecution, TLC

CONSTANTS q1, q2, run

Symmetry == Permutations(Requests)
=============================================================================
