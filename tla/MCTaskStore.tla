---------------------------- MODULE MCTaskStore ----------------------------
(* TaskStore with interchangeable request and task ids. *)
EXTENDS TaskStore, TLC

Symmetry == Permutations(Req) \cup Permutations(Task)
=============================================================================
