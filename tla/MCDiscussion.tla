---------------------------- MODULE MCDiscussion ----------------------------
(* Discussion with interchangeable requests, tasks and notes. *)
EXTENDS Discussion, TLC

Symmetry == Permutations(Req) \cup Permutations(Task) \cup Permutations(Note)
=============================================================================
