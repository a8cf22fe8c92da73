---------------------------- MODULE MCProjects ----------------------------
(* Projects with interchangeable ids. *)
EXTENDS Projects, TLC

Symmetry == Permutations(Req) \cup Permutations(Project) \cup Permutations(Org)
=============================================================================
