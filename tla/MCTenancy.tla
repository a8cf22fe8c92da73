----------------------------- MODULE MCTenancy -----------------------------
(* Tenancy with interchangeable ids. *)
EXTENDS Tenancy, TLC

Symmetry == Permutations(Req) \cup Permutations(User) \cup Permutations(Org)
              \cup Permutations(Team) \cup Permutations(Email)
=============================================================================
