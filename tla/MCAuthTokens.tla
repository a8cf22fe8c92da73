--------------------------- MODULE MCAuthTokens ---------------------------
(* AuthTokens with interchangeable requests and token ids. *)
EXTENDS AuthTokens, TLC

Symmetry == Permutations(Req) \cup Permutations(Token)
=============================================================================
