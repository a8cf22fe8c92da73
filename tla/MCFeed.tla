------------------------------- MODULE MCFeed -------------------------------
(* Feed on a few rows with few timestamps, so that some are equal. *)
EXTENDS Feed
=============================================================================
