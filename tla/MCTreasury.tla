----------------------------- MODULE MCTreasury -----------------------------
(* A small instance of Treasury for TLC. *)
EXTENDS Treasury, TLC

\* Requests are alike.
Symmetric == Permutations(Handlers)
=============================================================================
