-------------------------- MODULE MCChildWallets --------------------------
(* Small instances of ChildWallets for TLC. *)
EXTENDS ChildWallets, TLC

\* Forms, requests and deliveries are alike.
Symmetric == Permutations(Forms) \cup Permutations(Requests)
               \cup Permutations(Handlers)
=============================================================================
