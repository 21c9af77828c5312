----------------------------- MODULE MCTxIntent -----------------------------
(* Small instances of TxIntent for TLC. *)
EXTENDS TxIntentInvariant, TLC

\* Requests are alike, and so are payloads.
Symmetric == Permutations(Handlers) \cup Permutations(Payloads)
=============================================================================
