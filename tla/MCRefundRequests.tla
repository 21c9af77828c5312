-------------------------- MODULE MCRefundRequests --------------------------
(* Small instances of RefundRequests for TLC. *)
EXTENDS RefundRequests, TLC

\* Rows, transactions and addresses are alike.
Symmetric == Permutations(Refunds) \cup Permutations(Intents) \cup Permutations(Hashes)
               \cup Permutations(Addresses) \cup Permutations(Creators)
               \cup Permutations(Reviewers)
=============================================================================
