------------------------ MODULE MCPaymentReconciler ------------------------
(* Small instances of PaymentReconciler for TLC. *)
EXTENDS PaymentReconciler, TLC

\* Ticks are alike, and so are transfers.
Symmetric == Permutations(Ticks) \cup Permutations(Transfers)
=============================================================================
