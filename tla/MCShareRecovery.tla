-------------------------- MODULE MCShareRecovery --------------------------
(* Small instances of ShareRecovery for TLC. *)
EXTENDS ShareRecovery, TLC

\* Browsers, requests and the polynomials not yet minted are alike.
Symmetric == Permutations(Clients) \cup Permutations(Handlers)
               \cup Permutations(Shares \ {First})
=============================================================================
