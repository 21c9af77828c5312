------------------------------ MODULE MCCustody ------------------------------
(* Small instances of Custody for TLC. *)
EXTENDS Custody, TLC

\* Users are alike, and so are keys and generations.
Symmetric == Permutations(Users) \cup Permutations(Keys) \cup Permutations(Gens)
=============================================================================
