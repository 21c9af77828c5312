----------------------------- MODULE MCCeremony -----------------------------
(* Small instances of Ceremony for TLC. *)
EXTENDS Ceremony
=============================================================================
