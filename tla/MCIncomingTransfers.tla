----------------------- MODULE MCIncomingTransfers -----------------------
(* A small instance of IncomingTransfers for TLC. *)
EXTENDS IncomingTransfers
=============================================================================
