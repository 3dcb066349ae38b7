---------------------------- MODULE MCArbitrator ----------------------------
(* Small instances of the threads around the configuration for TLC. *)
EXTENDS Arbitrator

=============================================================================
