---------------------------- MODULE MCArbitrator ----------------------------
(* The arbitrator with two webhooks and a reader of the list. *)
EXTENDS Arbitrator
=============================================================================
