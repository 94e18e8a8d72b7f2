-------------------------- MODULE MCHubSupervisor --------------------------
(* A small logical turn for TLC: three attempts before the counter         *)
(* saturates, and two outcomes the vendor and the Hub may disagree about.  *)
EXTENDS HubSupervisor
=============================================================================
