----------------------------- MODULE MCWatchdog -----------------------------
(* Watchdog for TLC: two units of the fleet, and one that is not. *)
EXTENDS Watchdog

=============================================================================
