---------------------------- MODULE MCSupervisor ----------------------------
(* Supervisor for TLC: pids are interchangeable in the runs without liveness. *)
EXTENDS Supervisor, TLC

PidSymmetry == Permutations(Pids)

=============================================================================
