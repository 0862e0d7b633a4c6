-------------------------- MODULE MCSupervisorJob --------------------------
(* Instances of SupervisorJob for TLC: the method sets and the symmetry.   *)
EXTENDS SupervisorRefinement, TLC

GracefulMethods == {"start", "stop_with_signal", "try_restart", "try_restart_with_signal",
                    "signal", "run", "to_wait", "delete_now"}
RestartMethods == {"start", "try_restart_with_signal"}
ClientSymmetry == Permutations(Clients)
=============================================================================
