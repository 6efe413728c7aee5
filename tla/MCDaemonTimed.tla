--------------------------- MODULE MCDaemonTimed ---------------------------
(* Small instances of DaemonTimed.                                           *)
EXTENDS DaemonTimed, TLC

PidSymmetry == Permutations(Pids)
=============================================================================
