-------------------------- MODULE MCControlSocket --------------------------
(* Small instances of ControlSocket.                                         *)
EXTENDS ControlSocket, TLC

DaemonSymmetry == Permutations(Daemons)
=============================================================================
