--------------------------- MODULE MCControlPipe ---------------------------
(* Small instances of ControlPipe.                                           *)
EXTENDS ControlPipe, TLC

PipeSymmetry == Permutations(Daemons) \union Permutations(Clients)
=============================================================================
