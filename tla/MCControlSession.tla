-------------------------- MODULE MCControlSession --------------------------
(* Small instances of ControlSession; the configuration gives the constants. *)
EXTENDS ControlSession
=============================================================================
