------------------------------ MODULE MCDaemon ------------------------------
(* Small instances of Daemon; the configurations give all the constants.     *)
EXTENDS Daemon
=============================================================================
