---------------------------- MODULE MCDeployment ----------------------------
(* Small instances of Deployment; the configuration gives the constants.     *)
EXTENDS Deployment
=============================================================================
