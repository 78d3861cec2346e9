-------------------------- MODULE MCKubeEnforcer ---------------------------
(* The instances of KubeEnforcer for TLC: one resource, which is installed,  *)
(* and deleted at most once.  The constants are numbers and Booleans, and   *)
(* each run gives them in its .cfg file.                                   *)
EXTENDS KubeEnforcer
=============================================================================
