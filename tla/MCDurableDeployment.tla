------------------------ MODULE MCDurableDeployment ------------------------
(* Small instances of DurableDeployment for TLC. *)
EXTENDS DurableDeployment

CONSTANTS t1, t2
=============================================================================
