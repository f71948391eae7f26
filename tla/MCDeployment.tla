---------------------------- MODULE MCDeployment ----------------------------
(* Deployment on small instances: the .cfg files bind its constant. *)
EXTENDS Deployment
=============================================================================
