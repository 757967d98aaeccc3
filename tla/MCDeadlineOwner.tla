-------------------------- MODULE MCDeadlineOwner --------------------------
(* The limits are numbers: the configuration file gives them.              *)
EXTENDS DeadlineOwner
=============================================================================
