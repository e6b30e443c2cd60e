------------------------------ MODULE MCRetrySim ------------------------------
(* The simulator on small instances: values of the constants that a cfg       *)
(* cannot write down.                                                         *)
EXTENDS RetryLifecycle

MCPolicies == {"none", "jitter", "budget"}
MCFaultModes == {TRUE, FALSE}
=============================================================================
