----------------------------- MODULE MCRetrySuite -----------------------------
(* The experiment on a small matrix: the lists of its configuration.         *)
EXTENDS RetrySuite

MCSeeds == <<11>>
MCRates == <<18>>
MCFaultModes == <<FALSE, TRUE>>
MCPolicies == <<"none", "jitter">>
=============================================================================
