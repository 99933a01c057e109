----------------------------- MODULE MCAgentQueries -----------------------------
(* Two clients with a connection each; the first has a second snapshot.    *)
EXTENDS AgentQueries
CONSTANTS c1, c2, s1, s2
TwoProfiles == (c1 :> 1) @@ (c2 :> 2)
TwoOwners == (s1 :> c1) @@ (s2 :> c2)
================================================================================
