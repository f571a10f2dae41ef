----------------------------- MODULE MCAgentTeam -----------------------------
(***************************************************************************)
(* TLC instances of AgentTeam.                                             *)
(***************************************************************************)
EXTENDS AgentTeam, TLC
RuntimeSymmetry == Permutations(Runtimes)
=============================================================================
