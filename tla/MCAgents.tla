------------------------------ MODULE MCAgents ------------------------------
(***************************************************************************)
(* Instances of Agents: tokens, agents and clients are model values.       *)
(***************************************************************************)
EXTENDS Agents, TLC

MCSymmetry == Permutations(Tokens) \cup Permutations(Agents) \cup Permutations(Clients)
=============================================================================
