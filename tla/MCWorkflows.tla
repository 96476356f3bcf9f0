---------------------------- MODULE MCWorkflows ----------------------------
(***************************************************************************)
(* Instances of Workflows: one or two ids and requests, model values.      *)
(***************************************************************************)
EXTENDS Workflows, TLC

MCSymmetry == Permutations(Clients) \cup Permutations(Workflows) \cup Permutations(Crons)
=============================================================================
