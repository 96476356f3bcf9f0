---------------------------- MODULE MCExecutions ----------------------------
(***************************************************************************)
(* Instances of Executions.  Ids and clients are model values; requests    *)
(* have no identity of their own, so clients are interchangeable.          *)
(***************************************************************************)
EXTENDS Executions, TLC

ClientSymmetry == Permutations(Clients)
=============================================================================
