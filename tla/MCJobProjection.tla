-------------------------- MODULE MCJobProjection --------------------------
(***************************************************************************)
(* Instances of JobProjection: the stream needs no bound of its own, since *)
(* every job emits a bounded number of events between restarts.            *)
(***************************************************************************)
EXTENDS JobProjection, TLC

JobSymmetry == Permutations(Jobs)
=============================================================================
