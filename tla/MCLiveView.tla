----------------------------- MODULE MCLiveView -----------------------------
(***************************************************************************)
(* Instances of LiveView: an execution, and a replay of it that has not    *)
(* said anything yet.                                                      *)
(***************************************************************************)
EXTENDS LiveView, TLC

CONSTANTS e1, e2

MCScript == (e1 :> <<"execution_started", "execution_finished">>) @@ (e2 :> <<>>)
=============================================================================
