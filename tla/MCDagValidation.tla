-------------------------- MODULE MCDagValidation --------------------------
(***************************************************************************)
(* Instances of DagValidation.  A repeated entry is a second copy of a     *)
(* first one.                                                              *)
(***************************************************************************)
EXTENDS DagValidation

MCNeeds(names, copies) ==
    [Jobs -> {S \in SUBSET [name: names, copy: 1..copies] :
                \A e \in S : e.copy > 1 => [e EXCEPT !.copy = 1] \in S}]

MCUniqueIds == {[j \in Jobs |-> j]}

(* All graphs over the jobs with repeated entries; all graphs over the     *)
(* jobs and a name that no job has; and all graphs of jobs that share ids. *)
MCDefinitions ==
    [id: MCUniqueIds, needs: MCNeeds(Jobs, 2)]
    \cup [id: MCUniqueIds, needs: MCNeeds(Names, 1)]
    \cup [id: [Jobs -> {1, 2}], needs: MCNeeds({1, 2}, 1)]
=============================================================================
