--------------------------- MODULE MCInterpreter ---------------------------
(***************************************************************************)
(* Instances of Interpreter: dependency graphs over the jobs, with         *)
(*  - inputs that read every dependency;                                   *)
(*  - the same, a condition on the last defined job that reads its         *)
(*    dependencies, and a timeout of the first that does not parse;        *)
(*  - a condition on the first defined job that reads another job, and     *)
(*    inputs of the last with an expression that rendering rejects;        *)
(*  - such an expression in the condition of the last.                     *)
(***************************************************************************)
EXTENDS Interpreter

CONSTANTS
    MCOnErrors,
    MCGraphs        \* what the jobs may need

(* Every graph without a cycle. *)
MCAllGraphs == AcyclicNeeds(Jobs)

(* Over three jobs: a chain, a fork, a join of jobs that are defined later,*)
(* jobs of which one needs an ancestor of its other need as well, a job    *)
(* that is independent of two others, and the chain defined backwards.     *)
MCShapes ==
    {<<{}, {1}, {2}>>, <<{}, {1}, {1}>>, <<{2, 3}, {}, {}>>, <<{}, {1}, {1, 2}>>,
     <<{}, {}, {2}>>, <<{2}, {3}, {}>>}

NoReads == [j \in Jobs |-> {}]

MCPlain(needs) ==
    [reads |-> needs, conditional |-> {}, tests |-> NoReads,
     badInputs |-> {}, badCondition |-> {}, badPolicy |-> {}]

MCTemplates(needs) ==
    {MCPlain(needs),
     [MCPlain(needs) EXCEPT !.conditional = {N}, !.tests = needs, !.badPolicy = {1}],
     [MCPlain(NoReads) EXCEPT !.conditional = {1}, !.tests = [j \in Jobs |-> {N}],
                              !.badInputs = {N}],
     [MCPlain(NoReads) EXCEPT !.conditional = {N}, !.badCondition = {N}]}

MCDefinitions ==
    {[needs |-> n, reads |-> t.reads, conditional |-> t.conditional,
      tests |-> t.tests, badInputs |-> t.badInputs,
      badCondition |-> t.badCondition, badPolicy |-> t.badPolicy, onError |-> e] :
        <<n, t, e>> \in
            UNION {{n} \X MCTemplates(n) \X MCOnErrors : n \in MCGraphs}}
=============================================================================
