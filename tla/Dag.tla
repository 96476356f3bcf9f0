-------------------------------- MODULE Dag --------------------------------
(***************************************************************************)
(* Dependency graphs over a set of jobs, as `needs' in a workflow          *)
(* definition declares them: needs[j] is the set of jobs that job j waits  *)
(* for.  Pure definitions shared by the validator's and the interpreter's  *)
(* models; none of them is recursive, so proofs may use them.              *)
(***************************************************************************)

(* S contains, with every job, everything that job needs. *)
ClosedUnder(needs, S) == \A j \in S : needs[j] \subseteq S

(* Everything that has to succeed before j may start: the least set that   *)
(* contains needs[j] and is closed under needs.                            *)
Ancestors(needs, jobs, j) ==
    {k \in jobs : \A S \in SUBSET jobs :
        needs[j] \subseteq S /\ ClosedUnder(needs, S) => k \in S}

(* No cycle: every non-empty set of jobs has a member that needs no other  *)
(* member.  This is the guarantee the API's validation gives a definition  *)
(* before any run of it starts.                                            *)
Acyclic(needs, jobs) ==
    \A S \in SUBSET jobs : S # {} => \E j \in S : needs[j] \cap S = {}

(* All the ways to declare dependencies between the jobs without a cycle. *)
AcyclicNeeds(jobs) == {f \in [jobs -> SUBSET jobs] : Acyclic(f, jobs)}
=============================================================================
