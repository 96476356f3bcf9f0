------------------------------- MODULE DagRun -------------------------------
(***************************************************************************)
(* What one execution of a workflow promises, without batches, coroutines  *)
(* or events: every job is pending, then runs and succeeds or fails, or is *)
(* skipped; a job runs only after everything it needs succeeded; and when  *)
(* the run closes nothing is left running.  Interpreter implements it.     *)
(***************************************************************************)

CONSTANTS
    Jobs,       \* the jobs of the definition
    Plans       \* what may be run: needs[j] and whether failures are tolerated

VARIABLES
    plan,       \* a member of Plans; never changes
    status,     \* [Jobs -> Status]
    run         \* "open", or how the run closed

vars == <<plan, status, run>>

Status == {"pending", "running", "succeeded", "failed", "skipped", "dropped"}
Settled == {"succeeded", "failed", "skipped"}

TypeOK ==
    /\ plan \in Plans
    /\ status \in [Jobs -> Status]
    /\ run \in {"open", "completed", "failed", "cancelled"}

Init ==
    /\ plan \in Plans
    /\ status = [j \in Jobs |-> "pending"]
    /\ run = "open"

NeedsSucceeded(j) == \A k \in plan.needs[j] : status[k] = "succeeded"

(* Set every job of S to st; the run stays open. *)
Become(S, st) ==
    /\ run = "open"
    /\ status' = [j \in Jobs |-> IF j \in S THEN st ELSE status[j]]
    /\ UNCHANGED <<plan, run>>

Start(j) ==
    /\ status[j] = "pending" /\ NeedsSucceeded(j)
    /\ Become({j}, "running")

End(j) ==
    /\ status[j] = "running"
    /\ Become({j}, "succeeded") \/ Become({j}, "failed")

(* Jobs whose inputs cannot be rendered fail without ever running. *)
FailUnstarted(S) ==
    /\ \A j \in S : status[j] = "pending" /\ NeedsSucceeded(j)
    /\ Become(S, "failed")

(* A job may be skipped only once everything it needs is settled. *)
Skip(j) ==
    /\ status[j] = "pending"
    /\ \A k \in plan.needs[j] : status[k] \in Settled
    /\ Become({j}, "skipped")

(* Cancellation abandons a job. *)
Drop(j) ==
    /\ status[j] \in {"pending", "running"}
    /\ Become({j}, "dropped")

Close(how) ==
    /\ run = "open"
    /\ \A j \in Jobs : status[j] # "running"
    /\ how = "completed" =>
        \A j \in Jobs : /\ status[j] \in Settled
                        /\ status[j] = "failed" => plan.tolerant
    /\ how = "failed" => ~plan.tolerant /\ \E j \in Jobs : status[j] = "failed"
    /\ run' = how
    /\ UNCHANGED <<plan, status>>

Next ==
    \/ \E j \in Jobs : Start(j) \/ End(j) \/ Skip(j) \/ Drop(j)
    \/ \E S \in SUBSET Jobs : FailUnstarted(S)
    \/ \E how \in {"completed", "failed", "cancelled"} : Close(how)

Spec == Init /\ [][Next]_vars
=============================================================================
