---------------------------- MODULE Interpreter ----------------------------
(***************************************************************************)
(* One run of the generic interpreter workflow (run_dag and _execute of    *)
(* moiraflow_worker/interpreter.py) over one validated definition: the     *)
(* batch loop, the coroutines of the jobs of a batch, the lifecycle events *)
(* it emits, and how Temporal closes the run.                              *)
(*                                                                         *)
(* Jobs are their positions in the definition, so i < j says that job i is *)
(* defined before job j.  A definition says which jobs a job needs, which  *)
(* jobs' outputs its inputs and its condition read, and what an error does.*)
(* Templates are abstracted to the jobs they read: a job succeeds either   *)
(* with every output the definition lets others read or lacking one        *)
(* (`lacks'), and a template renders iff rendering knows the form of its   *)
(* expressions, and every job it reads has completed and lacks nothing.    *)
(*                                                                         *)
(* Temporal runs this code in workflow tasks.  What a task publishes is    *)
(* recorded when the task completes, not before: a task that is lost with  *)
(* its worker, or that raised an exception which is no failure of the run, *)
(* is run again from what was recorded.  From the same record the code     *)
(* takes the same way, so a repeat leaves the state where it was, and only *)
(* what others see is modelled: it publishes the task's events once more.  *)
(***************************************************************************)
EXTENDS Naturals, Sequences, Dag

CONSTANTS
    N,              \* number of jobs
    Definitions,    \* the validated definitions a run may be started with
    MaxRepeats      \* how many repeats of a task the event log keeps

Jobs == 1..N
OnErrors == {"fail", "continue", "compensate"}

Definition ==
    [needs: [Jobs -> SUBSET Jobs],      \* spec.jobs[j].needs
     reads: [Jobs -> SUBSET Jobs],      \* jobs whose outputs `with' reads
     conditional: SUBSET Jobs,          \* jobs that declare a condition
     tests: [Jobs -> SUBSET Jobs],      \* jobs whose outputs it reads
     badInputs: SUBSET Jobs,            \* `with' has an expression of a form
     badCondition: SUBSET Jobs,         \*   rendering rejects; the condition has
     badPolicy: SUBSET Jobs,            \* timeout or retry interval do not parse
     onError: OnErrors]                 \* spec.on_error

(* What validation lets through: no cycle, and inputs read only the        *)
(* outputs of jobs named in needs.  It looks for references inside of an   *)
(* expression and asks nothing of the rest: {{ foo }} passes, as does      *)
(* {{ context.a.b }}.  Conditions, timeouts and intervals are not checked. *)
Valid(d) ==
    /\ Acyclic(d.needs, Jobs)
    /\ \A j \in Jobs : d.reads[j] \subseteq d.needs[j]

ASSUME NAssumption == N \in Nat \ {0}
ASSUME DefinitionsAssumption ==
    /\ Definitions \subseteq Definition
    /\ \A d \in Definitions : Valid(d)
ASSUME MaxRepeatsAssumption == MaxRepeats \in Nat

VARIABLES
    def,        \* the definition of this run; never changes
    phase,      \* where run_dag is
    todo,       \* jobs of the batch that _skip_reason has not decided yet
    toRun,      \* jobs of the batch that are to be executed
    co,         \* state of each job's _execute coroutine
    lacks,      \* jobs whose outputs lack a key the definition lets others read
    completed, skipped, failed,     \* run_dag's three sets
    error,      \* which exception run_dag caught
    log,        \* lifecycle events in the order they were published
    task,       \* those of the workflow task, in order, that is not recorded yet
    told,       \* how many of them the latest attempt of the task has published
    repeats,    \* attempts that started over; above MaxRepeats, log stands still
    cancelRequested,
    outcome     \* Temporal's close status

dataVars == <<lacks, completed, skipped, failed>>
eventVars == <<log, task, told, repeats>>
vars == <<def, phase, todo, toRun, co, lacks, completed, skipped, failed,
          error, log, task, told, repeats, cancelRequested, outcome>>

Phases == {"start", "schedule", "decide", "gather", "abort", "aborted",
           "finished", "closed"}
CoStates == {"idle", "starting", "running", "succeeding", "failing",
             "ok", "raised", "unrendered", "dropped"}
Errors == {"none", "activity", "template", "value", "stuck"}
JobEvents == {"job_started", "job_succeeded", "job_failed", "job_skipped"}
TerminalEvents == {"execution_finished", "execution_failed"}
NoJob == 0
Event == [type: {"execution_started"} \cup TerminalEvents \cup JobEvents,
          job: Jobs \cup {NoJob}]

TypeOK ==
    /\ def \in Definition /\ Valid(def)
    /\ phase \in Phases
    /\ todo \subseteq Jobs /\ toRun \subseteq Jobs
    /\ co \in [Jobs -> CoStates]
    /\ lacks \subseteq Jobs
    /\ completed \subseteq Jobs /\ skipped \subseteq Jobs /\ failed \subseteq Jobs
    /\ error \in Errors
    /\ log \in Seq(Event) /\ task \in Seq(Event) /\ told \in 0..Len(task)
    /\ repeats \in 0..MaxRepeats + 1
    /\ cancelRequested \in BOOLEAN
    /\ outcome \in {"open", "completed", "failed", "cancelled"}

Init ==
    /\ def \in Definitions
    /\ phase = "start"
    /\ todo = {} /\ toRun = {}
    /\ co = [j \in Jobs |-> "idle"]
    /\ lacks = {} /\ completed = {} /\ skipped = {} /\ failed = {}
    /\ error = "none"
    /\ log = <<>> /\ task = <<>> /\ told = 0 /\ repeats = 0
    /\ cancelRequested = FALSE
    /\ outcome = "open"

-----------------------------------------------------------------------------

Done == completed \cup skipped \cup failed

(* Mistakes a change of this code could make.  No action uses them: each   *)
(* stands in for the definition after it to show that a property notices.  *)
(* Waiting for success instead of any settlement: *)
ReadyAfterSuccess == {j \in Jobs \ Done : def.needs[j] \subseteq completed}

(* ready_jobs *)
Ready == {j \in Jobs \ Done : def.needs[j] \subseteq Done}

(* j is the first of the jobs S in definition order. *)
IsFirst(j, S) == j \in S /\ \A k \in S : j <= k

Resolvable(refs) == refs \subseteq completed /\ refs \cap lacks = {}

(* Every template of a job's inputs renders. *)
Renders(j) == j \notin def.badInputs /\ Resolvable(def.reads[j])

(* ... and so does its condition. *)
Decidable(j) == j \notin def.badCondition /\ Resolvable(def.tests[j])

(* The latest attempt of the workflow task has come to where the run is.   *)
UpToDate == told = Len(task)

(* An event is published that no attempt of the task has published yet. *)
Emit(type, j) ==
    LET e == [type |-> type, job |-> j] IN
    /\ UpToDate
    /\ log' = Append(log, e)
    /\ task' = Append(task, e)
    /\ told' = told + 1
    /\ UNCHANGED repeats

(* The main coroutine goes on; cancellation reaches it where it waits. *)
GoesOn == UpToDate /\ ~cancelRequested

(* The activity of j is scheduled: the task that asked for it, after it    *)
(* published job_started, is recorded.                                     *)
Scheduled(j) == \A i \in DOMAIN task : task[i].job # j

(* Cascading only skips, or only failures: *)
UpstreamSkipped(j) == def.needs[j] \cap skipped # {}
UpstreamFailed(j) == def.needs[j] \cap failed # {}

UpstreamSettledBadly(j) == def.needs[j] \cap (failed \cup skipped) # {}

(* The coroutine of j moves on, and the event, if any, is published. *)
Step(j, from, to) ==
    /\ phase = "gather"
    /\ co[j] = from
    /\ co' = [co EXCEPT ![j] = to]
    /\ UNCHANGED <<def, phase, todo, toRun, completed, skipped, failed, error,
                   cancelRequested, outcome>>

-----------------------------------------------------------------------------
(* The main coroutine: run_dag *)

EmitStarted ==
    /\ phase = "start" /\ GoesOn
    /\ Emit("execution_started", NoJob)
    /\ phase' = "schedule"
    /\ UNCHANGED <<def, todo, toRun, co, dataVars, error,
                   cancelRequested, outcome>>

(* The head of the while loop: the next batch, or a RuntimeError if there  *)
(* is none although jobs are left.                                         *)
Schedule ==
    /\ phase = "schedule" /\ GoesOn
    /\ Done # Jobs
    /\ todo' = Ready
    /\ toRun' = {}
    /\ phase' = IF Ready = {} THEN "abort" ELSE "decide"
    /\ error' = IF Ready = {} THEN "stuck" ELSE error
    /\ UNCHANGED <<def, co, dataVars, eventVars, cancelRequested, outcome>>

(* _skip_reason decides the next job of the batch, in definition order:    *)
(* skip it, ...                                                            *)
SkipJob(j) ==
    /\ phase = "decide" /\ GoesOn
    /\ IsFirst(j, todo)
    /\ \/ UpstreamSettledBadly(j)
       \/ j \in def.conditional /\ Decidable(j)
    /\ todo' = todo \ {j}
    /\ skipped' = skipped \cup {j}
    /\ Emit("job_skipped", j)
    /\ UNCHANGED <<def, phase, toRun, co, lacks, completed, failed, error,
                   cancelRequested, outcome>>

(* ... run it, ... *)
AdmitJob(j) ==
    /\ phase = "decide" /\ GoesOn
    /\ IsFirst(j, todo)
    /\ ~UpstreamSettledBadly(j)
    /\ j \in def.conditional => Decidable(j)
    /\ todo' = todo \ {j}
    /\ toRun' = toRun \cup {j}
    /\ UNCHANGED <<def, phase, co, dataVars, error, eventVars,
                   cancelRequested, outcome>>

(* ... or abort the run, whatever on_error says: its condition reads a     *)
(* value that is not in scope, or has a form rendering rejects.            *)
ConditionRaises(j) ==
    /\ phase = "decide" /\ GoesOn
    /\ IsFirst(j, todo)
    /\ ~UpstreamSettledBadly(j)
    /\ j \in def.conditional /\ ~Decidable(j)
    /\ error' = "template"
    /\ phase' = "abort"
    /\ UNCHANGED <<def, todo, toRun, co, dataVars, eventVars,
                   cancelRequested, outcome>>

(* Forgetting the coroutines of earlier batches: *)
GatherForgetting ==
    /\ phase = "decide" /\ GoesOn
    /\ todo = {}
    /\ co' = [j \in toRun |->
                IF Renders(j) THEN "starting" ELSE "unrendered"]
    /\ phase' = "gather"
    /\ UNCHANGED <<def, todo, toRun, dataVars, error, eventVars,
                   cancelRequested, outcome>>

(* asyncio.gather: every coroutine renders its job's inputs at once; one   *)
(* that cannot raises before it emits job_started.                         *)
Gather ==
    /\ phase = "decide" /\ GoesOn
    /\ todo = {}
    /\ co' = [j \in Jobs |->
                IF j \notin toRun THEN co[j]
                ELSE IF Renders(j) THEN "starting"
                ELSE "unrendered"]
    /\ phase' = "gather"
    /\ UNCHANGED <<def, todo, toRun, dataVars, error, eventVars,
                   cancelRequested, outcome>>

(* Coroutines of the batch whose result is an exception. *)
Raised == {j \in toRun : co[j] \in {"raised", "unrendered"}}

(* gather without return_exceptions, or waiting for results only: *)
OneRaisedOrAllReturned ==
    Raised # {} \/ \A j \in toRun : co[j] = "ok"
AllSucceeded == \A j \in toRun : co[j] = "ok"

(* gather returns when every coroutine has returned or raised. *)
AllReturned == \A j \in toRun : co[j] \in {"ok", "raised", "unrendered"}

(* Recording failures whatever on_error says: *)
CollectWhateverOnError ==
    /\ phase = "gather" /\ GoesOn
    /\ AllReturned
    /\ completed' = completed \cup (toRun \ Raised)
    /\ failed' = failed \cup Raised
    /\ phase' = "schedule"
    /\ UNCHANGED <<def, todo, toRun, co, lacks, skipped, error, eventVars,
                   cancelRequested, outcome>>

(* gather returned and no exception aborts the run. *)
CollectBatch ==
    /\ phase = "gather" /\ GoesOn
    /\ AllReturned
    /\ Raised = {} \/ def.onError = "continue"
    /\ completed' = completed \cup (toRun \ Raised)
    /\ failed' = failed \cup Raised
    /\ phase' = "schedule"
    /\ UNCHANGED <<def, todo, toRun, co, lacks, skipped, error, eventVars,
                   cancelRequested, outcome>>

(* gather returned and the first failed job, in definition order, aborts   *)
(* the run; results of jobs defined before it were already recorded.       *)
CollectRaises(f) ==
    /\ phase = "gather" /\ GoesOn
    /\ AllReturned
    /\ IsFirst(f, Raised) /\ def.onError # "continue"
    /\ completed' = completed \cup {j \in toRun : j < f}
    /\ error' = IF co[f] = "unrendered" THEN "template"
                ELSE IF f \in def.badPolicy THEN "value" ELSE "activity"
    /\ phase' = "abort"
    /\ UNCHANGED <<def, todo, toRun, co, lacks, skipped, failed, eventVars,
                   cancelRequested, outcome>>

(* The except handler. *)
EmitFailed ==
    /\ phase = "abort"
    /\ Emit("execution_failed", NoJob)
    /\ phase' = "aborted"
    /\ UNCHANGED <<def, todo, toRun, co, dataVars, error, cancelRequested, outcome>>

EmitFinished ==
    /\ phase = "schedule" /\ GoesOn
    /\ Done = Jobs
    /\ Emit("execution_finished", NoJob)
    /\ phase' = "finished"
    /\ UNCHANGED <<def, todo, toRun, co, dataVars, error,
                   cancelRequested, outcome>>

-----------------------------------------------------------------------------
(* The coroutine of one job: _execute *)

EmitJobStarted(j) ==
    /\ ~cancelRequested
    /\ Step(j, "starting", "running")
    /\ Emit("job_started", j)
    /\ UNCHANGED lacks

RunJobSucceeds(j, lacking) ==
    /\ ~cancelRequested
    /\ j \notin def.badPolicy /\ Scheduled(j)
    /\ Step(j, "running", "succeeding")
    /\ lacks' = IF lacking THEN lacks \cup {j} ELSE lacks
    /\ UNCHANGED eventVars

(* The activity failed or was cancelled, or it was never scheduled since   *)
(* parse_duration raised a ValueError before.                              *)
RunJobFails(j) ==
    /\ j \in def.badPolicy \/ Scheduled(j)
    /\ Step(j, "running", "failing")
    /\ UNCHANGED <<lacks, eventVars>>

EmitJobSucceeded(j) ==
    /\ Step(j, "succeeding", "ok")
    /\ Emit("job_succeeded", j)
    /\ UNCHANGED lacks

EmitJobFailed(j) ==
    /\ Step(j, "failing", "raised")
    /\ Emit("job_failed", j)
    /\ UNCHANGED lacks

-----------------------------------------------------------------------------
(* Temporal: workflow tasks, how a run closes, cancellation *)

controlVars == <<def, phase, todo, toRun, co, dataVars, error, cancelRequested,
                 outcome>>

(* The task completes, because the run waits for activities or because it  *)
(* takes long: what its latest attempt has published is recorded.  An end  *)
(* is recorded with the run's closing only.                                *)
TaskCompletes ==
    /\ told > 0
    /\ phase # "closed" /\ (phase \in {"aborted", "finished"} => ~UpToDate)
    /\ task' = SubSeq(task, told + 1, Len(task))
    /\ told' = 0
    /\ UNCHANGED <<controlVars, log, repeats>>

(* The worker crashes, or Temporal's limit for a task passes. *)
TaskIsLost ==
    /\ told > 0 /\ phase # "closed"
    /\ repeats < MaxRepeats
    /\ told' = 0
    /\ repeats' = repeats + 1
    /\ UNCHANGED <<controlVars, log, task>>

(* An exception that is not an activity's only fails the workflow task,    *)
(* which Temporal retries, for ever.                                       *)
TaskRetries ==
    /\ phase = "aborted" /\ error # "activity"
    /\ UpToDate
    /\ told' = 0
    /\ repeats' = IF repeats > MaxRepeats THEN repeats ELSE repeats + 1
    /\ UNCHANGED <<controlVars, log, task>>

(* The new attempt publishes the next event of the task again.  Events of  *)
(* two coroutines come in the order of the first time.                     *)
EmitAgain ==
    /\ ~UpToDate /\ phase # "closed"
    /\ told' = told + 1
    /\ log' = IF repeats > MaxRepeats THEN log ELSE Append(log, task[told + 1])
    /\ UNCHANGED <<controlVars, task, repeats>>

Close(how) ==
    /\ outcome' = how
    /\ phase' = "closed"
    /\ UNCHANGED <<def, todo, toRun, co, dataVars, error, eventVars, cancelRequested>>

Completes == phase = "finished" /\ GoesOn /\ Close("completed")

(* An activity's error fails the run. *)
Fails == phase = "aborted" /\ GoesOn /\ error = "activity" /\ Close("failed")

RequestCancel ==
    /\ phase # "closed" /\ ~cancelRequested
    /\ cancelRequested' = TRUE
    /\ UNCHANGED <<def, phase, todo, toRun, co, dataVars, error, eventVars,
                   outcome>>

(* CancelledError reaches a job's coroutine, which abandons the job. *)
DropJob(j) ==
    /\ cancelRequested
    /\ Step(j, "starting", "dropped") \/ Step(j, "running", "dropped")
    /\ UNCHANGED <<lacks, eventVars>>

(* CancelledError is not an Exception: nothing in run_dag catches it. *)
Cancels ==
    /\ cancelRequested /\ phase # "closed"
    /\ \A j \in Jobs : co[j] \notin {"starting", "running"}
    /\ Close("cancelled")

(* A cancelled emit inside the try block may instead surface as an         *)
(* ActivityError, which the except handler reports as a failure; also when *)
(* the job_skipped it publishes is a repetition.                           *)
CancelCaught ==
    /\ cancelRequested /\ phase # "closed"
    /\ told > 0 /\ task[told].type = "job_skipped"
    /\ UpToDate => phase = "decide"
    /\ \A j \in Jobs : co[j] \notin {"starting", "running", "succeeding", "failing"}
    /\ task' = SubSeq(task, 1, told)
    /\ error' = "activity"
    /\ phase' = "abort"
    /\ UNCHANGED <<def, todo, toRun, co, dataVars, log, told, repeats,
                   cancelRequested, outcome>>

-----------------------------------------------------------------------------

MainStep ==
    \/ EmitStarted \/ Schedule
    \/ \E j \in Jobs : SkipJob(j) \/ AdmitJob(j) \/ ConditionRaises(j)
    \/ Gather \/ CollectBatch \/ \E f \in Jobs : CollectRaises(f)
    \/ EmitFailed \/ EmitFinished \/ EmitAgain

JobStep(j) ==
    \/ EmitJobStarted(j)
    \/ \E lacking \in BOOLEAN : RunJobSucceeds(j, lacking)
    \/ RunJobFails(j)
    \/ EmitJobSucceeded(j) \/ EmitJobFailed(j)
    \/ DropJob(j)

TemporalStep ==
    TaskCompletes \/ Completes \/ Fails \/ TaskRetries \/ Cancels \/ CancelCaught

Terminated == phase = "closed" /\ UNCHANGED vars

Next ==
    \/ MainStep
    \/ \E j \in Jobs : JobStep(j)
    \/ TemporalStep
    \/ TaskIsLost
    \/ RequestCancel
    \/ Terminated

Spec == Init /\ [][Next]_vars

(* The event loop runs what is runnable, an activity ends (its attempts    *)
(* and their time are bounded), Temporal reacts, and delivers a request to *)
(* cancel also to a task that it retries.  Nobody has to cancel, and no    *)
(* task has to be lost.                                                    *)
Fairness ==
    /\ WF_vars(MainStep)
    /\ \A j \in Jobs : WF_vars(JobStep(j))
    /\ WF_vars(TemporalStep) /\ WF_vars(Cancels)

FairSpec == Spec /\ Fairness

-----------------------------------------------------------------------------
(* Properties *)

(* No coroutine is created for a job before everything the job depends on, *)
(* directly or through other jobs, has succeeded and its outputs are in    *)
(* the scope: a failed or skipped ancestor several levels up cascades all  *)
(* the way down (ready_jobs and _skip_reason together).                    *)
StartsAfterAncestors ==
    \A j \in Jobs :
        co[j] # "idle" => Ancestors(def.needs, Jobs, j) \subseteq completed

(* The event at position k repeats an earlier one. *)
IsRepeat(k) == \E i \in 1..k-1 : log[i] = log[k]

(* What a subscriber sees of a run, whatever tasks are lost or retried.    *)
(* Only repetitions follow the terminal event, or the failure that a       *)
(* cancellation adds; an aborted batch has heard from every sibling first. *)
(* Of a job, one start, then one result, or a skip, and the rest repeats   *)
(* them: no result comes without a start, and no success is followed by    *)
(* another start.  When the run is over and its task has published all,    *)
(* every start is followed by a result, unless the run was cancelled.      *)
EventLogWellFormed ==
    /\ \A i, k \in DOMAIN log : i < k /\ ~IsRepeat(k) =>
        /\ log[i].type \in TerminalEvents =>
              cancelRequested /\ log[k].type = "execution_failed"
        /\ log[i].job = log[k].job /\ log[i].job # NoJob =>
              /\ log[i].type = "job_started"
              /\ log[k].type \in {"job_succeeded", "job_failed"}
    /\ \A k \in DOMAIN log : log[k].type \in {"job_succeeded", "job_failed"} =>
        \E i \in 1..k-1 : log[i] = [type |-> "job_started", job |-> log[k].job]
    /\ \A i, k \in DOMAIN log :
        i < k /\ log[i].type = "job_succeeded" /\ log[i].job = log[k].job =>
            log[k].type # "job_started"
    /\ phase \in {"aborted", "finished"} /\ UpToDate /\ ~cancelRequested =>
        \A i \in DOMAIN log : log[i].type = "job_started" =>
            \E k \in DOMAIN log :
                /\ k > i /\ log[k].job = log[i].job
                /\ log[k].type \in {"job_succeeded", "job_failed"}

(* A run that finishes has decided every job exactly once, ran only jobs   *)
(* whose whole ancestry succeeded, skipped only for a bad dependency or a  *)
(* declared condition, and has failed jobs only if on_error tolerates them.*)
FinishedRunAccountsForJobs ==
    phase = "finished" =>
        /\ Done = Jobs
        /\ completed \cap skipped = {} /\ completed \cap failed = {}
        /\ skipped \cap failed = {}
        /\ \A j \in skipped : UpstreamSettledBadly(j) \/ j \in def.conditional
        /\ \A j \in completed \cup failed :
              Ancestors(def.needs, Jobs, j) \subseteq completed
        /\ failed # {} => def.onError = "continue"

(* A validated definition always offers a batch: the RuntimeError of the   *)
(* loop, marked unreachable in the code, is.                               *)
NeverStuck == error # "stuck"

(* Inputs of a validated job fail to render only because of an expression  *)
(* of a form that rendering rejects, or because a job they read did not    *)
(* produce an output its definition announces; never because that job was  *)
(* skipped, failed or has not run yet.                                     *)
InputsAreInScope ==
    \A j \in Jobs : co[j] = "unrendered" =>
        j \in def.badInputs \/ def.reads[j] \cap lacks # {}

(* Every run closes, unless it raised an exception that is not an          *)
(* activity's (a template's, a duration's): Temporal retries its task for  *)
(* ever.  Even then it can be cancelled.                                   *)
Terminates ==
    /\ <>(phase = "closed" \/ error \notin {"none", "activity"})
    /\ cancelRequested ~> phase = "closed"

(* The run implements DagRun. *)
statusOf ==
    [j \in Jobs |->
        IF j \in skipped THEN "skipped"
        ELSE CASE co[j] \in {"idle", "starting"} -> "pending"
               [] co[j] = "running" -> "running"
               [] co[j] \in {"succeeding", "ok"} -> "succeeded"
               [] co[j] \in {"failing", "raised", "unrendered"} -> "failed"
               [] OTHER -> "dropped"]

planOf(d) == [needs |-> d.needs, tolerant |-> d.onError = "continue"]

Run == INSTANCE DagRun WITH
    Plans <- {planOf(d) : d \in Definitions},
    plan <- planOf(def), status <- statusOf, run <- outcome

ImplementsDagRun == Run!Spec

-----------------------------------------------------------------------------
(* What the documentation says and the code does not do *)

(* "The run still completes (the failed jobs are recorded per-job)"        *)
(* (interpreter.py) and "Failed jobs remain visible as failed in the       *)
(* execution detail" (USER-GUIDE): every failed job of a finished run has  *)
(* a job_failed event.                                                     *)
FailedJobsAreReported ==
    phase = "finished" => \A j \in failed :
        \E i \in DOMAIN log : log[i] = [type |-> "job_failed", job |-> j]

(* "a validated workflow renders without surprises" (templating.py): if    *)
(* every job produces what the definition announces, no template raises.   *)
ValidatedRendersWithoutSurprises == lacks = {} => error # "template"

(* "fail (default): a failed job aborts the whole execution (status        *)
(* failed)" (USER-GUIDE): a run that an exception aborts closes.           *)
AbortedRunCloses == [](error # "none" => <>(phase = "closed"))
=============================================================================
