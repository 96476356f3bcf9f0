------------------------- MODULE Interpreter_proofs -------------------------
(***************************************************************************)
(* Theorems about Interpreter, for every number of jobs and every set of   *)
(* validated definitions.                                                  *)
(***************************************************************************)
EXTENDS Interpreter, TLAPS

InFlight == {"starting", "running", "succeeding", "failing"}
Returned == {"ok", "raised", "unrendered"}

(* The three sets never overlap, and record only what coroutines returned. *)
SetsInv ==
    /\ completed \cap skipped = {}
    /\ completed \cap failed = {}
    /\ skipped \cap failed = {}
    /\ \A j \in completed : co[j] = "ok"
    /\ \A j \in failed : co[j] \in {"raised", "unrendered"}
    /\ failed # {} => def.onError = "continue"

(* Needs of every job that has got anywhere. *)
NeedsInv ==
    /\ \A j \in Jobs : co[j] # "idle" => def.needs[j] \subseteq completed
    /\ \A j \in skipped : co[j] = "idle" /\ def.needs[j] \subseteq Done

(* The batch: decided and undecided jobs while the loop decides, running   *)
(* ones during gather.                                                     *)
BatchInv ==
    /\ phase = "decide" =>
        /\ todo \cap toRun = {}
        /\ (todo \cup toRun) \cap Done = {}
        /\ \A j \in todo : def.needs[j] \subseteq Done
        /\ \A j \in toRun : def.needs[j] \subseteq completed
    /\ phase = "gather" =>
        /\ toRun \cap Done = {}
        /\ \A j \in toRun : co[j] # "idle"
    /\ phase \in {"start", "schedule", "decide", "finished"} =>
        \A j \in Jobs : co[j] # "idle" => j \in completed \cup failed
    /\ phase = "gather" =>
        \A j \in Jobs \ toRun : co[j] # "idle" => j \in completed \cup failed
    /\ phase \in {"abort", "aborted"} =>
        \A j \in Jobs : co[j] # "idle" =>
            co[j] \in Returned \/ (cancelRequested /\ co[j] = "dropped")

(* How a run may end. *)
EndInv ==
    /\ phase = "finished" => Done = Jobs
    /\ phase \in {"abort", "aborted"} /\ error = "activity" /\ ~cancelRequested =>
        def.onError # "continue" /\ \E j \in Jobs : co[j] = "raised"
    /\ phase # "closed" <=> outcome = "open"
    /\ error # "stuck"

(* Why jobs were skipped, and why inputs could not be rendered. *)
ReasonInv ==
    /\ \A j \in skipped : UpstreamSettledBadly(j) \/ j \in def.conditional
    /\ \A j \in Jobs : co[j] = "unrendered" =>
        j \in def.badInputs \/ def.reads[j] \cap lacks # {}

IInv == TypeOK /\ SetsInv /\ NeedsInv /\ BatchInv /\ EndInv /\ ReasonInv

EventTypes == {"execution_started"} \cup TerminalEvents \cup JobEvents

-----------------------------------------------------------------------------
(* Lemmas *)

(* Emitting a well-formed event keeps the events' types. *)
LEMMA EmitType ==
    ASSUME TypeOK, NEW t \in EventTypes, NEW j \in Jobs \cup {NoJob}, Emit(t, j)
    PROVE  /\ log' \in Seq(Event) /\ task' \in Seq(Event)
           /\ told' \in 0..Len(task') /\ repeats' \in 0..MaxRepeats + 1
<1>1. [type |-> t, job |-> j] \in Event
  BY DEF Event, EventTypes
<1>2. log \in Seq(Event) /\ task \in Seq(Event) /\ Len(task) \in Nat
  BY DEF TypeOK
<1>3. /\ log' = Append(log, [type |-> t, job |-> j])
      /\ task' = Append(task, [type |-> t, job |-> j])
      /\ told' = Len(task) + 1 /\ repeats' = repeats
  BY DEF Emit, UpToDate
<1>. QED
  BY <1>1, <1>2, <1>3 DEF TypeOK

(* A new attempt of the workflow task does so too, and what it leaves.     *)
LEMMA TaskType ==
    ASSUME TypeOK,
           TaskCompletes \/ TaskIsLost \/ TaskRetries \/ EmitAgain \/ CancelCaught
    PROVE  /\ log' \in Seq(Event) /\ task' \in Seq(Event)
           /\ told' \in 0..Len(task') /\ repeats' \in 0..MaxRepeats + 1
<1>1. /\ log \in Seq(Event) /\ task \in Seq(Event) /\ Len(task) \in Nat
      /\ told \in 0..Len(task) /\ repeats \in 0..MaxRepeats + 1 /\ MaxRepeats \in Nat
  BY MaxRepeatsAssumption DEF TypeOK
<1>2. CASE TaskCompletes
  BY <1>1, <1>2 DEF TaskCompletes
<1>3. CASE TaskIsLost \/ TaskRetries
  BY <1>1, <1>3 DEF TaskIsLost, TaskRetries
<1>4. CASE EmitAgain
  <2>1. told + 1 \in 1..Len(task)
    BY <1>1, <1>4 DEF EmitAgain, UpToDate
  <2>2. task[told + 1] \in Event
    BY <1>1, <2>1
  <2>3. log' \in Seq(Event)
    BY <1>1, <1>4, <2>2 DEF EmitAgain
  <2>. QED
    BY <1>1, <1>4, <2>1, <2>3 DEF EmitAgain
<1>5. CASE CancelCaught
  BY <1>1, <1>5 DEF CancelCaught
<1>. QED
  BY <1>2, <1>3, <1>4, <1>5

LEMMA TypeInit == Init => TypeOK
<1>. SUFFICES ASSUME Init PROVE TypeOK
  OBVIOUS
<1>1. def \in Definition /\ Valid(def)
  BY DefinitionsAssumption DEF Init
<1>2. co \in [Jobs -> CoStates]
  BY DEF Init, CoStates
<1>3. log \in Seq(Event) /\ task \in Seq(Event) /\ told \in 0..Len(task)
  BY DEF Init
<1>4. repeats \in 0..MaxRepeats + 1
  BY MaxRepeatsAssumption DEF Init
<1>. QED
  BY <1>1, <1>2, <1>3, <1>4 DEF Init, TypeOK, Phases, Errors

(* The type invariant is inductive by itself. *)
LEMMA TypeStep ==
    ASSUME TypeOK, [Next]_vars
    PROVE  TypeOK'
<1>. USE DEF TypeOK
<1>e. EventTypes = {"execution_started", "execution_finished", "execution_failed",
        "job_started", "job_succeeded", "job_failed", "job_skipped"}
  BY DEF EventTypes, TerminalEvents, JobEvents
<1>. DEFINE EventsOK == /\ log \in Seq(Event) /\ task \in Seq(Event)
                        /\ told \in 0..Len(task) /\ repeats \in 0..MaxRepeats + 1
<1>t. \A t \in EventTypes : \A j \in Jobs \cup {NoJob} : Emit(t, j) => EventsOK'
  BY EmitType
<1>u. UNCHANGED eventVars => EventsOK'
  BY DEF eventVars
<1>w. TaskCompletes \/ TaskIsLost \/ TaskRetries \/ EmitAgain \/ CancelCaught => EventsOK'
  BY TaskType
<1>x. EventsOK' => /\ log' \in Seq(Event) /\ task' \in Seq(Event)
                   /\ told' \in 0..Len(task)' /\ repeats' \in 0..MaxRepeats + 1
  OBVIOUS
<1>. HIDE DEF EventsOK
<1>1. CASE EmitStarted
  <2>1. EventsOK'
    BY <1>1, <1>t, <1>e DEF EmitStarted
  <2>. QED
    BY <1>1, <1>x, <2>1 DEF EmitStarted, Phases, dataVars
<1>2. CASE Schedule
  <2>1. EventsOK'
    BY <1>2, <1>u DEF Schedule
  <2>. QED
    BY <1>2, <1>x, <2>1 DEF Schedule, Ready, Phases, Errors, dataVars
<1>3. ASSUME NEW j \in Jobs, SkipJob(j) PROVE TypeOK'
  <2>1. EventsOK'
    BY <1>3, <1>t, <1>e DEF SkipJob
  <2>. QED
    BY <1>3, <1>x, <2>1 DEF SkipJob, Phases
<1>4. ASSUME NEW j \in Jobs, AdmitJob(j) PROVE TypeOK'
  <2>1. EventsOK'
    BY <1>4, <1>u DEF AdmitJob
  <2>. QED
    BY <1>4, <1>x, <2>1 DEF AdmitJob, dataVars
<1>5. ASSUME NEW j \in Jobs, ConditionRaises(j) PROVE TypeOK'
  <2>1. EventsOK'
    BY <1>5, <1>u DEF ConditionRaises
  <2>. QED
    BY <1>5, <1>x, <2>1 DEF ConditionRaises, Phases, Errors, dataVars
<1>6. CASE Gather
  <2>1. EventsOK'
    BY <1>6, <1>u DEF Gather
  <2>. QED
    BY <1>6, <1>x, <2>1 DEF Gather, Phases, CoStates, dataVars
<1>7. CASE CollectBatch
  <2>1. EventsOK'
    BY <1>7, <1>u DEF CollectBatch
  <2>. QED
    BY <1>7, <1>x, <2>1 DEF CollectBatch, Raised, Phases
<1>8. ASSUME NEW f \in Jobs, CollectRaises(f) PROVE TypeOK'
  <2>1. EventsOK'
    BY <1>8, <1>u DEF CollectRaises
  <2>. QED
    BY <1>8, <1>x, <2>1 DEF CollectRaises, Phases, Errors
<1>9. CASE EmitFailed
  <2>1. EventsOK'
    BY <1>9, <1>t, <1>e DEF EmitFailed
  <2>. QED
    BY <1>9, <1>x, <2>1 DEF EmitFailed, Phases, dataVars
<1>10. CASE EmitFinished
  <2>1. EventsOK'
    BY <1>10, <1>t, <1>e DEF EmitFinished
  <2>. QED
    BY <1>10, <1>x, <2>1 DEF EmitFinished, Phases, dataVars
<1>11. ASSUME NEW j \in Jobs, JobStep(j) PROVE TypeOK'
  <2>1. CASE EmitJobStarted(j) \/ EmitJobSucceeded(j) \/ EmitJobFailed(j)
    <3>1. EventsOK'
      BY <2>1, <1>t, <1>e DEF EmitJobStarted, EmitJobSucceeded, EmitJobFailed
    <3>. QED
      BY <2>1, <1>x, <3>1
      DEF EmitJobStarted, EmitJobSucceeded, EmitJobFailed, Step, CoStates
  <2>2. ASSUME NEW lacking \in BOOLEAN, RunJobSucceeds(j, lacking) PROVE TypeOK'
    <3>1. EventsOK'
      BY <2>2, <1>u DEF RunJobSucceeds
    <3>. QED
      BY <2>2, <1>x, <3>1 DEF RunJobSucceeds, Step, CoStates
  <2>3. CASE RunJobFails(j) \/ DropJob(j)
    <3>1. EventsOK'
      BY <2>3, <1>u DEF RunJobFails, DropJob
    <3>. QED
      BY <2>3, <1>x, <3>1 DEF RunJobFails, DropJob, Step, CoStates
  <2>. QED
    BY <1>11, <2>1, <2>2, <2>3 DEF JobStep
<1>12. CASE Completes \/ Fails \/ Cancels
  <2>1. EventsOK'
    BY <1>12, <1>u DEF Completes, Fails, Cancels, Close
  <2>. QED
    BY <1>12, <1>x, <2>1 DEF Completes, Fails, Cancels, Close, Phases, dataVars
<1>13. CASE TaskCompletes \/ TaskIsLost \/ TaskRetries \/ EmitAgain
  BY <1>13, <1>w, <1>x
  DEF TaskCompletes, TaskIsLost, TaskRetries, EmitAgain, controlVars, dataVars
<1>14. CASE RequestCancel
  <2>1. EventsOK'
    BY <1>14, <1>u DEF RequestCancel
  <2>. QED
    BY <1>14, <1>x, <2>1 DEF RequestCancel, dataVars
<1>15. CASE CancelCaught
  BY <1>15, <1>w, <1>x DEF CancelCaught, Phases, Errors, dataVars
<1>16. CASE UNCHANGED vars
  <2>1. EventsOK'
    BY <1>16, <1>u DEF vars, eventVars
  <2>. QED
    BY <1>16, <1>x, <2>1 DEF vars
<1>. QED
  BY <1>1, <1>2, <1>3, <1>4, <1>5, <1>6, <1>7, <1>8, <1>9, <1>10, <1>11, <1>12,
     <1>13, <1>14, <1>15, <1>16
  DEF Next, MainStep, TemporalStep, Terminated

(* A run is always in a well-formed state (run_dag's phases, its three     *)
(* sets, the states of its coroutines and its event log).                  *)
THEOREM TypeCorrect == Spec => []TypeOK
<1>1. Init => TypeOK
  BY TypeInit
<1>2. TypeOK /\ [Next]_vars => TypeOK'
  BY TypeStep
<1>. QED
  BY <1>1, <1>2, PTL DEF Spec
-----------------------------------------------------------------------------
(* The invariant is inductive. *)

(* Attempts of the workflow task do not matter to it. *)
LEMMA ControlUnchanged ==
    ASSUME IInv, TypeOK', UNCHANGED controlVars
    PROVE  IInv'
<1>1. UNCHANGED <<def, phase, todo, toRun, co, lacks, completed, skipped, failed,
                  error, cancelRequested, outcome>>
  BY DEF controlVars, dataVars
<1>2. SetsInv' /\ NeedsInv' /\ BatchInv'
  BY <1>1 DEF IInv, SetsInv, NeedsInv, BatchInv, Done
<1>3. EndInv' /\ ReasonInv'
  BY <1>1 DEF IInv, EndInv, ReasonInv, UpstreamSettledBadly, Done
<1>. QED
  BY <1>2, <1>3 DEF IInv

LEMMA InvStep ==
    ASSUME IInv, [Next]_vars
    PROVE  IInv'
<1>. USE DEF IInv
<1>0. TypeOK /\ TypeOK'
  BY TypeStep
<1>1. CASE EmitStarted
  <2>1. SetsInv'
    BY <1>0, <1>1 DEF EmitStarted, dataVars, SetsInv, TypeOK, Done
  <2>2. NeedsInv'
    BY <1>0, <1>1 DEF EmitStarted, dataVars, NeedsInv, TypeOK, Done
  <2>3. BatchInv'
    BY <1>0, <1>1 DEF EmitStarted, dataVars, BatchInv, TypeOK, Done
  <2>4. EndInv'
    BY <1>0, <1>1 DEF EmitStarted, dataVars, EndInv, TypeOK, Done
  <2>5. ReasonInv'
    BY <1>0, <1>1 DEF EmitStarted, dataVars, ReasonInv, TypeOK, Done, UpstreamSettledBadly
  <2>. QED
    BY <1>0, <2>1, <2>2, <2>3, <2>4, <2>5
<1>2. CASE Schedule
  <2>1. SetsInv'
    BY <1>0, <1>2 DEF Schedule, Ready, dataVars, SetsInv, TypeOK, Done
  <2>2. NeedsInv'
    BY <1>0, <1>2 DEF Schedule, Ready, dataVars, NeedsInv, TypeOK, Done
  <2>3. BatchInv'
    BY <1>0, <1>2 DEF SetsInv, Returned, Schedule, Ready, dataVars, BatchInv, TypeOK, Done
  <2>4. EndInv'
    <3>1. Ready # {}
      <4>1. Jobs \ Done # {} /\ Jobs \ Done \in SUBSET Jobs
        BY <1>2 DEF Schedule, TypeOK, Done
      <4>2. PICK j \in Jobs \ Done : def.needs[j] \cap (Jobs \ Done) = {}
        BY <4>1, <1>0 DEF TypeOK, Valid, Acyclic
      <4>3. def.needs[j] \subseteq Jobs
        BY <1>0, <4>2 DEF TypeOK, Definition
      <4>. QED
        BY <4>2, <4>3 DEF Ready
    <3>. QED
      BY <1>2, <3>1 DEF Schedule, EndInv, dataVars
  <2>5. ReasonInv'
    BY <1>0, <1>2 DEF Schedule, Ready, dataVars, ReasonInv, TypeOK, Done, UpstreamSettledBadly
  <2>. QED
    BY <1>0, <2>1, <2>2, <2>3, <2>4, <2>5
<1>3. ASSUME NEW j \in Jobs, SkipJob(j) PROVE IInv'
  <2>1. SetsInv'
    BY <1>0, <1>3 DEF BatchInv, IsFirst, SkipJob, SetsInv, TypeOK, Done
  <2>2. NeedsInv'
    BY <1>0, <1>3 DEF BatchInv, SetsInv, IsFirst, UpstreamSettledBadly, SkipJob, NeedsInv, TypeOK, Done
  <2>3. BatchInv'
    BY <1>0, <1>3 DEF IsFirst, SkipJob, BatchInv, TypeOK, Done
  <2>4. EndInv'
    BY <1>0, <1>3 DEF SkipJob, EndInv, TypeOK, Done
  <2>5. ReasonInv'
    BY <1>0, <1>3 DEF BatchInv, SetsInv, IsFirst, UpstreamSettledBadly, SkipJob, ReasonInv, TypeOK, Done
  <2>. QED
    BY <1>0, <2>1, <2>2, <2>3, <2>4, <2>5
<1>4. ASSUME NEW j \in Jobs, AdmitJob(j) PROVE IInv'
  <2>1. SetsInv'
    BY <1>0, <1>4 DEF AdmitJob, UpstreamSettledBadly, dataVars, SetsInv, TypeOK, Done
  <2>2. NeedsInv'
    BY <1>0, <1>4 DEF AdmitJob, UpstreamSettledBadly, dataVars, NeedsInv, TypeOK, Done
  <2>3. BatchInv'
    BY <1>0, <1>4 DEF SetsInv, IsFirst, AdmitJob, UpstreamSettledBadly, dataVars, BatchInv, TypeOK, Done
  <2>4. EndInv'
    BY <1>0, <1>4 DEF AdmitJob, UpstreamSettledBadly, dataVars, EndInv, TypeOK, Done
  <2>5. ReasonInv'
    BY <1>0, <1>4 DEF AdmitJob, UpstreamSettledBadly, dataVars, ReasonInv, TypeOK, Done
  <2>. QED
    BY <1>0, <2>1, <2>2, <2>3, <2>4, <2>5
<1>5. ASSUME NEW j \in Jobs, ConditionRaises(j) PROVE IInv'
  <2>1. SetsInv'
    BY <1>0, <1>5 DEF ConditionRaises, dataVars, SetsInv, TypeOK, Done
  <2>2. NeedsInv'
    BY <1>0, <1>5 DEF ConditionRaises, dataVars, NeedsInv, TypeOK, Done
  <2>3. BatchInv'
    BY <1>0, <1>5 DEF SetsInv, Returned, ConditionRaises, dataVars, BatchInv, TypeOK, Done
  <2>4. EndInv'
    BY <1>0, <1>5 DEF ConditionRaises, dataVars, EndInv, TypeOK, Done
  <2>5. ReasonInv'
    BY <1>0, <1>5 DEF ConditionRaises, dataVars, ReasonInv, TypeOK, Done, UpstreamSettledBadly
  <2>. QED
    BY <1>0, <2>1, <2>2, <2>3, <2>4, <2>5
<1>6. CASE Gather
  <2>1. SetsInv'
    BY <1>0, <1>6 DEF BatchInv, Gather, dataVars, SetsInv, TypeOK, Done
  <2>2. NeedsInv'
    BY <1>0, <1>6 DEF BatchInv, Gather, dataVars, NeedsInv, TypeOK, Done
  <2>3. BatchInv'
    BY <1>0, <1>6 DEF Gather, dataVars, BatchInv, TypeOK, Done
  <2>4. EndInv'
    BY <1>0, <1>6 DEF Gather, dataVars, EndInv, TypeOK, Done
  <2>5. ReasonInv'
    BY <1>0, <1>6 DEF BatchInv, Gather, Renders, Resolvable, Valid, dataVars, ReasonInv, TypeOK, UpstreamSettledBadly
  <2>. QED
    BY <1>0, <2>1, <2>2, <2>3, <2>4, <2>5
<1>7. CASE CollectBatch
  <2>1. SetsInv'
    BY <1>0, <1>7 DEF BatchInv, CollectBatch, Raised, AllReturned, SetsInv, TypeOK, Done
  <2>2. NeedsInv'
    BY <1>0, <1>7 DEF CollectBatch, Raised, AllReturned, NeedsInv, TypeOK, Done
  <2>3. BatchInv'
    BY <1>0, <1>7 DEF CollectBatch, Raised, AllReturned, BatchInv, TypeOK, Done
  <2>4. EndInv'
    BY <1>0, <1>7 DEF CollectBatch, Raised, AllReturned, EndInv, TypeOK, Done
  <2>5. ReasonInv'
    BY <1>0, <1>7 DEF CollectBatch, Raised, AllReturned, ReasonInv, TypeOK, Done, UpstreamSettledBadly
  <2>. QED
    BY <1>0, <2>1, <2>2, <2>3, <2>4, <2>5
<1>8. ASSUME NEW f \in Jobs, CollectRaises(f) PROVE IInv'
  <2>1. SetsInv'
    <3>1. ASSUME NEW j \in toRun, j < f PROVE co[j] = "ok"
      <4>1. j \in Nat /\ f \in Nat
        BY <1>0 DEF TypeOK, Jobs
      <4>2. j \notin Raised
        BY <1>8, <3>1, <4>1 DEF CollectRaises, IsFirst
      <4>. QED
        BY <1>8, <4>2 DEF CollectRaises, AllReturned, Raised
    <3>. QED
      BY <1>0, <1>8, <3>1 DEF CollectRaises, BatchInv, SetsInv, Done
  <2>2. NeedsInv'
    BY <1>0, <1>8 DEF CollectRaises, Raised, AllReturned, NeedsInv, TypeOK, Done
  <2>3. BatchInv'
    BY <1>0, <1>8 DEF SetsInv, Returned, IsFirst, CollectRaises, Raised, AllReturned, BatchInv, TypeOK, Done
  <2>4. EndInv'
    BY <1>0, <1>8 DEF IsFirst, CollectRaises, Raised, AllReturned, EndInv, TypeOK, Done
  <2>5. ReasonInv'
    BY <1>0, <1>8 DEF CollectRaises, Raised, AllReturned, ReasonInv, TypeOK, Done, UpstreamSettledBadly
  <2>. QED
    BY <1>0, <2>1, <2>2, <2>3, <2>4, <2>5
<1>9. CASE EmitFailed
  <2>1. SetsInv'
    BY <1>0, <1>9 DEF EmitFailed, dataVars, SetsInv, TypeOK, Done
  <2>2. NeedsInv'
    BY <1>0, <1>9 DEF EmitFailed, dataVars, NeedsInv, TypeOK, Done
  <2>3. BatchInv'
    BY <1>0, <1>9 DEF EmitFailed, dataVars, BatchInv, TypeOK, Done
  <2>4. EndInv'
    BY <1>0, <1>9 DEF EmitFailed, dataVars, EndInv, TypeOK, Done
  <2>5. ReasonInv'
    BY <1>0, <1>9 DEF EmitFailed, dataVars, ReasonInv, TypeOK, Done, UpstreamSettledBadly
  <2>. QED
    BY <1>0, <2>1, <2>2, <2>3, <2>4, <2>5
<1>10. CASE EmitFinished
  <2>1. SetsInv'
    BY <1>0, <1>10 DEF EmitFinished, dataVars, SetsInv, TypeOK, Done
  <2>2. NeedsInv'
    BY <1>0, <1>10 DEF EmitFinished, dataVars, NeedsInv, TypeOK, Done
  <2>3. BatchInv'
    BY <1>0, <1>10 DEF EmitFinished, dataVars, BatchInv, TypeOK, Done
  <2>4. EndInv'
    BY <1>0, <1>10 DEF EmitFinished, dataVars, EndInv, TypeOK, Done
  <2>5. ReasonInv'
    BY <1>0, <1>10 DEF EmitFinished, dataVars, ReasonInv, TypeOK, Done, UpstreamSettledBadly
  <2>. QED
    BY <1>0, <2>1, <2>2, <2>3, <2>4, <2>5
<1>11. ASSUME NEW j \in Jobs, JobStep(j) PROVE IInv'
  <2>1. SetsInv'
    BY <1>0, <1>11 DEF JobStep, EmitJobStarted, RunJobSucceeds, RunJobFails, EmitJobSucceeded, EmitJobFailed, DropJob, Step, SetsInv, TypeOK, Done
  <2>2. NeedsInv'
    BY <1>0, <1>11 DEF JobStep, EmitJobStarted, RunJobSucceeds, RunJobFails, EmitJobSucceeded, EmitJobFailed, DropJob, Step, NeedsInv, TypeOK, Done
  <2>3. BatchInv'
    BY <1>0, <1>11 DEF JobStep, EmitJobStarted, RunJobSucceeds, RunJobFails, EmitJobSucceeded, EmitJobFailed, DropJob, Step, BatchInv, TypeOK, Done
  <2>4. EndInv'
    BY <1>0, <1>11 DEF JobStep, EmitJobStarted, RunJobSucceeds, RunJobFails, EmitJobSucceeded, EmitJobFailed, DropJob, Step, EndInv, TypeOK, Done
  <2>5. ReasonInv'
    BY <1>0, <1>11 DEF JobStep, EmitJobStarted, RunJobSucceeds, RunJobFails, EmitJobSucceeded, EmitJobFailed, DropJob, Step, ReasonInv, TypeOK, Done, UpstreamSettledBadly
  <2>. QED
    BY <1>0, <2>1, <2>2, <2>3, <2>4, <2>5
<1>12. CASE Completes \/ Fails \/ Cancels
  <2>1. SetsInv'
    BY <1>0, <1>12 DEF Completes, Fails, Cancels, Close, dataVars, SetsInv, TypeOK, Done
  <2>2. NeedsInv'
    BY <1>0, <1>12 DEF Completes, Fails, Cancels, Close, dataVars, NeedsInv, TypeOK, Done
  <2>3. BatchInv'
    BY <1>0, <1>12 DEF Completes, Fails, Cancels, Close, dataVars, BatchInv, TypeOK, Done
  <2>4. EndInv'
    BY <1>0, <1>12 DEF Completes, Fails, Cancels, Close, dataVars, EndInv, TypeOK, Done
  <2>5. ReasonInv'
    BY <1>0, <1>12 DEF Completes, Fails, Cancels, Close, dataVars, ReasonInv, TypeOK, Done, UpstreamSettledBadly
  <2>. QED
    BY <1>0, <2>1, <2>2, <2>3, <2>4, <2>5
<1>13. CASE TaskCompletes \/ TaskIsLost \/ TaskRetries \/ EmitAgain
  BY <1>0, <1>13, ControlUnchanged DEF TaskCompletes, TaskIsLost, TaskRetries, EmitAgain
<1>15. CASE RequestCancel \/ CancelCaught
  <2>1. SetsInv'
    BY <1>0, <1>15 DEF RequestCancel, CancelCaught, dataVars, SetsInv, TypeOK, Done
  <2>2. NeedsInv'
    BY <1>0, <1>15 DEF RequestCancel, CancelCaught, dataVars, NeedsInv, TypeOK, Done
  <2>3. BatchInv'
    <3>1. CASE RequestCancel
      BY <1>0, <3>1 DEF RequestCancel, dataVars, BatchInv, TypeOK, Done
    <3>2. CASE CancelCaught
      BY <1>0, <3>2 DEF Returned, CancelCaught, BatchInv, TypeOK, CoStates
    <3>. QED
      BY <1>15, <3>1, <3>2
  <2>4. EndInv'
    BY <1>0, <1>15 DEF RequestCancel, CancelCaught, dataVars, EndInv, TypeOK, Done
  <2>5. ReasonInv'
    BY <1>0, <1>15 DEF RequestCancel, CancelCaught, dataVars, ReasonInv, TypeOK, Done, UpstreamSettledBadly
  <2>. QED
    BY <1>0, <2>1, <2>2, <2>3, <2>4, <2>5
<1>14. CASE UNCHANGED vars
  BY <1>0, <1>14, ControlUnchanged DEF vars, controlVars, dataVars
<1>. QED
  BY <1>1, <1>2, <1>3, <1>4, <1>5, <1>6, <1>7, <1>8, <1>9, <1>10, <1>11, <1>12, <1>13,
     <1>14, <1>15
  DEF Next, MainStep, TemporalStep, Terminated

LEMMA InvInit == Init => IInv
<1>. SUFFICES ASSUME Init PROVE IInv
  OBVIOUS
<1>1. TypeOK
  BY TypeInit
<1>. QED
  BY <1>1 DEF Init, IInv, TypeOK, SetsInv, NeedsInv, BatchInv, EndInv, ReasonInv, Done

THEOREM Invariance == Spec => []IInv
<1>1. IInv /\ [Next]_vars => IInv'
  BY InvStep
<1>. QED
  BY InvInit, <1>1, PTL DEF Spec

-----------------------------------------------------------------------------
(* What the invariant gives *)

(* A set closed under needs that contains what j needs contains all its    *)
(* ancestors.                                                              *)
LEMMA AncestorsWithin ==
    ASSUME NEW needs, NEW j, NEW S \in SUBSET Jobs,
           needs[j] \subseteq S, ClosedUnder(needs, S)
    PROVE  Ancestors(needs, Jobs, j) \subseteq S
BY DEF Ancestors

(* ready_jobs and _skip_reason never let a job start before everything it  *)
(* depends on, however indirectly, has succeeded.                          *)
THEOREM AncestorsFirst == Spec => []StartsAfterAncestors
<1>1. IInv => StartsAfterAncestors
  <2>. SUFFICES ASSUME IInv, NEW j \in Jobs, co[j] # "idle"
                PROVE  Ancestors(def.needs, Jobs, j) \subseteq completed
    BY DEF StartsAfterAncestors
  <2>1. completed \in SUBSET Jobs
    BY DEF IInv, TypeOK
  <2>2. def.needs[j] \subseteq completed /\ ClosedUnder(def.needs, completed)
    BY <2>1 DEF IInv, NeedsInv, SetsInv, ClosedUnder
  <2>. QED
    BY <2>1, <2>2, AncestorsWithin
<1>. QED
  BY <1>1, Invariance, PTL

(* The RuntimeError of the batch loop is unreachable: a validated          *)
(* definition always has a ready job while jobs are left.                  *)
THEOREM LoopProgresses == Spec => []NeverStuck
<1>1. IInv => NeverStuck
  BY DEF IInv, EndInv, NeverStuck
<1>. QED
  BY <1>1, Invariance, PTL

(* Rendering a validated job's inputs fails only for an expression of a    *)
(* form that rendering rejects, or for an output that a job they read      *)
(* announced and did not produce.                                          *)
THEOREM ScopeIsComplete == Spec => []InputsAreInScope
<1>1. IInv => InputsAreInScope
  BY DEF IInv, ReasonInv, InputsAreInScope
<1>. QED
  BY <1>1, Invariance, PTL

(* A finished run has decided every job once and for a reason, and has     *)
(* failed jobs only under on_error "continue".                             *)
THEOREM FinishedRunsAccount == Spec => []FinishedRunAccountsForJobs
<1>1. IInv => FinishedRunAccountsForJobs
  <2>. SUFFICES ASSUME IInv, phase = "finished"
                PROVE  FinishedRunAccountsForJobs
    BY DEF FinishedRunAccountsForJobs
  <2>1. completed \in SUBSET Jobs /\ failed \in SUBSET Jobs
    BY DEF IInv, TypeOK
  <2>2. ASSUME NEW j \in completed \cup failed
        PROVE  Ancestors(def.needs, Jobs, j) \subseteq completed
    <3>1. def.needs[j] \subseteq completed /\ ClosedUnder(def.needs, completed)
      BY <2>1, <2>2 DEF IInv, NeedsInv, SetsInv, ClosedUnder
    <3>. QED
      BY <2>1, <3>1, AncestorsWithin
  <2>. QED
    BY <2>2 DEF IInv, SetsInv, EndInv, ReasonInv, FinishedRunAccountsForJobs
<1>. QED
  BY <1>1, Invariance, PTL

-----------------------------------------------------------------------------
(* The interpreter implements DagRun. *)

LEMMA RefinesInit == Init => Run!Init
<1>. SUFFICES ASSUME Init PROVE Run!Init
  OBVIOUS
<1>1. planOf(def) \in {planOf(d) : d \in Definitions}
  BY DEF Init
<1>2. statusOf = [j \in Jobs |-> "pending"]
  BY DEF Init, statusOf
<1>. QED
  BY <1>1, <1>2 DEF Init, Run!Init

(* A coroutine's step changes the status of its own job only. *)
LEMMA StepStatus ==
    ASSUME IInv, NEW j \in Jobs, NEW from, NEW to, Step(j, from, to), from # "idle"
    PROVE  statusOf' = [k \in Jobs |->
                IF k = j THEN CASE to \in {"idle", "starting"} -> "pending"
                                [] to = "running" -> "running"
                                [] to \in {"succeeding", "ok"} -> "succeeded"
                                [] to \in {"failing", "raised", "unrendered"} -> "failed"
                                [] OTHER -> "dropped"
                ELSE statusOf[k]]
BY DEF IInv, TypeOK, NeedsInv, Step, statusOf

(* The status of a job whose coroutine returned is the coroutine's. *)
LEMMA StatusValues ==
    ASSUME IInv, NEW j \in Jobs
    PROVE  /\ co[j] = "starting" => statusOf[j] = "pending"
           /\ co[j] = "running" => statusOf[j] = "running"
           /\ co[j] \in {"succeeding", "ok"} => statusOf[j] = "succeeded"
           /\ co[j] \in {"failing", "raised", "unrendered"} => statusOf[j] = "failed"
           /\ j \in skipped => statusOf[j] = "skipped"
           /\ co[j] = "idle" /\ j \notin skipped => statusOf[j] = "pending"
           /\ j \in completed => statusOf[j] = "succeeded"
           /\ statusOf[j] = "running" => co[j] = "running"
           /\ statusOf[j] = "failed" => co[j] \in {"failing", "raised", "unrendered"}
BY DEF IInv, TypeOK, CoStates, SetsInv, NeedsInv, statusOf

(* A step that changes neither coroutines nor skipped jobs nor the run's   *)
(* outcome is invisible.                                                   *)
LEMMA Invisible ==
    ASSUME UNCHANGED <<def, co, skipped, outcome>>
    PROVE  UNCHANGED Run!vars
BY DEF Run!vars, planOf, statusOf

LEMMA RefinesStep ==
    ASSUME IInv, IInv', [Next]_vars
    PROVE  [Run!Next]_Run!vars
<1>t. TypeOK /\ TypeOK'
  BY DEF IInv
<1>1. CASE EmitStarted \/ Schedule \/ CollectBatch \/ EmitFailed \/ EmitFinished
           \/ TaskCompletes \/ TaskIsLost \/ TaskRetries \/ EmitAgain
           \/ RequestCancel \/ CancelCaught \/ UNCHANGED vars
  BY <1>1, Invisible
  DEF EmitStarted, Schedule, CollectBatch, EmitFailed, EmitFinished, TaskCompletes,
      TaskIsLost, TaskRetries, EmitAgain, RequestCancel, CancelCaught, controlVars,
      dataVars, vars
<1>2. ASSUME NEW j \in Jobs,
             AdmitJob(j) \/ ConditionRaises(j) \/ CollectRaises(j)
      PROVE  UNCHANGED Run!vars
  BY <1>2, Invisible DEF AdmitJob, ConditionRaises, CollectRaises, dataVars
<1>3. ASSUME NEW j \in Jobs, SkipJob(j) PROVE Run!Skip(j)
  <2>1. j \in todo /\ j \notin Done /\ co[j] = "idle" /\ phase = "decide"
    BY <1>3, <1>t DEF SkipJob, IsFirst, IInv, BatchInv, Done, TypeOK
  <2>2. statusOf[j] = "pending" /\ outcome = "open"
    BY <2>1, StatusValues DEF Done, IInv, EndInv
  <2>3. ASSUME NEW k \in def.needs[j] PROVE statusOf[k] \in Run!Settled
    <3>1. k \in Done /\ k \in Jobs
      BY <2>1, <2>3, <1>t DEF IInv, BatchInv, TypeOK, Definition
    <3>. QED
      BY <3>1, StatusValues DEF Done, Run!Settled, IInv, SetsInv
  <2>4. statusOf' = [k \in Jobs |-> IF k \in {j} THEN "skipped" ELSE statusOf[k]]
    BY <1>3 DEF SkipJob, statusOf
  <2>. QED
    BY <1>3, <2>2, <2>3, <2>4 DEF SkipJob, Run!Skip, Run!Become, planOf
<1>4. CASE Gather
  <2>. DEFINE S == {j \in toRun : ~Renders(j)}
  <2>1. S \in SUBSET Jobs /\ outcome = "open"
    BY <1>4, <1>t DEF Gather, TypeOK, IInv, EndInv
  <2>2. ASSUME NEW j \in toRun
        PROVE  j \in Jobs /\ co[j] = "idle" /\ j \notin skipped
    BY <1>4, <1>t DEF Gather, IInv, BatchInv, Done, TypeOK
  <2>3. ASSUME NEW j \in S
        PROVE  statusOf[j] = "pending"
               /\ \A k \in def.needs[j] : statusOf[k] = "succeeded"
    BY <1>4, <1>t, <2>2, StatusValues DEF Gather, IInv, BatchInv, TypeOK
  <2>4. statusOf' = [j \in Jobs |-> IF j \in S THEN "failed" ELSE statusOf[j]]
    BY <1>4, <1>t, <2>2 DEF Gather, statusOf, dataVars, TypeOK
  <2>5. Run!FailUnstarted(S)
    BY <1>4, <2>1, <2>3, <2>4
    DEF Gather, Run!FailUnstarted, Run!NeedsSucceeded, Run!Become, planOf
  <2>. QED
    BY <2>1, <2>5 DEF Run!Next
<1>5. ASSUME NEW j \in Jobs, JobStep(j)
      PROVE  Run!Start(j) \/ Run!End(j) \/ Run!Drop(j) \/ UNCHANGED Run!vars
  <2>o. phase = "gather" /\ outcome = "open" /\ UNCHANGED <<def, outcome>>
    BY <1>5 DEF JobStep, EmitJobStarted, RunJobSucceeds, RunJobFails,
       EmitJobSucceeded, EmitJobFailed, DropJob, Step, IInv, EndInv
  <2>1. CASE EmitJobStarted(j)
    <3>1. Step(j, "starting", "running")
      BY <2>1 DEF EmitJobStarted
    <3>2. statusOf' = [k \in Jobs |-> IF k \in {j} THEN "running" ELSE statusOf[k]]
      BY <3>1, StepStatus
    <3>3. co[j] = "starting"
      BY <3>1 DEF Step
    <3>4. \A k \in def.needs[j] : statusOf[k] = "succeeded"
      BY <3>3, <1>t, StatusValues DEF IInv, NeedsInv, TypeOK
    <3>. QED
      BY <2>o, <3>2, <3>3, <3>4, StatusValues
      DEF Run!Start, Run!NeedsSucceeded, Run!Become, planOf
  <2>2. CASE RunJobFails(j) \/ \E lacking \in BOOLEAN : RunJobSucceeds(j, lacking)
    <3>1. Step(j, "running", "failing") \/ Step(j, "running", "succeeding")
      BY <2>2 DEF RunJobFails, RunJobSucceeds
    <3>2. \/ statusOf' = [k \in Jobs |-> IF k \in {j} THEN "failed" ELSE statusOf[k]]
          \/ statusOf' = [k \in Jobs |-> IF k \in {j} THEN "succeeded" ELSE statusOf[k]]
      BY <3>1, StepStatus
    <3>3. statusOf[j] = "running"
      BY <3>1, StatusValues DEF Step
    <3>. QED
      BY <2>o, <3>2, <3>3 DEF Run!End, Run!Become, planOf
  <2>3. CASE EmitJobSucceeded(j) \/ EmitJobFailed(j)
    <3>1. Step(j, "succeeding", "ok") \/ Step(j, "failing", "raised")
      BY <2>3 DEF EmitJobSucceeded, EmitJobFailed
    <3>2. statusOf' = statusOf
      BY <3>1, <1>t DEF Step, statusOf, TypeOK, IInv, NeedsInv
    <3>. QED
      BY <2>o, <3>2 DEF Run!vars, planOf
  <2>4. CASE DropJob(j)
    <3>1. Step(j, "starting", "dropped") \/ Step(j, "running", "dropped")
      BY <2>4 DEF DropJob
    <3>2. statusOf' = [k \in Jobs |-> IF k \in {j} THEN "dropped" ELSE statusOf[k]]
      BY <3>1, StepStatus
    <3>3. statusOf[j] \in {"pending", "running"}
      BY <3>1, StatusValues DEF Step
    <3>. QED
      BY <2>o, <3>2, <3>3 DEF Run!Drop, Run!Become, planOf
  <2>. QED
    BY <1>5, <2>1, <2>2, <2>3, <2>4 DEF JobStep
<1>6. CASE Completes \/ Fails \/ Cancels
  <2>1. /\ outcome = "open" /\ outcome' \in {"completed", "failed", "cancelled"}
        /\ UNCHANGED <<def, co, skipped>>
    BY <1>6 DEF Completes, Fails, Cancels, Close, dataVars, IInv, EndInv
  <2>2. UNCHANGED <<planOf(def), statusOf>>
    BY <2>1 DEF statusOf
  <2>3. ASSUME NEW j \in Jobs PROVE statusOf[j] # "running"
    BY <1>6, StatusValues
    DEF Completes, Fails, Cancels, IInv, SetsInv, BatchInv, Returned
  <2>4. ASSUME outcome' = "completed", NEW j \in Jobs
        PROVE  /\ statusOf[j] \in Run!Settled
               /\ statusOf[j] = "failed" => planOf(def).tolerant
    <3>1. phase = "finished" /\ j \in Done
      BY <1>6, <2>4 DEF Completes, Fails, Cancels, Close, IInv, EndInv
    <3>2. statusOf[j] \in Run!Settled
      BY <3>1, StatusValues DEF Done, Run!Settled, IInv, SetsInv
    <3>3. statusOf[j] = "failed" => j \in failed
      BY <3>1, StatusValues DEF Done, IInv, SetsInv
    <3>. QED
      BY <3>2, <3>3 DEF IInv, SetsInv, planOf
  <2>5. ASSUME outcome' = "failed"
        PROVE  ~planOf(def).tolerant /\ \E j \in Jobs : statusOf[j] = "failed"
    <3>1. def.onError # "continue" /\ \E j \in Jobs : co[j] = "raised"
      BY <1>6, <2>5 DEF Completes, Fails, Cancels, Close, GoesOn, IInv, EndInv
    <3>. QED
      BY <3>1, StatusValues DEF planOf
  <2>6. Run!Close(outcome')
    BY <2>1, <2>2, <2>3, <2>4, <2>5 DEF Run!Close
  <2>. QED
    BY <2>1, <2>6 DEF Run!Next
<1>. QED
  BY <1>1, <1>2, <1>3, <1>4, <1>5, <1>6
  DEF Next, MainStep, TemporalStep, Terminated, Run!Next

(* run_dag keeps what DagRun promises of an execution: jobs start only     *)
(* after their needs succeeded, each ends or is skipped once, and the run  *)
(* closes only when nothing is left running, as completed only with every  *)
(* job settled and as failed only for a failure that is not tolerated.     *)
THEOREM Refinement == Spec => ImplementsDagRun
<1>1. IInv /\ IInv' /\ [Next]_vars => [Run!Next]_Run!vars
  BY RefinesStep
<1>. QED
  BY RefinesInit, <1>1, Invariance, PTL DEF Spec, ImplementsDagRun, Run!Spec

-----------------------------------------------------------------------------
(* The event log *)

Results == {"job_succeeded", "job_failed"}

(* What a published event says about the state. *)
EntryOK(e) ==
    /\ e.job = NoJob <=> e.type \notin JobEvents
    /\ e.type = "job_started" =>
          co[e.job] \in {"running", "succeeding", "failing", "ok", "raised", "dropped"}
    /\ e.type = "job_succeeded" => co[e.job] = "ok"
    /\ e.type = "job_failed" => co[e.job] = "raised"
    /\ e.type = "job_skipped" => e.job \in skipped
    /\ e.type = "execution_finished" =>
          \/ phase \in {"finished", "closed"}
          \/ cancelRequested /\ phase \in {"abort", "aborted"}
    /\ e.type = "execution_failed" => phase \in {"abort", "aborted", "closed"}

EntryInv == \A i \in DOMAIN log : EntryOK(log[i])

(* What the task that is not recorded yet has published: nothing but what  *)
(* the log holds, no start of a job that has succeeded since, and of a job *)
(* that returned both start and result or no start.                        *)
TaskInv ==
    /\ \A m \in DOMAIN task : \E i \in DOMAIN log : log[i] = task[m]
    /\ \A m \in DOMAIN task : task[m].type = "job_started" =>
          co[task[m].job] \notin {"succeeding", "ok"}
    /\ ~cancelRequested => \A m \in DOMAIN task :
          task[m].type = "job_started" /\ co[task[m].job] \in {"ok", "raised"} =>
              \E r \in DOMAIN task :
                  /\ r > m /\ task[r].job = task[m].job
                  /\ task[r].type \in Results

(* What the state says about the log: the start of a job that runs is in   *)
(* it, and every start of a job that returned has its result after it, or  *)
(* the attempt is still to publish it.                                     *)
TraceInv ==
    /\ \A j \in Jobs : co[j] \in {"running", "succeeding", "failing"} =>
          \E i \in DOMAIN log : log[i] = [type |-> "job_started", job |-> j]
    /\ ~cancelRequested => \A i \in DOMAIN log :
          log[i].type = "job_started" /\ co[log[i].job] \in {"ok", "raised"} =>
              \/ \E k \in DOMAIN log :
                    k > i /\ log[k].job = log[i].job /\ log[k].type \in Results
              \/ /\ repeats <= MaxRepeats
                 /\ \E m \in DOMAIN task :
                       /\ m > told /\ task[m].job = log[i].job
                       /\ task[m].type \in Results

(* Order within the log. *)
OrderInv ==
    /\ \A i, k \in DOMAIN log : i < k /\ ~IsRepeat(k) =>
        /\ log[i].type \in TerminalEvents =>
              cancelRequested /\ log[k].type = "execution_failed"
        /\ log[i].job = log[k].job /\ log[i].job # NoJob =>
              log[i].type = "job_started" /\ log[k].type \in Results
    /\ \A k \in DOMAIN log : log[k].type \in Results =>
        \E i \in 1..k-1 : log[i] = [type |-> "job_started", job |-> log[k].job]
    /\ \A i, k \in DOMAIN log :
        i < k /\ log[i].type = "job_succeeded" /\ log[i].job = log[k].job =>
            log[k].type # "job_started"

LogInv == EntryInv /\ TaskInv /\ TraceInv /\ OrderInv

(* How a step moves a coroutine, and the run. *)
CoMoves(j) ==
    \/ co'[j] = co[j]
    \/ co[j] = "idle" /\ co'[j] \in {"starting", "unrendered"}
    \/ co[j] = "starting" /\ co'[j] \in {"running", "dropped"}
    \/ co[j] = "running" /\ co'[j] \in {"succeeding", "failing", "dropped"}
    \/ co[j] = "succeeding" /\ co'[j] = "ok"
    \/ co[j] = "failing" /\ co'[j] = "raised"

Moves ==
    /\ \A j \in Jobs : CoMoves(j)
    /\ skipped \subseteq skipped'
    /\ cancelRequested => cancelRequested'
    /\ phase = "finished" =>
          phase' \in {"finished", "closed"} \/ (cancelRequested' /\ phase' = "abort")
    /\ phase \in {"abort", "aborted"} => phase' \in {"abort", "aborted", "closed"}
    /\ phase = "closed" => phase' = "closed"

LEMMA NextMoves ==
    ASSUME IInv, IInv', [Next]_vars
    PROVE  Moves
<1>t. TypeOK /\ TypeOK'
  BY DEF IInv
<1>1. CASE EmitStarted \/ Schedule \/ CollectBatch \/ EmitFailed \/ EmitFinished
  BY <1>1, <1>t
  DEF EmitStarted, Schedule, CollectBatch, EmitFailed, EmitFinished, GoesOn, dataVars,
      Moves, CoMoves
<1>2. ASSUME NEW j \in Jobs,
             SkipJob(j) \/ AdmitJob(j) \/ ConditionRaises(j) \/ CollectRaises(j)
      PROVE  Moves
  BY <1>2, <1>t
  DEF SkipJob, AdmitJob, ConditionRaises, CollectRaises, GoesOn, dataVars, Moves, CoMoves
<1>3. CASE Gather
  <2>1. ASSUME NEW j \in Jobs PROVE CoMoves(j)
    <3>1. CASE j \in toRun
      <4>1. co[j] = "idle"
        BY <1>3, <3>1, <1>t DEF Gather, IInv, BatchInv, Done, TypeOK
      <4>2. co'[j] \in {"starting", "unrendered"}
        BY <1>3, <3>1 DEF Gather
      <4>. QED
        BY <4>1, <4>2 DEF CoMoves
    <3>2. CASE j \notin toRun
      BY <1>3, <3>2 DEF Gather, CoMoves
    <3>. QED
      BY <3>1, <3>2
  <2>. QED
    BY <1>3, <2>1 DEF Gather, GoesOn, dataVars, Moves
<1>4. ASSUME NEW j \in Jobs, JobStep(j) PROVE Moves
  <2>1. /\ phase = "gather" /\ UNCHANGED <<phase, skipped, cancelRequested>>
        /\ \/ Step(j, "starting", "running") \/ Step(j, "running", "succeeding")
           \/ Step(j, "running", "failing") \/ Step(j, "succeeding", "ok")
           \/ Step(j, "failing", "raised")
           \/ Step(j, "starting", "dropped") \/ Step(j, "running", "dropped")
    BY <1>4 DEF JobStep, EmitJobStarted, RunJobSucceeds, RunJobFails,
       EmitJobSucceeded, EmitJobFailed, DropJob, Step
  <2>2. \A k \in Jobs : CoMoves(k)
    BY <2>1, <1>t DEF Step, TypeOK, CoMoves
  <2>. QED
    BY <2>1, <2>2 DEF Moves
<1>5. CASE TaskCompletes \/ TaskIsLost \/ TaskRetries \/ EmitAgain
  BY <1>5
  DEF TaskCompletes, TaskIsLost, TaskRetries, EmitAgain, controlVars, dataVars,
      Moves, CoMoves
<1>6. CASE Completes \/ Fails \/ Cancels \/ RequestCancel \/ CancelCaught \/ UNCHANGED vars
  BY <1>6, <1>t
  DEF Completes, Fails, Cancels, Close, RequestCancel, CancelCaught, dataVars, vars,
      Moves, CoMoves, TypeOK
<1>. QED
  BY <1>1, <1>2, <1>3, <1>4, <1>5, <1>6
  DEF Next, MainStep, TemporalStep, Terminated

(* What an event says stays true. *)
LEMMA EntryKept ==
    ASSUME TypeOK, TypeOK', Moves
    PROVE  \A e \in Event : EntryOK(e) => EntryOK(e)'
<1>. SUFFICES ASSUME NEW e \in Event, EntryOK(e) PROVE EntryOK(e)'
  OBVIOUS
<1>1. CASE e.job = NoJob
  BY <1>1 DEF EntryOK, Moves, JobEvents
<1>2. CASE e.job \in Jobs
  <2>1. CoMoves(e.job)
    BY <1>2 DEF Moves
  <2>2. e.type \in JobEvents /\ e.job # NoJob
    BY <1>2, NAssumption DEF EntryOK, NoJob, Jobs
  <2>. QED
    BY <2>1, <2>2 DEF EntryOK, Moves, CoMoves, JobEvents
<1>. QED
  BY <1>1, <1>2 DEF Event

(* The log with one more event. *)
LEMMA AppendedLog ==
    ASSUME TypeOK, NEW e \in Event, log' = Append(log, e)
    PROVE  /\ Len(log) \in Nat
           /\ DOMAIN log = 1..Len(log) /\ DOMAIN log' = 1..(Len(log) + 1)
           /\ \A i \in DOMAIN log : log'[i] = log[i] /\ log[i] \in Event
           /\ log'[Len(log) + 1] = e
<1>1. log \in Seq(Event)
  BY DEF TypeOK
<1>. QED
  BY <1>1

(* The order is kept by an event that repeats one, or that is the first to *)
(* say what it says and comes in its place; in both cases no result may    *)
(* lack its start, and no start may come after a success.                  *)
LEMMA OrderKept ==
    ASSUME TypeOK, OrderInv, NEW e \in Event, log' = Append(log, e),
           cancelRequested => cancelRequested',
           \/ \E i \in DOMAIN log : log[i] = e
           \/ \A i \in DOMAIN log :
                 /\ log[i].type \in TerminalEvents =>
                       cancelRequested' /\ e.type = "execution_failed"
                 /\ log[i].job = e.job /\ e.job # NoJob =>
                       log[i].type = "job_started" /\ e.type \in Results,
           e.type \in Results =>
               \E i \in DOMAIN log : log[i] = [type |-> "job_started", job |-> e.job],
           e.type = "job_started" => \A i \in DOMAIN log :
               log[i].job = e.job => log[i].type # "job_succeeded"
    PROVE  OrderInv'
<1>. DEFINE n == Len(log) + 1
<1>1. /\ Len(log) \in Nat /\ n \in Nat
      /\ DOMAIN log = 1..Len(log) /\ DOMAIN log' = 1..n
      /\ \A i \in DOMAIN log : log'[i] = log[i] /\ log[i] \in Event
      /\ log'[n] = e
  BY AppendedLog
<1>2. DOMAIN log' = DOMAIN log \cup {n} /\ \A i \in DOMAIN log : i < n
  BY <1>1
<1>3. ASSUME NEW i \in DOMAIN log', NEW k \in DOMAIN log', i < k,
             \A m \in 1..k-1 : log'[m] # log'[k]
      PROVE  /\ log'[i].type \in TerminalEvents =>
                   cancelRequested' /\ log'[k].type = "execution_failed"
             /\ log'[i].job = log'[k].job /\ log'[i].job # NoJob =>
                   log'[i].type = "job_started" /\ log'[k].type \in Results
  <2>1. i \in DOMAIN log /\ log'[i] = log[i]
    BY <1>1, <1>3
  <2>2. CASE k \in DOMAIN log
    <3>1. log'[k] = log[k] /\ \A m \in 1..k-1 : log'[m] = log[m]
      BY <1>1, <2>2
    <3>2. ~\E m \in 1..k-1 : log[m] = log[k]
      BY <1>3, <3>1
    <3>. QED
      BY <1>3, <2>1, <2>2, <3>1, <3>2 DEF OrderInv, IsRepeat
  <2>3. CASE k = n
    <3>1. \A m \in DOMAIN log : log[m] # e
      BY <1>1, <1>3, <2>3
    <3>. QED
      BY <1>1, <2>1, <2>3, <3>1
  <2>. QED
    BY <1>2, <2>2, <2>3
<1>4. ASSUME NEW k \in DOMAIN log', log'[k].type \in Results
      PROVE  \E i \in 1..k-1 : log'[i] = [type |-> "job_started", job |-> log'[k].job]
  <2>1. CASE k \in DOMAIN log
    <3>1. PICK i \in 1..k-1 : log[i] = [type |-> "job_started", job |-> log[k].job]
      BY <1>1, <1>4, <2>1 DEF OrderInv
    <3>. QED
      BY <1>1, <2>1, <3>1
  <2>2. CASE k = n
    <3>1. PICK i \in DOMAIN log : log[i] = [type |-> "job_started", job |-> e.job]
      BY <1>1, <1>4, <2>2
    <3>. QED
      BY <1>1, <2>2, <3>1
  <2>. QED
    BY <1>2, <2>1, <2>2
<1>5. ASSUME NEW i \in DOMAIN log', NEW k \in DOMAIN log', i < k,
             log'[i].type = "job_succeeded", log'[i].job = log'[k].job
      PROVE  log'[k].type # "job_started"
  <2>1. i \in DOMAIN log /\ log'[i] = log[i]
    BY <1>1, <1>5
  <2>2. CASE k \in DOMAIN log
    BY <1>1, <1>5, <2>1, <2>2 DEF OrderInv
  <2>3. CASE k = n
    BY <1>1, <1>5, <2>1, <2>3
  <2>. QED
    BY <1>2, <2>2, <2>3
<1>. HIDE DEF n
<1>. QED
  BY <1>3, <1>4, <1>5 DEF OrderInv, IsRepeat

(* Steps that publish nothing and leave the task alone. *)
LEMMA LogUnchanged ==
    ASSUME IInv, IInv', LogInv, Moves, UNCHANGED eventVars,
           \A j \in Jobs :
               /\ co'[j] \in {"ok", "raised", "running"} => co[j] = co'[j]
               /\ co'[j] = "succeeding" /\ co[j] # "succeeding" => Scheduled(j)
    PROVE  LogInv'
<1>0. /\ TypeOK /\ TypeOK' /\ log \in Seq(Event) /\ task \in Seq(Event)
      /\ log' = log /\ task' = task /\ told' = told /\ repeats' = repeats
      /\ cancelRequested => cancelRequested'
  BY DEF IInv, TypeOK, eventVars, Moves
<1>j. ASSUME NEW e \in Event, e.type \in {"job_started"} \cup Results, EntryOK(e)
      PROVE  e.job \in Jobs
  BY <1>j DEF EntryOK, Event, JobEvents, Results
<1>1. EntryInv'
  <2>. SUFFICES ASSUME NEW i \in DOMAIN log PROVE EntryOK(log[i])'
    BY <1>0 DEF EntryInv
  <2>1. log[i] \in Event /\ EntryOK(log[i])
    BY <1>0 DEF LogInv, EntryInv
  <2>2. PICK e \in Event : e = log[i] /\ e = log'[i]
    BY <1>0, <2>1
  <2>3. EntryOK(e)'
    BY <1>0, <2>1, <2>2, EntryKept
  <2>. QED
    BY <1>0, <2>2, <2>3 DEF EntryOK
<1>e. ASSUME NEW m \in DOMAIN task PROVE task[m] \in Event /\ EntryOK(task[m])
  BY <1>0 DEF LogInv, TaskInv, EntryInv
<1>2. TaskInv'
  <2>1. \A m \in DOMAIN task : \E i \in DOMAIN log : log[i] = task[m]
    BY DEF LogInv, TaskInv
  <2>2. ASSUME NEW m \in DOMAIN task, task[m].type = "job_started"
        PROVE  co'[task[m].job] \notin {"succeeding", "ok"}
    <3>1. task[m].job \in Jobs
      BY <2>2, <1>e, <1>j
    <3>2. co[task[m].job] \notin {"succeeding", "ok"} /\ ~Scheduled(task[m].job)
      BY <2>2 DEF LogInv, TaskInv, Scheduled
    <3>. QED
      BY <3>1, <3>2
  <2>3. ASSUME ~cancelRequested', NEW m \in DOMAIN task, task[m].type = "job_started",
               co'[task[m].job] \in {"ok", "raised"}
        PROVE  \E r \in DOMAIN task :
                  /\ r > m /\ task[r].job = task[m].job
                  /\ task[r].type \in Results
    <3>1. task[m].job \in Jobs
      BY <2>3, <1>e, <1>j
    <3>2. co[task[m].job] \in {"ok", "raised"} /\ ~cancelRequested
      BY <2>3, <3>1, <1>0
    <3>. QED
      BY <2>3, <3>2 DEF LogInv, TaskInv
  <2>. QED
    BY <1>0, <2>1, <2>2, <2>3 DEF TaskInv
<1>3. TraceInv'
  <2>1. ASSUME NEW j \in Jobs, co'[j] \in {"running", "succeeding", "failing"}
        PROVE  \E i \in DOMAIN log : log[i] = [type |-> "job_started", job |-> j]
    <3>1. co[j] \in {"running", "succeeding", "failing"}
      BY <2>1 DEF Moves, CoMoves
    <3>. QED
      BY <3>1 DEF LogInv, TraceInv
  <2>2. ASSUME ~cancelRequested', NEW i \in DOMAIN log, log[i].type = "job_started",
               co'[log[i].job] \in {"ok", "raised"}
        PROVE  \/ \E k \in DOMAIN log :
                     k > i /\ log[k].job = log[i].job /\ log[k].type \in Results
               \/ /\ repeats <= MaxRepeats
                  /\ \E m \in DOMAIN task :
                        /\ m > told /\ task[m].job = log[i].job
                        /\ task[m].type \in Results
    <3>1. log[i].job \in Jobs
      BY <2>2, <1>0, <1>j DEF LogInv, EntryInv
    <3>2. co[log[i].job] \in {"ok", "raised"} /\ ~cancelRequested
      BY <2>2, <3>1, <1>0
    <3>. QED
      BY <2>2, <3>2 DEF LogInv, TraceInv
  <2>. QED
    BY <1>0, <2>1, <2>2 DEF TraceInv
<1>4. OrderInv'
  BY <1>0 DEF LogInv, OrderInv, IsRepeat
<1>. QED
  BY <1>1, <1>2, <1>3, <1>4 DEF LogInv

(* Steps of Temporal that leave log and state alone: the task is recorded, *)
(* or starts over.                                                         *)
LEMMA TaskRecorded ==
    ASSUME IInv, IInv', LogInv, TaskCompletes
    PROVE  LogInv'
<1>0. /\ log \in Seq(Event) /\ task \in Seq(Event) /\ told \in 0..Len(task)
      /\ Len(task) \in Nat /\ DOMAIN task = 1..Len(task)
      /\ task' = SubSeq(task, told + 1, Len(task)) /\ told' = 0
      /\ UNCHANGED <<log, repeats, co, skipped, phase, cancelRequested>>
  BY DEF IInv, TypeOK, TaskCompletes, controlVars, dataVars
<1>1. /\ DOMAIN task' = 1..(Len(task) - told)
      /\ \A m \in DOMAIN task' : m + told \in DOMAIN task /\ task'[m] = task[m + told]
  BY <1>0
<1>2. \A m \in DOMAIN task : m > told =>
        m - told \in DOMAIN task' /\ task'[m - told] = task[m]
  BY <1>0, <1>1
<1>3. EntryInv' /\ OrderInv'
  BY <1>0 DEF LogInv, EntryInv, EntryOK, OrderInv, IsRepeat
<1>4. TaskInv'
  <2>1. \A m \in DOMAIN task' : \E i \in DOMAIN log : log[i] = task'[m]
    BY <1>1 DEF LogInv, TaskInv
  <2>2. \A m \in DOMAIN task' : task'[m].type = "job_started" =>
          co[task'[m].job] \notin {"succeeding", "ok"}
    BY <1>1 DEF LogInv, TaskInv
  <2>3. ASSUME ~cancelRequested, NEW m \in DOMAIN task', task'[m].type = "job_started",
               co[task'[m].job] \in {"ok", "raised"}
        PROVE  \E r \in DOMAIN task' :
                  /\ r > m /\ task'[r].job = task'[m].job
                  /\ task'[r].type \in Results
    <3>1. PICK r \in DOMAIN task : /\ r > m + told /\ task[r].job = task'[m].job
                                   /\ task[r].type \in Results
      BY <1>1, <2>3 DEF LogInv, TaskInv
    <3>2. r - told \in DOMAIN task' /\ task'[r - told] = task[r] /\ r - told > m
      BY <1>0, <1>1, <1>2, <3>1
    <3>. QED
      BY <3>1, <3>2
  <2>. QED
    BY <1>0, <2>1, <2>2, <2>3 DEF TaskInv
<1>5. TraceInv'
  <2>1. ASSUME NEW k \in Jobs, \E m \in DOMAIN task :
                  m > told /\ task[m].job = k /\ task[m].type \in Results
        PROVE  \E m \in DOMAIN task' :
                  m > told' /\ task'[m].job = k /\ task'[m].type \in Results
    <3>1. PICK m \in DOMAIN task :
             m > told /\ task[m].job = k /\ task[m].type \in Results
      BY <2>1
    <3>2. m - told \in DOMAIN task' /\ task'[m - told] = task[m] /\ m - told > told'
      BY <1>0, <1>2, <3>1
    <3>. QED
      BY <3>1, <3>2
  <2>2. ASSUME NEW i \in DOMAIN log, log[i].type = "job_started" PROVE log[i].job \in Jobs
    <3>1. log[i] \in Event /\ EntryOK(log[i])
      BY <1>0 DEF LogInv, EntryInv
    <3>. QED
      BY <2>2, <3>1 DEF EntryOK, Event, JobEvents
  <2>3. ASSUME ~cancelRequested, NEW i \in DOMAIN log, log[i].type = "job_started",
               co[log[i].job] \in {"ok", "raised"}
        PROVE  \/ \E k \in DOMAIN log :
                     k > i /\ log[k].job = log[i].job /\ log[k].type \in Results
               \/ /\ repeats <= MaxRepeats
                  /\ \E m \in DOMAIN task' :
                        m > told' /\ task'[m].job = log[i].job /\ task'[m].type \in Results
    BY <2>1, <2>2, <2>3 DEF LogInv, TraceInv
  <2>4. \A j \in Jobs : co[j] \in {"running", "succeeding", "failing"} =>
          \E i \in DOMAIN log : log[i] = [type |-> "job_started", job |-> j]
    BY DEF LogInv, TraceInv
  <2>. QED
    BY <1>0, <2>3, <2>4 DEF TraceInv
<1>. QED
  BY <1>3, <1>4, <1>5 DEF LogInv

LEMMA TaskStartsOver ==
    ASSUME IInv, IInv', LogInv, TaskIsLost \/ TaskRetries
    PROVE  LogInv'
<1>0. /\ told \in 0..Len(task) /\ Len(task) \in Nat /\ DOMAIN task = 1..Len(task)
      /\ repeats \in Nat /\ MaxRepeats \in Nat /\ told' = 0
      /\ UNCHANGED <<log, task, co, skipped, phase, cancelRequested>>
  BY MaxRepeatsAssumption
  DEF IInv, TypeOK, TaskIsLost, TaskRetries, controlVars, dataVars
<1>1. repeats' <= MaxRepeats \/ \A m \in DOMAIN task : ~(m > told)
  <2>1. CASE TaskIsLost
    <3>1. repeats < MaxRepeats /\ repeats' = repeats + 1
      BY <2>1 DEF TaskIsLost
    <3>. QED
      BY <1>0, <3>1
  <2>2. CASE TaskRetries
    <3>1. told = Len(task)
      BY <2>2 DEF TaskRetries, UpToDate
    <3>. QED
      BY <1>0, <3>1
  <2>. QED
    BY <2>1, <2>2
<1>2. EntryInv' /\ TaskInv' /\ OrderInv'
  BY <1>0 DEF LogInv, EntryInv, EntryOK, TaskInv, OrderInv, IsRepeat
<1>3. TraceInv'
  <2>1. ASSUME ~cancelRequested, NEW i \in DOMAIN log, log[i].type = "job_started",
               co[log[i].job] \in {"ok", "raised"},
               ~\E k \in DOMAIN log :
                   k > i /\ log[k].job = log[i].job /\ log[k].type \in Results
        PROVE  /\ repeats' <= MaxRepeats
               /\ \E m \in DOMAIN task :
                     /\ m > 0 /\ task[m].job = log[i].job
                     /\ task[m].type \in Results
    <3>1. PICK m \in DOMAIN task : /\ m > told /\ task[m].job = log[i].job
                                   /\ task[m].type \in Results
      BY <2>1 DEF LogInv, TraceInv
    <3>2. m > 0
      BY <1>0, <3>1
    <3>. QED
      BY <1>1, <3>1, <3>2
  <2>. QED
    BY <1>0, <2>1 DEF LogInv, TraceInv
<1>. QED
  BY <1>2, <1>3 DEF LogInv

(* A cancellation that ends the job_skipped of an attempt: what the task   *)
(* was to publish after it is gone.                                        *)
LEMMA TaskCutShort ==
    ASSUME IInv, IInv', LogInv, Moves, CancelCaught
    PROVE  LogInv'
<1>0. /\ TypeOK /\ TypeOK' /\ log \in Seq(Event) /\ task \in Seq(Event)
      /\ told \in 0..Len(task) /\ Len(task) \in Nat
      /\ DOMAIN task = 1..Len(task) /\ task' = SubSeq(task, 1, told)
      /\ cancelRequested /\ cancelRequested'
      /\ UNCHANGED <<log, told, co, skipped>>
  BY DEF IInv, TypeOK, CancelCaught, dataVars
<1>1. DOMAIN task' = 1..told /\ \A m \in DOMAIN task' : m \in DOMAIN task /\ task'[m] = task[m]
  BY <1>0
<1>2. EntryInv'
  <2>. SUFFICES ASSUME NEW i \in DOMAIN log PROVE EntryOK(log[i])'
    BY <1>0 DEF EntryInv
  <2>1. log[i] \in Event /\ EntryOK(log[i])
    BY <1>0 DEF LogInv, EntryInv
  <2>2. PICK e \in Event : e = log[i] /\ e = log'[i]
    BY <1>0, <2>1
  <2>3. EntryOK(e)'
    BY <1>0, <2>1, <2>2, EntryKept
  <2>. QED
    BY <1>0, <2>2, <2>3 DEF EntryOK
<1>3. TaskInv'
  BY <1>0, <1>1 DEF LogInv, TaskInv
<1>4. TraceInv' /\ OrderInv'
  BY <1>0 DEF LogInv, TraceInv, OrderInv, IsRepeat
<1>. QED
  BY <1>2, <1>3, <1>4 DEF LogInv

(* A new attempt publishes an event again.  The log has it; after a start, *)
(* its result is in the log or comes later in the same attempt.            *)
LEMMA EventRepeated ==
    ASSUME IInv, IInv', LogInv, EmitAgain
    PROVE  LogInv'
<1>0. /\ TypeOK /\ log \in Seq(Event) /\ task \in Seq(Event)
      /\ told \in 0..Len(task) /\ Len(task) \in Nat /\ DOMAIN task = 1..Len(task)
      /\ repeats \in Nat /\ MaxRepeats \in Nat
      /\ told' = told + 1 /\ told + 1 \in DOMAIN task
      /\ log' = (IF repeats > MaxRepeats THEN log ELSE Append(log, task[told + 1]))
      /\ UNCHANGED <<task, repeats, co, skipped, phase, cancelRequested>>
  BY MaxRepeatsAssumption
  DEF IInv, TypeOK, EmitAgain, UpToDate, controlVars, dataVars
<1>1. CASE repeats > MaxRepeats
  <2>1. log' = log
    BY <1>0, <1>1
  <2>2. EntryInv' /\ TaskInv' /\ OrderInv'
    BY <1>0, <2>1 DEF LogInv, EntryInv, EntryOK, TaskInv, OrderInv, IsRepeat
  <2>3. TraceInv'
    BY <1>0, <1>1, <2>1 DEF LogInv, TraceInv
  <2>. QED
    BY <2>2, <2>3 DEF LogInv
<1>2. CASE repeats <= MaxRepeats
  <2>1. PICK e \in Event : e = task[told + 1]
    BY <1>0
  <2>2. PICK s \in DOMAIN log : log[s] = e
    BY <1>0, <2>1 DEF LogInv, TaskInv
  <2>3. log' = Append(log, e)
    BY <1>0, <1>2, <2>1
  <2>4. /\ Len(log) \in Nat
        /\ DOMAIN log = 1..Len(log) /\ DOMAIN log' = 1..(Len(log) + 1)
        /\ \A i \in DOMAIN log : log'[i] = log[i] /\ log[i] \in Event
        /\ log'[Len(log) + 1] = e
    BY <1>0, <2>3, AppendedLog
  <2>5. DOMAIN log' = DOMAIN log \cup {Len(log) + 1}
        /\ \A i \in DOMAIN log : i < Len(log) + 1
    BY <2>4
  <2>6. EntryOK(e)
    BY <2>2 DEF LogInv, EntryInv
  <2>7. EntryInv'
    BY <1>0, <2>4, <2>5, <2>6 DEF LogInv, EntryInv, EntryOK
  <2>8. TaskInv'
    <3>1. \A m \in DOMAIN task : \E i \in DOMAIN log' : log'[i] = task[m]
      BY <2>4, <2>5 DEF LogInv, TaskInv
    <3>. QED
      BY <1>0, <3>1 DEF LogInv, TaskInv
  <2>9. TraceInv'
    <3>1. \A j \in Jobs : co[j] \in {"running", "succeeding", "failing"} =>
            \E i \in DOMAIN log' : log'[i] = [type |-> "job_started", job |-> j]
      BY <2>4, <2>5 DEF LogInv, TraceInv
    <3>2. ASSUME ~cancelRequested, NEW i \in DOMAIN log', log'[i].type = "job_started",
                 co[log'[i].job] \in {"ok", "raised"}
          PROVE  \/ \E k \in DOMAIN log' :
                       k > i /\ log'[k].job = log'[i].job /\ log'[k].type \in Results
                 \/ \E m \in DOMAIN task :
                       /\ m > told + 1 /\ task[m].job = log'[i].job
                       /\ task[m].type \in Results
      <4>1. CASE i = Len(log) + 1
        <5>1. log'[i] = task[told + 1]
          BY <2>1, <2>4, <4>1
        <5>. QED
          BY <1>0, <3>2, <5>1 DEF LogInv, TaskInv
      <4>2. CASE i \in DOMAIN log
        <5>1. log'[i] = log[i]
          BY <2>4, <4>2
        <5>2. \/ \E k \in DOMAIN log :
                    k > i /\ log[k].job = log[i].job /\ log[k].type \in Results
              \/ \E m \in DOMAIN task :
                    /\ m > told /\ task[m].job = log[i].job
                    /\ task[m].type \in Results
          BY <3>2, <4>2, <5>1 DEF LogInv, TraceInv
        <5>3. CASE \E k \in DOMAIN log :
                    k > i /\ log[k].job = log[i].job /\ log[k].type \in Results
          BY <2>4, <2>5, <5>1, <5>3
        <5>4. ASSUME NEW m \in DOMAIN task, m > told, task[m].job = log[i].job,
                     task[m].type \in Results
              PROVE  \/ \E k \in DOMAIN log' :
                           k > i /\ log'[k].job = log'[i].job /\ log'[k].type \in Results
                     \/ \E r \in DOMAIN task :
                           /\ r > told + 1 /\ task[r].job = log'[i].job
                           /\ task[r].type \in Results
          <6>1. CASE m = told + 1
            <7>1. log'[Len(log) + 1] = task[m]
              BY <2>1, <2>4, <6>1
            <7>. QED
              BY <2>5, <4>2, <5>1, <5>4, <7>1
          <6>2. CASE m > told + 1
            BY <5>1, <5>4, <6>2
          <6>. QED
            BY <1>0, <5>4, <6>1, <6>2
        <5>. QED
          BY <5>2, <5>3, <5>4
      <4>. QED
        BY <2>5, <4>1, <4>2
    <3>. QED
      BY <1>0, <1>2, <3>1, <3>2 DEF TraceInv
  <2>10. OrderInv'
    <3>1. e.type \in Results => \E i \in DOMAIN log :
            log[i] = [type |-> "job_started", job |-> e.job]
      BY <2>2, <2>4 DEF LogInv, OrderInv
    <3>2. ASSUME e.type = "job_started", NEW i \in DOMAIN log, log[i].job = e.job
          PROVE  log[i].type # "job_succeeded"
      <4>1. co[e.job] # "ok"
        BY <1>0, <2>1, <3>2 DEF LogInv, TaskInv
      <4>. QED
        BY <3>2, <4>1 DEF LogInv, EntryInv, EntryOK
    <3>. QED
      BY <1>0, <2>2, <2>3, <3>1, <3>2, OrderKept DEF LogInv
  <2>. QED
    BY <2>7, <2>8, <2>9, <2>10 DEF LogInv
<1>. QED
  BY <1>0, <1>1, <1>2

(* Steps that publish an event for the first time.  Starts and skips are   *)
(* the first the log says of their job.                                    *)
LEMMA EventPublished ==
    ASSUME IInv, IInv', LogInv, Moves,
           NEW t \in EventTypes, NEW j \in Jobs \cup {NoJob}, NEW e \in Event, Emit(t, j),
           e = [type |-> t, job |-> j], EntryOK(e)',
           \/ \E i \in DOMAIN log : log[i] = e
           \/ \A i \in DOMAIN log : log[i].type \in TerminalEvents =>
                  cancelRequested' /\ t = "execution_failed",
           t \in {"job_started", "job_skipped"} => \A i \in DOMAIN log : log[i].job # j,
           \A k \in Jobs : k # j => co'[k] = co[k],
           \/ t = "job_started" /\ co[j] = "starting" /\ co'[j] = "running"
           \/ t = "job_succeeded" /\ co[j] = "succeeding" /\ co'[j] = "ok"
           \/ t = "job_failed" /\ co[j] = "failing" /\ co'[j] = "raised"
           \/ t \notin {"job_started"} \cup Results /\ co' = co
    PROVE  LogInv'
<1>0. /\ TypeOK /\ TypeOK' /\ log \in Seq(Event) /\ task \in Seq(Event)
      /\ log' = Append(log, e) /\ task' = Append(task, e)
      /\ told = Len(task) /\ told' = told + 1 /\ repeats' = repeats
      /\ Len(task) \in Nat /\ DOMAIN task = 1..Len(task)
      /\ e.type = t /\ e.job = j
      /\ cancelRequested => cancelRequested'
  BY DEF IInv, TypeOK, Emit, UpToDate, Moves
<1>1. /\ Len(log) \in Nat
      /\ DOMAIN log = 1..Len(log) /\ DOMAIN log' = 1..(Len(log) + 1)
      /\ \A i \in DOMAIN log : log'[i] = log[i] /\ log[i] \in Event
      /\ log'[Len(log) + 1] = e
  BY <1>0, AppendedLog
<1>. DEFINE n == Len(log) + 1
            l == Len(task) + 1
<1>2. /\ DOMAIN log' = DOMAIN log \cup {n} /\ log'[n] = e
      /\ \A i \in DOMAIN log : i < n
  BY <1>1
<1>3. /\ DOMAIN task' = DOMAIN task \cup {l} /\ task'[l] = e
      /\ \A m \in DOMAIN task : task'[m] = task[m] /\ m < l /\ m <= told /\ task[m] \in Event
  BY <1>0
<1>. HIDE DEF n, l
<1>4. ASSUME NEW i \in DOMAIN log PROVE EntryOK(log[i]) /\ log[i] \in Event
  BY <1>1 DEF LogInv, EntryInv
<1>j. ASSUME NEW a \in Event, a.type \in {"job_started"} \cup Results, EntryOK(a)
      PROVE  a.job \in Jobs
  BY <1>j DEF EntryOK, Event, JobEvents, Results
<1>m. ASSUME NEW m \in DOMAIN task PROVE EntryOK(task[m]) /\ task[m] \in Event
  BY <1>3, <1>4 DEF LogInv, TaskInv
<1>5. EntryInv'
  <2>. SUFFICES ASSUME NEW i \in DOMAIN log' PROVE EntryOK(log[i])'
    BY DEF EntryInv
  <2>1. CASE i = n
    BY <1>2, <2>1 DEF EntryOK
  <2>2. CASE i \in DOMAIN log
    <3>1. PICK a \in Event : a = log[i] /\ a = log'[i]
      BY <1>1, <2>2
    <3>2. EntryOK(a)'
      BY <1>0, <1>4, <2>2, <3>1, EntryKept
    <3>. QED
      BY <3>1, <3>2 DEF EntryOK
  <2>. QED
    BY <1>2, <2>1, <2>2
<1>6. TaskInv'
  <2>1. ASSUME NEW m \in DOMAIN task' PROVE \E i \in DOMAIN log' : log'[i] = task'[m]
    <3>1. CASE m = l
      BY <1>2, <1>3, <3>1
    <3>2. CASE m \in DOMAIN task
      <4>1. PICK i \in DOMAIN log : log[i] = task[m]
        BY <3>2 DEF LogInv, TaskInv
      <4>. QED
        BY <1>1, <1>2, <1>3, <3>2, <4>1
    <3>. QED
      BY <1>3, <3>1, <3>2
  <2>2. ASSUME NEW m \in DOMAIN task', task'[m].type = "job_started"
        PROVE  co'[task'[m].job] \notin {"succeeding", "ok"}
    <3>1. CASE m = l
      BY <1>0, <1>3, <2>2, <3>1
    <3>2. CASE m \in DOMAIN task
      <4>1. task[m].job \in Jobs /\ co[task[m].job] \notin {"succeeding", "ok"}
            /\ task'[m] = task[m]
        BY <1>3, <1>j, <1>m, <2>2, <3>2 DEF LogInv, TaskInv
      <4>. QED
        BY <4>1
    <3>. QED
      BY <1>3, <3>1, <3>2
  <2>3. ASSUME ~cancelRequested', NEW m \in DOMAIN task', task'[m].type = "job_started",
               co'[task'[m].job] \in {"ok", "raised"}
        PROVE  \E r \in DOMAIN task' :
                  /\ r > m /\ task'[r].job = task'[m].job
                  /\ task'[r].type \in Results
    <3>1. m \in DOMAIN task /\ task'[m] = task[m]
      BY <1>0, <1>3, <2>3
    <3>2. task[m].job \in Jobs
      BY <1>j, <1>m, <2>3, <3>1
    <3>3. CASE task[m].job = j /\ t \in Results
      BY <1>0, <1>3, <3>1, <3>3
    <3>4. CASE ~(task[m].job = j /\ t \in Results)
      <4>1. co[task[m].job] \in {"ok", "raised"} /\ ~cancelRequested
        BY <1>0, <2>3, <3>1, <3>2, <3>4 DEF Results
      <4>2. PICK r \in DOMAIN task : /\ r > m /\ task[r].job = task[m].job
                                     /\ task[r].type \in Results
        BY <2>3, <3>1, <4>1 DEF LogInv, TaskInv
      <4>. QED
        BY <1>3, <3>1, <4>2
    <3>. QED
      BY <3>3, <3>4
  <2>. QED
    BY <2>1, <2>2, <2>3 DEF TaskInv
<1>7. TraceInv'
  <2>1. ASSUME NEW k \in Jobs, co'[k] \in {"running", "succeeding", "failing"}
        PROVE  \E i \in DOMAIN log' : log'[i] = [type |-> "job_started", job |-> k]
    <3>1. CASE k = j /\ t = "job_started"
      BY <1>2, <3>1
    <3>2. CASE ~(k = j /\ t = "job_started")
      <4>1. co[k] \in {"running", "succeeding", "failing"}
        BY <2>1, <3>2
      <4>2. PICK i \in DOMAIN log : log[i] = [type |-> "job_started", job |-> k]
        BY <4>1 DEF LogInv, TraceInv
      <4>. QED
        BY <1>1, <1>2, <4>2
    <3>. QED
      BY <3>1, <3>2
  <2>2. ASSUME ~cancelRequested', NEW i \in DOMAIN log', log'[i].type = "job_started",
               co'[log'[i].job] \in {"ok", "raised"}
        PROVE  \E k \in DOMAIN log' :
                  k > i /\ log'[k].job = log'[i].job /\ log'[k].type \in Results
    <3>1. i \in DOMAIN log /\ log'[i] = log[i]
      BY <1>0, <1>1, <1>2, <2>2
    <3>2. log[i].job \in Jobs
      BY <1>4, <1>j, <2>2, <3>1
    <3>3. CASE log[i].job = j /\ t \in Results
      BY <1>0, <1>2, <3>1, <3>3
    <3>4. CASE ~(log[i].job = j /\ t \in Results)
      <4>1. co[log[i].job] \in {"ok", "raised"} /\ ~cancelRequested
        BY <1>0, <2>2, <3>1, <3>2, <3>4 DEF Results
      <4>2. ~\E m \in DOMAIN task : m > told
        BY <1>0
      <4>3. PICK k \in DOMAIN log :
               k > i /\ log[k].job = log[i].job /\ log[k].type \in Results
        BY <2>2, <3>1, <4>1, <4>2 DEF LogInv, TraceInv
      <4>. QED
        BY <1>1, <1>2, <3>1, <4>3
    <3>. QED
      BY <3>3, <3>4
  <2>. QED
    BY <2>1, <2>2 DEF TraceInv
<1>8. OrderInv'
  <2>1. ASSUME NEW i \in DOMAIN log, log[i].job = j, j # NoJob
        PROVE  log[i].type = "job_started" /\ t \in Results
    <3>1. t \in Results /\ co[j] \in {"succeeding", "failing"} /\ j \in Jobs
      BY <1>0, <2>1, NAssumption
      DEF EntryOK, EventTypes, JobEvents, TerminalEvents, Results, NoJob, Jobs
    <3>2. j \notin skipped
      BY <3>1 DEF IInv, NeedsInv
    <3>. QED
      <4>1. log[i].type \in JobEvents /\ log[i].type \notin Results
            /\ log[i].type # "job_skipped"
        BY <1>4, <2>1, <3>1, <3>2 DEF EntryOK, Results
      <4>. QED
        BY <3>1, <4>1 DEF JobEvents, Results
  <2>2. ASSUME e.type \in Results
        PROVE  \E i \in DOMAIN log : log[i] = [type |-> "job_started", job |-> e.job]
    <3>1. co[j] \in {"succeeding", "failing"} /\ j \in Jobs
      BY <1>0, <2>2 DEF EntryOK, JobEvents, Results
    <3>. QED
      BY <1>0, <3>1 DEF LogInv, TraceInv
  <2>3. e.type = "job_started" => \A i \in DOMAIN log :
               log[i].job = e.job => log[i].type # "job_succeeded"
    BY <1>0
  <2>4. \/ \E i \in DOMAIN log : log[i] = e
        \/ \A i \in DOMAIN log :
              /\ log[i].type \in TerminalEvents =>
                    cancelRequested' /\ e.type = "execution_failed"
              /\ log[i].job = e.job /\ e.job # NoJob =>
                    log[i].type = "job_started" /\ e.type \in Results
    BY <1>0, <2>1
  <2>. QED
    BY <1>0, <2>2, <2>3, <2>4, OrderKept DEF LogInv
<1>. QED
  BY <1>5, <1>6, <1>7, <1>8 DEF LogInv

LEMMA LogInit == Init => LogInv
<1>. SUFFICES ASSUME Init PROVE LogInv
  OBVIOUS
<1>1. /\ log = <<>> /\ DOMAIN log = {} /\ task = <<>> /\ DOMAIN task = {}
      /\ co = [j \in Jobs |-> "idle"]
  BY DEF Init
<1>. QED
  BY <1>1 DEF LogInv, EntryInv, TaskInv, TraceInv, OrderInv

LEMMA LogStep ==
    ASSUME IInv, IInv', LogInv, [Next]_vars
    PROVE  LogInv'
<1>t. TypeOK /\ TypeOK' /\ Moves
  BY NextMoves DEF IInv
<1>n. NoJob \notin Jobs /\ NoJob \in Jobs \cup {NoJob}
  BY NAssumption DEF NoJob, Jobs
<1>e. EventTypes = {"execution_started", "execution_finished", "execution_failed",
        "job_started", "job_succeeded", "job_failed", "job_skipped"}
  BY DEF EventTypes, TerminalEvents, JobEvents
<1>v. \A t \in EventTypes : \A j \in Jobs \cup {NoJob} : [type |-> t, job |-> j] \in Event
  BY DEF Event, EventTypes
<1>p. ASSUME phase \in {"start", "schedule", "decide", "gather"}, NEW i \in DOMAIN log
      PROVE  log[i].type \notin TerminalEvents
  BY <1>p DEF LogInv, EntryInv, EntryOK, TerminalEvents
<1>1. CASE EmitStarted \/ EmitFinished
  <2>1. /\ phase \in {"start", "schedule"} /\ co' = co
        /\ \/ Emit("execution_started", NoJob)
           \/ Emit("execution_finished", NoJob) /\ phase' = "finished"
    BY <1>1 DEF EmitStarted, EmitFinished
  <2>2. PICK t \in {"execution_started", "execution_finished"} :
           Emit(t, NoJob) /\ (t = "execution_finished" => phase' = "finished")
    BY <2>1
  <2>3. PICK e \in Event : e = [type |-> t, job |-> NoJob]
    BY <1>e, <1>n, <1>v
  <2>4. EntryOK(e)'
    BY <2>2, <2>3 DEF EntryOK, JobEvents
  <2>. QED
    BY <1>e, <1>n, <1>p, <1>t, <2>1, <2>2, <2>3, <2>4, EventPublished DEF Results
<1>2. CASE EmitFailed
  <2>1. phase = "abort" /\ phase' = "aborted" /\ co' = co /\ Emit("execution_failed", NoJob)
        /\ UNCHANGED cancelRequested
    BY <1>2 DEF EmitFailed
  <2>2. PICK e \in Event : e = [type |-> "execution_failed", job |-> NoJob]
    BY <1>e, <1>n, <1>v
  <2>3. EntryOK(e)'
    BY <2>1, <2>2 DEF EntryOK, JobEvents
  <2>4. ASSUME NEW i \in DOMAIN log, log[i].type \in TerminalEvents
        PROVE  log[i] = e \/ cancelRequested'
    <3>1. log[i] \in Event /\ EntryOK(log[i])
      BY <1>t DEF LogInv, EntryInv, TypeOK
    <3>2. CASE log[i].type = "execution_finished"
      BY <2>1, <3>1, <3>2 DEF EntryOK
    <3>3. CASE log[i].type = "execution_failed"
      <4>1. log[i].job = NoJob
        BY <3>1, <3>3 DEF EntryOK, JobEvents
      <4>2. log[i] = [type |-> log[i].type, job |-> log[i].job]
        BY <3>1 DEF Event
      <4>. QED
        BY <2>2, <3>3, <4>1, <4>2
    <3>. QED
      BY <2>4, <3>2, <3>3 DEF TerminalEvents
  <2>5. \/ \E i \in DOMAIN log : log[i] = e
        \/ \A i \in DOMAIN log : log[i].type \in TerminalEvents => cancelRequested'
    BY <2>4
  <2>. QED
    BY <1>e, <1>n, <1>t, <2>1, <2>2, <2>3, <2>5, EventPublished DEF Results
<1>3. ASSUME NEW j \in Jobs, SkipJob(j) PROVE LogInv'
  <2>1. /\ phase = "decide" /\ j \notin skipped /\ co[j] = "idle" /\ j \in skipped'
        /\ co' = co /\ Emit("job_skipped", j)
    BY <1>3, <1>t DEF SkipJob, IsFirst, IInv, BatchInv, Done, TypeOK
  <2>2. ASSUME NEW i \in DOMAIN log, log[i].job = j PROVE FALSE
    BY <1>n, <2>1, <2>2 DEF LogInv, EntryInv, EntryOK, JobEvents
  <2>3. PICK e \in Event : e = [type |-> "job_skipped", job |-> j]
    BY <1>e, <1>v
  <2>4. EntryOK(e)'
    BY <1>n, <2>1, <2>3 DEF EntryOK, JobEvents
  <2>. QED
    BY <1>e, <1>p, <1>t, <2>1, <2>2, <2>3, <2>4, EventPublished DEF Results
<1>4. ASSUME NEW j \in Jobs,
             EmitJobStarted(j) \/ EmitJobSucceeded(j) \/ EmitJobFailed(j)
      PROVE  LogInv'
  <2>1. PICK t \in {"job_started", "job_succeeded", "job_failed"} :
           /\ phase = "gather" /\ Emit(t, j)
           /\ \/ t = "job_started" /\ co[j] = "starting" /\ co'[j] = "running"
              \/ t = "job_succeeded" /\ co[j] = "succeeding" /\ co'[j] = "ok"
              \/ t = "job_failed" /\ co[j] = "failing" /\ co'[j] = "raised"
    BY <1>4, <1>t DEF EmitJobStarted, EmitJobSucceeded, EmitJobFailed, Step, TypeOK
  <2>2. \A k \in Jobs : k # j => co'[k] = co[k]
    BY <1>4, <1>t DEF EmitJobStarted, EmitJobSucceeded, EmitJobFailed, Step, TypeOK
  <2>3. ASSUME t = "job_started", NEW i \in DOMAIN log, log[i].job = j PROVE FALSE
    <3>1. co[j] = "starting" /\ j \notin skipped
      BY <2>1, <2>3 DEF IInv, NeedsInv
    <3>. QED
      BY <1>n, <2>3, <3>1 DEF LogInv, EntryInv, EntryOK, JobEvents
  <2>4. PICK e \in Event : e = [type |-> t, job |-> j]
    BY <1>e, <1>v
  <2>5. EntryOK(e)'
    BY <1>n, <2>1, <2>4 DEF EntryOK, JobEvents
  <2>. QED
    BY <1>e, <1>p, <1>t, <2>1, <2>2, <2>3, <2>4, <2>5, EventPublished
<1>5. ASSUME NEW j \in Jobs,
             \/ RunJobFails(j) \/ DropJob(j)
             \/ \E lacking \in BOOLEAN : RunJobSucceeds(j, lacking)
      PROVE  LogInv'
  <2>1. /\ UNCHANGED eventVars
        /\ \/ Step(j, "running", "failing")
           \/ Step(j, "running", "succeeding") /\ Scheduled(j)
           \/ Step(j, "starting", "dropped") \/ Step(j, "running", "dropped")
    BY <1>5 DEF RunJobFails, DropJob, RunJobSucceeds
  <2>2. \A k \in Jobs :
           /\ co'[k] \in {"ok", "raised", "running"} => co[k] = co'[k]
           /\ co'[k] = "succeeding" /\ co[k] # "succeeding" => Scheduled(k)
    BY <2>1, <1>t DEF Step, TypeOK
  <2>. QED
    BY <1>t, <2>1, <2>2, LogUnchanged
<1>6. CASE Gather
  <2>1. UNCHANGED eventVars
    BY <1>6 DEF Gather
  <2>2. \A k \in Jobs : co'[k] \in {"starting", "unrendered"} \/ co'[k] = co[k]
    BY <1>6 DEF Gather
  <2>. QED
    BY <1>t, <2>1, <2>2, LogUnchanged
<1>7. CASE \/ Schedule \/ CollectBatch \/ RequestCancel \/ Completes \/ Fails \/ UNCHANGED vars
           \/ \E j \in Jobs : AdmitJob(j) \/ ConditionRaises(j) \/ CollectRaises(j)
           \/ Cancels
  <2>1. UNCHANGED <<eventVars, co>>
    BY <1>7 DEF Schedule, CollectBatch, RequestCancel, Completes, Fails, Cancels, Close,
       AdmitJob, ConditionRaises, CollectRaises, eventVars, vars
  <2>. QED
    BY <1>t, <2>1, LogUnchanged
<1>8. CASE TaskCompletes \/ TaskIsLost \/ TaskRetries \/ EmitAgain \/ CancelCaught
  BY <1>8, <1>t, TaskRecorded, TaskStartsOver, EventRepeated, TaskCutShort
<1>. QED
  BY <1>1, <1>2, <1>3, <1>4, <1>5, <1>6, <1>7, <1>8
  DEF Next, MainStep, JobStep, TemporalStep, Terminated

(* Whatever tasks are lost or retried, and for ever: only repetitions, or  *)
(* the failure that a cancellation adds, follow the terminal event; one    *)
(* start and one result, or a skip, per job, and repetitions of them; no   *)
(* start after a success; and when the run is over each start has its      *)
(* result, as soon as the retried task has published all it has to.        *)
THEOREM EventLogIsWellFormed == Spec => []EventLogWellFormed
<1>1. ASSUME IInv, LogInv PROVE EventLogWellFormed
  <2>1. ASSUME NEW i \in DOMAIN log, NEW k \in DOMAIN log, i < k, ~IsRepeat(k)
        PROVE  /\ log[i].type \in TerminalEvents =>
                     cancelRequested /\ log[k].type = "execution_failed"
               /\ log[i].job = log[k].job /\ log[i].job # NoJob =>
                     /\ log[i].type = "job_started"
                     /\ log[k].type \in {"job_succeeded", "job_failed"}
    BY <1>1, <2>1 DEF LogInv, OrderInv, Results
  <2>2. \A k \in DOMAIN log : log[k].type \in {"job_succeeded", "job_failed"} =>
          \E i \in 1..k-1 : log[i] = [type |-> "job_started", job |-> log[k].job]
    BY <1>1 DEF LogInv, OrderInv, Results
  <2>3. \A i, k \in DOMAIN log :
          i < k /\ log[i].type = "job_succeeded" /\ log[i].job = log[k].job =>
              log[k].type # "job_started"
    BY <1>1 DEF LogInv, OrderInv
  <2>4. ASSUME phase \in {"aborted", "finished"}, UpToDate, ~cancelRequested,
               NEW i \in DOMAIN log, log[i].type = "job_started"
        PROVE  \E k \in DOMAIN log :
                  /\ k > i /\ log[k].job = log[i].job
                  /\ log[k].type \in {"job_succeeded", "job_failed"}
    <3>1. log \in Seq(Event) /\ task \in Seq(Event) /\ ~\E m \in DOMAIN task : m > told
      BY <1>1, <2>4 DEF IInv, TypeOK, UpToDate
    <3>2. log[i] \in Event /\ EntryOK(log[i])
      BY <1>1, <3>1 DEF LogInv, EntryInv
    <3>3. log[i].job \in Jobs
          /\ co[log[i].job] \in {"running", "succeeding", "failing", "ok", "raised", "dropped"}
      BY <2>4, <3>2 DEF EntryOK, Event, JobEvents
    <3>4. co[log[i].job] \in Returned
      BY <1>1, <2>4, <3>3 DEF IInv, BatchInv, SetsInv, Returned
    <3>5. co[log[i].job] \in {"ok", "raised"}
      BY <3>3, <3>4 DEF Returned
    <3>. QED
      BY <1>1, <2>4, <3>1, <3>5 DEF LogInv, TraceInv, Results
  <2>. QED
    BY <2>1, <2>2, <2>3, <2>4 DEF EventLogWellFormed
<1>2. IInv /\ IInv' /\ LogInv /\ [Next]_vars => LogInv'
  BY LogStep
<1>3. Spec => [](IInv /\ LogInv)
  BY LogInit, InvInit, InvStep, <1>2, Invariance, PTL DEF Spec
<1>. QED
  BY <1>1, <1>3, PTL
=============================================================================
