# MoiraFlow: models, checks and proofs

MoiraFlow runs workflows written as YAML: a definition is a dependency graph of
jobs, an execution runs it. This directory holds TLA+ models of the parts of the
program in which order, concurrency and failure matter, the TLC configurations
that check them, and theorems about them that the TLA+ proof system checks.
Paths below are relative to the repository; `W` is
`services/worker/moiraflow_worker`, `A` is `services/api/moiraflow_api`, `F` is
`services/frontend/src`.

## 1. The system

    browser ──HTTP/WS── API (FastAPI, threads) ──gRPC── Temporal ──tasks── worker, agents
                          │        ▲                                           │
                       PostgreSQL  └────────── Redis stream ◄──publish_event───┘

| Part | State it keeps | Operations | Hard behaviour |
|---|---|---|---|
| Interpreter workflow (`W/interpreter.py`, `workflow.py`, `scheduling.py`, `templating.py`) | `completed`, `skipped`, `failed`, outputs per job, the coroutines of a batch | batch loop, skip decisions, rendering, `run_job`, `emit` | coroutines of a batch interleave; failure, skip and condition cascade; exceptions of several kinds; Temporal replays and retries the code; cancellation |
| Activities (`W/activities.py`, `file_transfer.py`, `transform.py`, `policies.py`) | none, apart from what they change outside | one activity per job type, `publish_event` | at-least-once, attempts and timeouts, attempts that outlive their timeout, a pool of 8 threads |
| Event stream (`W/events.py`, `A/live.py`) | a capped Redis stream, one consumer group | publish, read, acknowledge, redeliver, broadcast to WebSockets | lost, repeated, late events; a handler that fails; restart between commit and acknowledgement |
| Execution projection (`A/services/executions.py`, `events.py`) | `executions`, `job_executions`, `execution_events`, `artifacts` | launch, replay, cancel, reconcile, `handle_event` | the double write to Temporal and PostgreSQL; requests and the subscriber race on one row |
| Definitions (`A/workflow/*`) | none | parse, validate (DAG, references), order, hash | every later part trusts what they accept |
| Workflows and versions (`A/services/workflows.py`, `A/routers/workflows.py`) | `workflows`, `workflow_versions` | create, add version, activate, enable, disable, delete | version numbers read and then written; Temporal is called before the commit |
| Schedules (`A/services/schedules.py`, `A/temporal.py`) | Temporal Schedules | upsert, pause, delete | divergence from the workflow's row |
| Agents (`A/services/agents.py`, `A/routers/agents.py`, `W/agent.py`) | `agents`, enrollment tokens in Redis | enroll, register, approve, revoke, authorize, heartbeat, seal secrets | token used twice, heartbeat against revocation |
| Secrets, users, audit, notifications, simulation, overview | their tables | CRUD, dispatch of webhooks | check-then-insert, notification sent before the commit |
| Temporal client (`A/temporal.py` `_TemporalRuntime`) | one event loop and one client per target | lazy start, call | first calls of several threads |
| Browser (`F`) | the live view of an execution, the builder's graph | snapshot + WebSocket events, graph editing | a snapshot that arrives after newer events |

### How the parts interact

- **A launch** is a double write: the API starts a run in Temporal, then inserts
  a row in PostgreSQL; the run's first event may reach the subscriber in between.
- **A run** is the interpreter workflow. It schedules one activity per job and
  publishes lifecycle events from local activities; Temporal records its
  history, repeats a workflow task that was not recorded, and closes the run.
- **Events** cross a Redis stream to a subscriber thread in each API process,
  which stores each in a transaction, acknowledges it whatever happened, and
  broadcasts it to WebSockets.
- **Reconciliation** (inside GET requests) and **cancellation** write the same
  rows from what Temporal says or was asked.
- **A workflow request** changes its row, tells Temporal's schedule from the
  object it read, and commits last.
- **An agent** presents a certificate; every verification reads its row and,
  as a heartbeat, writes it.

### What makes each part correct

| Part | Properties (modules in section 2) |
|---|---|
| Interpreter | a job starts only on a fully succeeded ancestry; each job is decided once; failures, skips and conditions cascade exactly; one start and one result or skip per job in the event log and after the terminal event only repetitions of what was published before; no empty batch; the run closes, unless an exception that is not an activity's aborts it |
| Definitions | exactly the acyclic graphs with unique, known ids are accepted; the topological order is by definition |
| Execution projection | no row without a run; an outcome in a row is the run's; announced runs have a row, also after a crash; rows of closed runs settle |
| Job projection | exact rows after restarts and redelivery; final rows stay; every message is handled |
| Workflows and schedules | one live workflow per name; gapless versions; commits disturb no other attribute; a request that runs alone repairs the schedule |
| Agents | a token makes one agent; nobody is active without an approval (that a revocation holds is not true: section 5) |
| Activities | a job that cannot work changes nothing outside; the artifact a result names is its own attempt's (if its path is relative and its directory not pinned); a finished transfer's destination is whole; every activity closes, whatever hangs |
| Notifications | a webhook is told only of outcomes that were reached, and they end up in the row |
| Live view | nothing is shown that is not stored, live items come in order; a page at rest that no answer raced with is complete |
| Builder (planned) | editing never makes a cycle; the graph survives the round trip to YAML |
| Secrets, users (planned) | one row per key or email under concurrent requests |

`PROJECT.json` lists every component with its status, and under `hazards` what is
hard to test in each.

## 2. Modules

| Module | Models | Corresponds to |
|---|---|---|
| `Dag` | dependency graphs: ancestors, absence of cycles; no state | what `needs` means to `dag.py` and `scheduling.py` |
| `DagRun` | the abstract specification of a run: a status per job, and how the run closes | the promises of `interpreter.py`'s docstrings and the user guide |
| `Interpreter` | one run of the interpreter workflow; implements `DagRun` | `run_dag`, `_execute`, `_skip_reason`, `ready_jobs`, rendering, Temporal's closing and retrying |
| `Interpreter_proofs` | theorems about `Interpreter` | |
| `Executions` | the `executions` table between Temporal, the stream and the API's requests; webhooks | `services/executions.py`, `services/events.py`, `services/notifications.py`, `live.py`, `TemporalWorkflowStarter` |
| `Executions_proofs` | theorems about `Executions` | |
| `JobProjection` | `job_executions` and `artifacts` of one execution: emits, retried tasks, the stream's consumer group, replicas | `_project_job`, `_record_artifacts`, `run_event_subscriber`, `publish_event` |
| `JobProjection_proofs` | theorems about `JobProjection` | |
| `JobAttempts` | the attempts of activities on the worker's threads, and what they do outside | `activities.py`, `file_transfer.py`, `storage.py`, `secrets.py`, `policies.py`, `run_job` and `emit` of `workflow.py`, `main.py` |
| `JobAttempts_proofs` | theorems about `JobAttempts` | |
| `LiveView` | the page of an execution and what feeds it | `ConnectionManager`, `_handle_message`, `stream_execution`, `ExecutionDetail.tsx` |
| `LiveView_proofs` | theorems about `LiveView` | |
| `Workflows` | workflows, versions and their Temporal Schedules | `services/workflows.py`, `routers/workflows.py`, `services/schedules.py`, `TemporalScheduler` |
| `Workflows_proofs` | theorems about `Workflows` | |
| `Agents` | enrollment tokens, agents, decisions, verifications | `services/agents.py`, `routers/agents.py` |
| `Agents_proofs` | theorems about `Agents` | |
| `DagValidation` | duplicate and unknown ids, Kahn's algorithm as `_has_cycle` and as `topological_order` | `workflow/dag.py` |
| `DagValidation_proofs` | theorems about `DagValidation` | |
| `MC...` | the instances TLC checks | |

`map` in `PROJECT.json` names the lines behind each definition.

How the modules fit together: `DagValidation` checks that what the API accepts is
`Acyclic` (module `Dag`); that is what `Interpreter` assumes of a definition
(`Valid`). `Interpreter` shows what its events and its close status may be;
`Executions` and `JobProjection` take a run as just those. `JobAttempts` opens the
step that they take as one, from a job's start to its result
(`RunJobSucceeds`, `ActivityEnds`), and gives the reasons for two of their
assumptions: that activities end (`ScheduledJobsClose`), and that publications
may come late (`EmitTimesOut`). `LiveView` follows the same subscriber on, to
the browser. `Interpreter` is an
implementation of `DagRun` under the refinement `statusOf` (`INSTANCE ... WITH`).

### How code becomes actions

- **Interpreter.** An action is what the event loop runs between two awaits of a
  coroutine. `phase` is the program counter of `run_dag`, `co[j]` that of the
  coroutine of job `j`; `todo` and `toRun` split a batch while `_skip_reason`
  walks through it. Rendering inputs is part of `Gather`, since each coroutine
  does it before its first await. Values are abstracted to whether a job
  produced every output that others read (`lacks`); a condition that renders may
  come out true or false. What validation does not look at may raise later:
  inputs with an expression rendering knows no form for, `{{ foo }}` or
  `{{ context.a.b }}` (`badInputs`), such conditions (`badCondition`), and a
  timeout or retry interval that does not parse (`badPolicy`), whose
  `ValueError` the workflow raises before it schedules the activity. Emitting
  may fail without consequence for the run; losses are left to the projections.
- **Workflow tasks** (`Interpreter`). `emit` is a local activity: what it has
  published is recorded when the task completes (`TaskCompletes`), not before.
  `task` holds the events of the task that is not recorded yet, `told` how many
  of them its latest attempt has published. A task that is lost (`TaskIsLost`)
  or that raised what is no failure of the run (`TaskRetries`, without end)
  starts over: `told` returns to 0 and `EmitAgain` publishes the same events
  again, into the same `log`, `execution_started` after `execution_failed`
  included. The run itself goes on only when the repeat has caught up
  (`UpToDate`). A repeat takes the way of the first time, since the code is
  deterministic and what it waits for is recorded. An activity can end only
  after the task that scheduled it was recorded (`Scheduled`). A cancellation
  may reach a repeat as well (`CancelCaught`).
- **Requests** (`Executions`, `Workflows`, `Agents`). A request is a program
  counter with what it has read; each call to Temporal, each flush and the
  commit is an action of its own. PostgreSQL runs at READ COMMITTED: a read
  locks nothing, a flush locks the row or the unique key until the transaction
  ends, a second writer waits, and a unique key refuses a second insert.
  SQLAlchemy does not write an attribute that equals what was read
  (`dirty`, `Advanced(e, seen) # seen`).
- **Subscriber.** Loading the row, committing and acknowledging are three
  actions, so that a crash or a request comes between any two. An exception
  drops the event and acknowledges it, as `_persist_event` does.
- **Consumer group** (`JobProjection`). `next` and `pending` are the group's;
  all replicas have one consumer name, so a replica that connects is given what
  another has in its hands (`hand`, the numbers of messages it was given and has
  yet to handle, which it does oldest first). Every redelivery comes from that. A worker that
  crashes goes back to what Temporal recorded and emits again.
- **Webhooks** (`Executions`). `_notify_terminal` is an action between reading the
  row and committing: `told` keeps what was sent, whatever becomes of the
  transaction. Whether a rule matches the outcome is the definition's matter; the
  model tells every outcome.
- **Attempts** (`JobAttempts`). `act` is Temporal's record of a job's activity,
  `at` the step in which each attempt's function is, `queue` and `threads` the
  executor. Temporal's start-to-close limit runs from `Poll`, also while the
  attempt waits for a thread; when it passes, the next attempt is scheduled and
  the old one goes on acting until it ends or the SDK interrupts it (a command's
  process is not reached by that: `orphan`). An external call has three outcomes
  where the code can see three: nothing happened and it raises; it happened and
  it raises; it happened. `putfo` is two steps, since it truncates first. What
  happened outside is kept by attempt number, so that a property can say whose
  work is found there. A job's `defect` is the one thing about its definition or
  its surroundings that can never work; SFTP keys that do not parse are found
  when the server is connected to, so those of a destination after the read
  (`key`). `rest` and `transform` are coroutines and take no thread. An artifact
  is declared by a path that is relative to the working directory or absolute
  (`path`); `ArtifactPath` is where it leads: an absolute one, as one in a
  pinned directory, is a single file for all attempts of the job.
- **Page** (`LiveView`). A visit is one run of the effect of `ExecutionDetail`,
  with its socket and its two requests; the answers are what the API read, and
  reach the page later. The registry of sockets and the copy that a broadcast
  walks over are separate, as in the code. `raced` remembers that an answer was
  read before the socket was registered, or came after a live event, or after
  the page had moved on.
- **Validation.** The cycle test and the order share one transition system:
  `_has_cycle` may take the ready jobs in any order, `topological_order` takes
  the first defined. Edges keep the entry they come from, so repeated entries
  count more than once, as in the code's lists.

### Abstractions a reader should know

- The interpreter's payloads, timestamps, identifiers and messages are left out.
  A definition is which job needs, reads and tests which.
- In `JobProjection` the execution's row is always there: the
  `execution_started` message that registers it comes first in the stream. The
  limit of messages per read and the stream's trimming are not modelled (the
  effect of trimming is that of a lost publication). That a publication outlives
  its time limit is modelled there (`EmitTimesOut`) and in `JobAttempts`.
- In `Interpreter`, events that sibling coroutines published in one task come
  again in the order of the first time; the log shows `MaxRepeats` repeats and
  stands still in later ones, which repeat the same.
- In `JobAttempts` a shared place belongs to one job, and several declared
  artifacts are one: an upload that fails after it stored some is a step, but
  that artifacts of one base name share a key (`storage.py:58`) is not there.
  Resource limits are one more way for a process to fail, and a job's log lines
  are left out. The time limit of an activity may come at any moment.
- In `LiveView` there is one tab and one API process, and the events of an
  execution are in the stream from the start: the subscriber takes the next at
  any time, which is the same. A restart closes all sockets and fails all
  requests; the page never reconnects, as in the code. The subscriber does:
  when acknowledging an event raises, it connects again and handles the event
  once more, while the sockets stay open (`Reconnect`).
- In `Executions` ids stand for `temporal_workflow_id`; retries of a client are
  just more requests.
- In `Workflows` a definition is its trigger; a cron trigger without an
  expression, for which a schedule that does not exist is paused, behaves as a
  manual one. A deleted workflow keeps its name in the unique key, although the
  check of `create_workflow` ignores it: the model refuses at the flush, as the
  database does.
- In `Agents` the certificate is the agent that presents it; an agent id is
  chosen freshly by a registration. Heartbeat times are left out but for the lock
  they take.

## 3. What is checked

Each run is `tlc -config <cfg> <module>`; each takes under three minutes.

| Run | Instance | What it shows |
|---|---|---|
| `interpreter` | six graphs over 3 jobs, `fail` and `continue`, jobs whose inputs, conditions or durations raise, cancellation and one repeat of a workflow task at any point (`MaxRepeats = 1`) | the invariants of a run, that it implements `DagRun`, and that it closes unless it raised an exception that is not an activity's, and then when it is cancelled (`Terminates`) |
| `executions` | one launchable id, two requests, the worker, the subscriber, two faults in any place | no row without a run, stored outcomes are real, announced runs are registered although the API may die between starting the run and the commit; webhooks hear of real outcomes only; rows of closed runs settle for good (`ClosedRunsSettle`), in the outcome that was notified or as cancelled (`NotifiedOutcomesAreStored`) |
| `executions_origins` | a scheduled run and a replay of it, two requests, no fault | the same safety for rows that the subscriber inserts and rows that a replay inserts |
| `workflows` | two ids that compete for a name, two requests, one cron expression, three versions, one fault | unique names, gapless versions, commits that touch one attribute, repair of the schedule |
| `job_projection` | one job that may succeed on attempt 1 or 2, one replica, two restarts, one loss, one publication that outlives its limit | exact rows when all is handled; final rows never change; all is handled in the end |
| `job_attempts` | one job of any kind, with or without a policy, with each defect its activity can meet, with relative and absolute artifact paths; three attempts, two threads, one crash, two tries of a publication | see below |
| `live_view` | an execution with two events and one without, two visits of the tab, one fault of any kind | what the page shows and what it is missing |
| `agents` | two tokens, two agents, three requests, one fault | single-use tokens, approval before activity |
| `dag_validation` | all graphs over three jobs with doubled entries, with an unknown name, or with shared ids | no job before its needs, the verdict, the order |

and three runs that exhibit a disagreement (section 5).

**What `job_attempts` shows.** `BrokenJobsDoNothing`: a transfer checks both
schemes before it reads and the size before it writes, a path of a transform is
evaluated before anything is answered, so that a definition that cannot work
leaves no trace, in any order of failures, time-outs and retries.
`RecordedArtifactIsOwn`: attempts that were given up go on writing files and
uploading, but into their own directory and under their own prefix. With a
pinned `working_dir` or an absolute path that is not so: there an attempt that
was given up changes the file which the recorded one then uploads, TLC finds it
as soon as either condition is dropped, and the property is only about relative
paths in fresh directories.
`DestinationHoldsRecorded`: a partial file of a failed attempt is always written
over before the job succeeds. It excludes jobs of which an attempt was given up:
that attempt may write over the destination after the recorded one, and TLC
finds it as soon as the exclusion is dropped. `ScheduledJobsClose` holds although
nothing ends a hung command, because the limit also runs for an attempt in the
queue.

**What `live_view` shows.** `ShownRowsAreStored` and `QuietPageIsComplete` hold
because an event is committed before it is broadcast, one at a time, and a
socket is registered until it is gone. Only live items are ordered: the items of
a stored answer may be followed by live ones that it holds already. The page has
no way to notice what it missed before its socket was registered, or to merge an
answer that comes after live events: `raced` excludes those pages from the
second property, and `MCConnectedPageIsComplete` (section 5) exhibits one.

**Why the bounds suffice.** Three jobs are the smallest graphs with an ancestor
that is not a dependency, two siblings in a batch and a join; `interpreter`
takes one graph of each shape that has an edge, and a chain against the order of
definition. Four or more jobs repeat these shapes, and the theorems of section 4
hold for every number. A second repeat of a workflow task publishes what the
first did. Races on a row need two actors besides the worker and the subscriber;
two requests on one id give every pair of operations, and the subscriber is the
third writer. Two faults put a crash on top of a lost event. Three versions let
a third request number itself after two that raced. Two tokens and two agents
are what a violation of `TokensAreSingleUse` or a mix-up would need; a third
request lets a decision and two verifications overlap. A job without a policy
has three attempts, so that one can be given up, one fail and one succeed; two
threads are enough for one to be held by a given-up attempt, and for both. Two
visits are a page and its successor; each fault of `LiveView` breaks one link of
the way to the page. `MaxRepeats`, `MaxFaults`, `MaxVersions`, `MaxVisits`,
`MaxRestarts`, `MaxLosses`, `MaxTimeouts`, `MaxCrashes` and `MaxTries` are the
only bounds in guards, besides the attempts that a policy allows (`AttemptCap`);
each bounds things that may happen, never what the program must do.

`CHECK_DEADLOCK FALSE` appears where the system may rightly stop: a scheduled run
that was never replayed, a stream that is fully handled, jobs that are closed, a
page that nobody leaves.

**Symmetry** permutes tokens, agents, clients, jobs or names of cron expressions,
and only in runs without liveness; no action orders these values. (In
`Interpreter` and `DagValidation` jobs are numbers, since definition order
matters, and there is no symmetry.)

**Fairness.**
- `Interpreter!Fairness`: the event loop runs whatever is runnable (weak fairness
  of `MainStep`), every activity ends, because its attempts and their time are
  bounded (`JobStep(j)`, per job), and Temporal reacts: it records tasks, closes
  runs and retries (`TemporalStep`), and it delivers a cancellation that was
  asked for also to a task that it keeps retrying (weak fairness of `Cancels`).
  Nobody has to ask for a cancellation, and no task has to be lost.
- `Executions!Fairness`: the subscriber's thread and a request that has started
  run on (weak). Reconciliation happens in GET requests: strong fairness of
  `BeginReconcile` per execution says that somebody keeps looking at an
  execution that is shown as running, which is what the pages do by polling.
  Nothing obliges users, the worker or Temporal, so runs need not close.
- `JobProjection!Fairness`: each replica's loop runs on, and reconnects after an
  error. Nothing obliges the worker.
- `JobAttempts!FairSpec`: the worker polls and its pool runs (weak), every call
  an activity makes returns or raises (weak, per attempt; the clients have
  time-outs of their own), and Temporal's time limits pass (weak fairness of
  `TimesOut`). There is no fairness on `ProcessExits`: nothing in the code bounds
  a command, since `RLIMIT_CPU` does not count the time it sleeps. That the
  worker of an agent's queue polls is an assumption: no limit covers the time
  until an attempt is taken.

Each property of a passing run has a mutant in `PROJECT.json`: a plausible
mistake in one definition (the operators under comments such as "Waiting for
success instead of any settlement") that makes TLC find it violated.

## 4. What is proved

`tlapm <module>_proofs.tla` for `Interpreter`, `Executions`, `Workflows`,
`JobProjection`, `JobAttempts`, `LiveView`, `Agents` and `DagValidation`. Every
safety invariant and action property that a passing run checks is a theorem,
for every value of the constants that satisfies the assumptions named below. In
each module `IInv` is the inductive invariant, `InitInv` and `StepInvariant` show
that it is one, and the theorems follow from it. TLC has checked every conjunct of
it on the module's instance.

**Interpreter**, for every `N \in Nat \ {0}` and every set of validated
definitions (`NAssumption`, `DefinitionsAssumption`: definitions are of the right
shape and `Valid`, which is what validation guarantees and, for the graph, the
run `dag_validation` checks) and every bound on repeats (`MaxRepeatsAssumption`):

| Theorem | States |
|---|---|
| `TypeCorrect` | `[]TypeOK` |
| `AncestorsFirst` | `[]StartsAfterAncestors` |
| `LoopProgresses` | `[]NeverStuck` |
| `ScopeIsComplete` | `[]InputsAreInScope` |
| `FinishedRunsAccount` | `[]FinishedRunAccountsForJobs` |
| `EventLogIsWellFormed` | `[]EventLogWellFormed` |
| `Refinement` | `Spec => ImplementsDagRun` |

The inductive invariant `IInv` adds to `TypeOK` what the properties leave
unsaid: the three sets are disjoint and hold only jobs whose coroutine returned
(`SetsInv`); a job that got anywhere has its *direct* needs in `completed`, a
skipped one has them settled (`NeedsInv`); what a batch is while it is decided,
gathered, and after it (`BatchInv`); how a run may end (`EndInv`); why a job was
skipped or not rendered (`ReasonInv`). `StartsAfterAncestors` is not inductive
because it speaks of ancestors; it follows from `NeedsInv` since `completed` is
closed under `needs` (`AncestorsWithin`). `NeverStuck` follows from `Acyclic`
applied to the jobs that are left. `ScopeIsComplete` says why inputs do not
render: a form that rendering rejects, or an output that was announced and not
produced, but never a job that was skipped, failed or has not run. The event log
needs an invariant of its own, `LogInv`, proved on top of `IInv`: each entry
corresponds to where its job is (`EntryInv`); what a task may publish again was
published before, it holds no start of a job that has succeeded, and the results
of those that failed (`TaskInv`); each job that moved left its entries, or the
repeat is still to publish them (`TraceInv`); and entries are in order, up to
repetitions (`OrderInv`). That no success is followed by another start comes from
`Scheduled`: the start was recorded before the activity could succeed. The refinement proof maps each action to a step of
`DagRun` or a stutter under `IInv`; `RefinesStep` has one step per action.

**Executions**, for every set of executions and every bound on faults
(`MaxFaultsAssumption`): `TypeCorrect`, `RowsHaveRuns` (`[]RowHasRun`),
`OutcomesAreTrue` (`[]StoredOutcomeWasReached`) and `NoRunIsForgotten`
(`[]AnnouncedRunsAreRegistered`, which excuses only a run whose own start event
was lost or not stored: `missed`). Rows are written from what was read before, so
`IInv` speaks of everybody who will write: an event in the stream is true of its
run (`EventsAreTrue`), so is the one that the subscriber holds
(`SubscriberHoldsEvent`), a request past its call to Temporal has a run that was
started, and what a reconciliation was told is the run's close status
(`RequestsAreBacked`, `RunsFollowVerdicts`).

**Workflows**, for any number of workflows, requests and versions and every bound
on faults (`MaxVersionsAssumption`, `MaxFaultsAssumption`): `TypeCorrect`,
`NamesAreUnique` (`[]OneLiveWorkflowPerName`), `NumberingIsGapless`
(`[]VersionsAreGapless`), and for steps `CommitsKeepOthersChanges`
(`CommitsChangeOneAttribute`) and `SoloRequestsRepair`
(`SoloRequestRepairsSchedule`). What the first two need is that a request past
its flush holds the unique key of what it will insert: no row has that name, no
version that number, and no other request holds it too (`FlushedCreates`,
`FlushedAdds`). The last is about what may have changed since a request read its
row. Nothing, if no other request was at work on that workflow meanwhile, and
that is what `overlapped` records (`OverlapsAreNoticed`); so the row is still as
such a request read it, and what it told Temporal is right for the row it commits
(`SoloRequestsAreCurrent`), with `OnlyCronsAreScheduled` for the schedules it
left as they were. `NumberingIsGapless` found an error in an earlier form of
`NextVersionNumber`, which left open what follows a gap.

**JobProjection**, for any jobs, attempts, replicas and bounds
(`AttemptsAssumption`, `BoundsAssumption`): `TypeCorrect` and `FinalRowsAreFinal`
(`FinalRowsStay`) for any number of replicas; and `OneReplicaIsExact`
(`[]HandledRowsAreExact`) under `OneReplica`. With two the property is false, as
the run `replicas_are_safe` shows, so the hypothesis says just what it takes. `IInv` relates
the worker's stage of a job to the events in the stream (`StagesAreTrue`,
`EventsAreTrue`) and these to the rows (`RowsAreTrue`). The argument for exact
rows is `SoloInv`: in the stream a job's start comes before its ends, and the
result it ended with is the last of them (`StartsComeFirst`, `EndsComeLast`); the
one replica acknowledges in the order of the stream and holds all that is pending
(`AcksAreInOrder`, `HandIsPending`); what it read of the rows is still so when it
commits (`SeenIsCurrent`); hence the rows are always those of the events
acknowledged so far, or of one more (`RowsFollowEvents`). Repeating that one more
event changes nothing, and this is why a restart between commit and
acknowledgement does no harm.

**LiveView**, for any finite set of executions, any scripts of events and any
bounds on visits and faults (`ScriptAssumption`, `BoundsAssumption`):
`TypeCorrect`, `ShownIsStored` (`[]ShownRowsAreStored`) and `PageIsComplete`
(`[]QuietPageIsComplete`). For the order of what is shown, the row in the
subscriber's hands must be newer than all that was sent before (`FreshRowIsNew`),
and it is the last row of its run (`HandlerIsTrue`), because the subscriber has
one event in hand at a time. Completeness speaks of pages at rest; the invariant
speaks of all of them. Each stored row is in the answer to come, shown, on the
wire, or still to be sent (`OnTheWay`, `RowsAreAccounted`). No event slips
through between the two ways, since an answer read before the socket was
registered counts as a race (`UnracedWaits`), and an open socket stays registered
(`RegistryIsOpen`). The status shown is the row's, unless an event that changes it
is on its way (`StatusFollows`). To keep that when such an event arrives,
`StatusIsLast` says that the row has the status of the last event of its own, and
`NoGaps` that after a message on the wire come all the later rows, so the last of
these is the last one stored.

**DagValidation**, for every set of names and number of jobs (`NAssumption`,
`CopiesAssumption`, `NamesAssumption`, `DefinitionsAssumption`): `TypeCorrect`,
`NeedsComeFirst` (`[]VisitedAfterNeeds`), `OrderIsOfDefinition`
(`[]FirstDefinedFirst`) and `ValidationIsExact` (`[]AcceptsExactlyDags`). The
in-degree of an id counts the edges into it that were not followed yet
(`CountersCount`), repeated `needs` included, so it is zero just when all its
needs are visited (`ReadyIsExact`). The ids visited are closed under needs and
have no cycle among them (`VisitedIsAcyclic`), which needs no induction over the
graph; and if ids are left when none is ready, each of these has a need
among them, which is a cycle.

**Agents**, for every set of tokens, agents and clients and every bound on faults
(`MaxFaultsAssumption`): `TypeCorrect`, `SingleUse` (`[]TokensAreSingleUse`) and
`ApprovedFirst` (`[]ActiveWasApproved`). The two invariants speak of rows, but
what matters is what requests in flight will write to them. `IInv` adds that a
token held by a row or a registration is gone from Redis (`Spent`), that no two
of them hold the same token or agent (`Distinct`: this is where GETDEL being
atomic is used), and that a verification in flight is of an agent that was
approved (`Writing`).

**JobAttempts**, for any jobs and definitions, any number of threads and any
bounds on attempts (at least the default policy's), crashes and tries
(`PoolAssumption`, `BoundsAssumption`, `ProfilesAssumption`): `TypeCorrect`,
`BrokenSafe` (`[]BrokenJobsDoNothing`), `ArtifactSafe` (`[]RecordedArtifactIsOwn`)
and `DestinationSafe` (`[]DestinationHoldsRecorded`). What has to be added is who
may still act. An attempt that acts is the one Temporal waits for or one it gave
up, and later ones have not begun (`AttemptInv`, on Temporal's own record,
`RecordInv`); an attempt is in the executor's queue at most once (`QueueInv`), so
no thread starts it again; a step is reached only by jobs of the kind and with
the defects that lead to it (`StepInv`); and what lies in a fresh directory or
under an attempt's key is that attempt's, if the path is relative (`OwnInv`). `DestinationSafe` uses
`AttemptInv` at its core: with no attempt given up, nothing is left that could
write once the activity has closed. `ActorShape` shows that each step of each
activity moves on, raises or succeeds (`Moves`, `Raises`, `Succeeds`) and touches
only what it may (`Touches`); the rest of the proof argues about these shapes.

**Model-checked only.** Everything about liveness (`Terminates`,
`ClosedRunsSettle`, `NotifiedOutcomesAreStored`, `EventsAreHandled`,
`ScheduledJobsClose`) is out of the proof system's reach, and
`HandledRowsAreExact` holds of one replica only.

## 5. Where the code and its documentation disagree

Runs that are expected to find a violation:

| Run | Quoted | The code |
|---|---|---|
| `aborted_run_closes` | a failed job "aborts the whole execution (status `failed`)" (user guide) | a `TemplateError`, and the `ValueError` of a timeout or interval that does not parse (`workflow.py:51`, `policies.py:30`), are no failures Temporal closes a run with: the task is retried for ever, under fairness |
| `cancel_is_terminal` | "a user cancel is terminal" (`services/events.py`) | a late `execution_started` sets the row to running again; a terminal event loaded before the cancellation committed overwrites it |
| `replicas_are_safe` | "running multiple API replicas is safe — each event is delivered to exactly one replica" (`INSTALLATION.md`) | the replicas split an execution's events: one finds no row for a job's result while the other has not stored its start, and drops it; the row stays `running` without any failure |

Further disagreements, each a property at the end of its module and a `.cfg`
that exhibits it (`tlc -config <cfg> <module>`):

| Configuration | What it exhibits |
|---|---|
| `MCFailedJobsAreReported` (`MCInterpreter`) | a job whose inputs do not render fails without any job event, so nothing records it |
| `MCValidatedRendersWithoutSurprises` (`MCInterpreter`) | a condition may read what is not in scope, since validation checks only `with`; and there it lets through expressions that `templating.py:50` rejects |
| `MCLaunchNeverConflicts` (`MCExecutions`) | the row should be created by an "upsert por temporal_workflow_id" (ADR-0014): the subscriber may insert it first; the launch then breaks the unique key and fails, although its run goes on |
| `MCStoredOutcomesAreNotified` (`MCExecutions`) | an outcome that reconciliation stores, because its event was lost, is never sent to a webhook, although the user guide promises it "when the execution reaches a terminal state" |
| `MCReplayKeepsInputs` (`MCExecutions`) | a row inserted by the subscriber has no inputs, and its replay runs without them |
| `MCSettledRowAgrees` (`MCExecutions`) | a cancellation that comes after the run has ended stays `cancelled` in the row |
| `MCScheduleFollowsRow` (`MCWorkflows`) | two concurrent requests leave a schedule that disagrees with the row, without any failure |
| `MCActiveTriggerIsScheduled` (`MCWorkflows`) | a new version's cron expression never reaches the schedule that runs it |
| `MCOneRowPerJob`, `MCPublishedAtMostOnce`, `MCDeliveredToOneReplica` (`MCJobProjection`) | a late start event adds a second row to a retried job; a slow publication is repeated; two replicas handle one message |
| `MCRevokedCannotOperate` (`MCAgents`) | "A revoked agent cannot operate" (user guide): a heartbeat that read the row before the revocation writes `online` over it |
| `MCRevokedIsFinal` (`MCAgents`) | a revoked agent can be approved again |
| `MCEventsNeverBlock` (`MCJobAttempts`) | "best-effort: short timeout, no retry, never blocks progress" (`workflow.py`): the local activity has no retry policy, so it is tried without limit, and while hung commands hold every thread the run waits for it |
| `MCInvalidUrlsFailFast` (`MCJobAttempts`) | "permanent errors (invalid URL ...) fail on the first attempt" (user guide): only in a rest job; a transform or a file transfer tries a malformed URL again |
| `MCConnectedPageIsComplete` (`MCLiveView`) | the live monitor's timeline (user guide): an event between the read of the stored events and the registration of the socket, or one that an answer overtakes, never appears on a connected page |

## 6. What is not modelled

- The workflow builder; the API's side of secrets and users, which check and
  insert behind a unique key; the Temporal client's lazy start. Planned.
- Log lines of jobs, the contents of payloads and outputs, resource limits.
- The connection of a worker at start-up and an agent's enrollment loop.
- References and their scopes (`references.py`) beyond what `Valid` keeps of
  them; parsing, hashing and the catalogue, which are data conversion.
- Cryptography, object storage, TLS, metrics, the pages that only present what
  the API returns, migrations, deployment: no state or order of their own.
- Read-only parts (overview, audit listing, simulation).

## 7. Plan

Done, in this order: `Dag`, `DagRun`, `Interpreter` and its proofs (the heart of
the program); `Executions` (its double write); `Workflows`, `JobProjection`,
`Agents`, `DagValidation`; the proofs about `Agents`; `JobAttempts` with its proofs,
`LiveView`, and webhooks as an extension of `Executions`; the proofs about
`Executions`, `Workflows`, `DagValidation`, `JobProjection` and `LiveView`.

Next modules, most important first:

1. `Builder`: the graph of `builder-model.ts` and its cycle test, against
   `Acyclic`; the round trip to a definition.
2. `References`: the scopes `validate_references` checks, against the scope the
   interpreter renders in, so that `Valid` is derived rather than assumed.
3. `CheckThenInsert`: secrets and users, the upsert and the unique key.
4. `_TemporalRuntime`, the lazy loop and client under concurrent first calls.

Theorems to prove next: that what `DagValidation` accepts is what `Interpreter`
assumes of a definition (`Valid`, as far as the graph goes), so that the two
fit together by proof; and the invariants of modules still to come.
