--------------------------- MODULE JobProjection ---------------------------
(***************************************************************************)
(* The job rows and artifacts of one execution, from the worker's job      *)
(* events through the Redis stream and its consumer group to PostgreSQL.   *)
(*                                                                         *)
(* The worker emits an event while it runs a workflow task; a task that    *)
(* was not recorded runs again and emits again.  The group hands a message *)
(* to a replica of the API once, but a replica that (re)connects first     *)
(* asks for what its consumer has not acknowledged, and all replicas use   *)
(* one consumer name.  A replica handles its messages one at a time, oldest *)
(* first, each in a transaction, and then acknowledges it.                 *)
(***************************************************************************)
EXTENDS Naturals, Sequences, FiniteSets, FiniteSetsExt

CONSTANTS
    Jobs,
    Attempts,       \* attempts on which a job may succeed, 1 among them
    Replicas,       \* API processes that run the subscriber
    MaxRestarts,    \* bound on crashes of the worker and of replicas
    MaxLosses,      \* bound on lost publications and failed transactions
    MaxTimeouts     \* bound on publications that outlive their time limit

ASSUME AttemptsAssumption ==
    1 \in Attempts /\ Attempts \subseteq Nat \ {0} /\ IsFiniteSet(Attempts)
ASSUME BoundsAssumption == {MaxRestarts, MaxLosses, MaxTimeouts} \subseteq Nat

VARIABLES
    skips,      \* the jobs the run skips, as its definition and inputs decide
    job,        \* worker: how far each job is, as the current task sees it
    recorded,   \* Temporal: the same, as of the last recorded task
    late,       \* worker: events in publisher threads whose time limit passed
    stream,     \* Redis: all messages, oldest first
    next,       \* Redis: the first message not yet handed to the group
    pending,    \* Redis: handed to the group and not acknowledged
    replica,    \* the API processes
    rows,       \* Postgres: job_executions
    artifacts,  \* Postgres: how many artifacts each job has
    restarts, losses, timeouts

workerVars == <<skips, job, recorded, late>>
redis == <<stream, next, pending>>
tables == <<rows, artifacts>>
faults == <<restarts, losses, timeouts>>
vars == <<skips, job, recorded, late, stream, next, pending, replica, rows,
          artifacts, restarts, losses, timeouts>>

Results == [type: {"job_succeeded"}, attempt: Attempts]
           \cup [type: {"job_failed"}, attempt: {0}]
Stages == {"pending", "started", "ended", "told", "skipped"}
NoResult == [type |-> "none", attempt |-> 0]
JobState == [stage: Stages, result: Results \cup {NoResult}]
Event == [type: {"job_started", "job_skipped"}, job: Jobs, attempt: {0}]
         \cup [type: {"job_succeeded"}, job: Jobs, attempt: Attempts]
         \cup [type: {"job_failed"}, job: Jobs, attempt: {0}]
Row == [id: 1..Cardinality(Attempts), job: Jobs, attempt: Attempts,
        status: {"running", "success", "failed", "skipped"}]
Fresh == [stage |-> "pending", result |-> NoResult]
Off == [at |-> "off", hand |-> {}, draining |-> FALSE, cursor |-> 0, seen |-> {}]

TypeOK ==
    /\ skips \subseteq Jobs
    /\ job \in [Jobs -> JobState] /\ recorded \in [Jobs -> JobState]
    /\ late \subseteq Event
    /\ stream \in Seq(Event)
    /\ next \in 1..(Len(stream) + 1)
    /\ pending \subseteq 1..(next - 1)
    /\ replica \in [Replicas -> [at: {"off", "idle", "loaded", "stored"},
                                 hand: SUBSET DOMAIN stream, draining: BOOLEAN,
                                 cursor: 0..Len(stream),
                                 seen: SUBSET (1..Cardinality(Attempts))]]
    /\ rows \subseteq Row
    /\ artifacts \in [Jobs -> Nat]
    /\ restarts \in 0..MaxRestarts /\ losses \in 0..MaxLosses
    /\ timeouts \in 0..MaxTimeouts

Init ==
    /\ skips \in SUBSET Jobs
    /\ job = [j \in Jobs |-> Fresh] /\ recorded = [j \in Jobs |-> Fresh]
    /\ late = {}
    /\ stream = <<>> /\ next = 1 /\ pending = {}
    /\ replica = [r \in Replicas |-> Off]
    /\ rows = {} /\ artifacts = [j \in Jobs |-> 0]
    /\ restarts = 0 /\ losses = 0 /\ timeouts = 0

Restart ==
    restarts < MaxRestarts /\ restarts' = restarts + 1 /\ UNCHANGED <<losses, timeouts>>
Loss ==
    losses < MaxLosses /\ losses' = losses + 1 /\ UNCHANGED <<restarts, timeouts>>
Timeout ==
    timeouts < MaxTimeouts /\ timeouts' = timeouts + 1 /\ UNCHANGED <<restarts, losses>>

-----------------------------------------------------------------------------
(* The worker *)

(* The event that the run says of job j next, and the stage after it. *)
Saying(j) == job[j].stage \in {"pending", "ended"}
Emission(j) ==
    IF job[j].stage = "ended"
    THEN [type |-> job[j].result.type, job |-> j, attempt |-> job[j].result.attempt]
    ELSE [type |-> IF j \in skips THEN "job_skipped" ELSE "job_started", job |-> j, attempt |-> 0]
StageAfter(j) ==
    IF job[j].stage = "ended" THEN "told" ELSE IF j \in skips THEN "skipped" ELSE "started"

(* publish_event appends the event, or Redis is away and it is lost. *)
Emit(j) ==
    /\ Saying(j)
    /\ \/ stream' = Append(stream, Emission(j)) /\ UNCHANGED faults
       \/ Loss /\ UNCHANGED stream
    /\ job' = [job EXCEPT ![j].stage = StageAfter(j)]
    /\ UNCHANGED <<skips, recorded, late, next, pending, replica, tables>>

(* publish_event takes too long: Temporal tries again, the thread goes on. *)
EmitTimesOut(j) ==
    /\ Saying(j)
    /\ Timeout
    /\ late' = late \cup {Emission(j)}
    /\ UNCHANGED <<skips, job, recorded, redis, replica, tables>>

PublishLate(e) ==
    /\ e \in late
    /\ late' = late \ {e}
    /\ stream' = Append(stream, e)
    /\ UNCHANGED <<skips, job, recorded, next, pending, replica, tables, faults>>

(* The task ends and its events are recorded with it. *)
TaskRecorded ==
    /\ recorded # job
    /\ recorded' = job
    /\ UNCHANGED <<skips, job, late, redis, replica, tables, faults>>

(* The activity was scheduled when the task that started the job was       *)
(* recorded; its result is history at once, for the next task to see.      *)
ActivityEnds(j, result) ==
    /\ recorded[j].stage = "started" /\ job[j].stage = "started"
    /\ job' = [job EXCEPT ![j] = [stage |-> "ended", result |-> result]]
    /\ recorded' = [recorded EXCEPT ![j] = [stage |-> "ended", result |-> result]]
    /\ UNCHANGED <<skips, late, redis, replica, tables, faults>>

WorkerCrashes ==
    /\ job # recorded
    /\ Restart
    /\ job' = recorded
    /\ UNCHANGED <<skips, recorded, late, redis, replica, tables>>

-----------------------------------------------------------------------------
(* The subscriber of a replica: run_event_subscriber *)

Update(r, state) == replica' = [replica EXCEPT ![r] = state]

(* (Re)connecting starts with the consumer's pending messages. *)
Connect(r) ==
    /\ replica[r].at = "off"
    /\ Update(r, [Off EXCEPT !.at = "idle", !.draining = TRUE])
    /\ UNCHANGED <<workerVars, redis, tables, faults>>

(* Never leaving the recovery of pending messages: *)
ReadPendingForever(r) ==
    LET todo == {k \in pending : k > replica[r].cursor} IN
    /\ replica[r].at = "idle" /\ replica[r].hand = {} /\ replica[r].draining
    /\ todo # {}
    /\ Update(r, [replica[r] EXCEPT !.hand = todo, !.cursor = Max(todo)])
    /\ UNCHANGED <<workerVars, redis, tables, faults>>

(* XREADGROUP with a cursor: this consumer name's unacknowledged messages  *)
(* after it; when there are none, only new messages from now on.           *)
ReadPending(r) ==
    LET todo == {k \in pending : k > replica[r].cursor} IN
    /\ replica[r].at = "idle" /\ replica[r].hand = {} /\ replica[r].draining
    /\ IF todo = {} THEN Update(r, [replica[r] EXCEPT !.draining = FALSE])
       ELSE Update(r, [replica[r] EXCEPT !.hand = todo, !.cursor = Max(todo)])
    /\ UNCHANGED <<workerVars, redis, tables, faults>>

(* Handing messages out without recording them as pending (NOACK): *)
ReadNewNoAck(r) ==
    /\ replica[r].at = "idle" /\ replica[r].hand = {} /\ ~replica[r].draining
    /\ next <= Len(stream)
    /\ Update(r, [replica[r] EXCEPT !.hand = next..Len(stream)])
    /\ next' = Len(stream) + 1
    /\ UNCHANGED <<workerVars, stream, pending, tables, faults>>

(* XREADGROUP with id >: every message the group has not handed out. *)
ReadNew(r) ==
    /\ replica[r].at = "idle" /\ replica[r].hand = {} /\ ~replica[r].draining
    /\ next <= Len(stream)
    /\ Update(r, [replica[r] EXCEPT !.hand = next..Len(stream)])
    /\ pending' = pending \cup next..Len(stream)
    /\ next' = Len(stream) + 1
    /\ UNCHANGED <<workerVars, stream, tables, faults>>

InHand(r) == stream[Min(replica[r].hand)]

RowsOf(j) == {row \in rows : row.job = j}

(* _project_job selects the job's row. *)
Load(r) ==
    /\ replica[r].at = "idle" /\ replica[r].hand # {}
    /\ Update(r, [replica[r] EXCEPT !.at = "loaded", !.seen = {row.id : row \in RowsOf(InHand(r).job)}])
    /\ UNCHANGED <<workerVars, redis, tables, faults>>

(* Counting attempts from zero: *)
StartedAtZero(e, id) ==
    [id |-> id, job |-> e.job, attempt |-> 0,
     status |-> IF e.type = "job_started" THEN "running" ELSE "skipped"]

Started(e, id) ==
    [id |-> id, job |-> e.job, attempt |-> 1,
     status |-> IF e.type = "job_started" THEN "running" ELSE "skipped"]

(* job_started as an upsert of the job's row: *)
StoreStartUpserting(e) ==
    rows' = (rows \ RowsOf(e.job)) \cup {Started(e, 1)} /\ UNCHANGED artifacts

(* job_started and job_skipped insert a row with attempt 1; the unique key *)
(* on job and attempt may refuse it, and the transaction fails.            *)
StoreStart(e) ==
    /\ IF \E row \in RowsOf(e.job) : row.attempt = 1 THEN UNCHANGED rows
       ELSE rows' = rows \cup {Started(e, Cardinality(RowsOf(e.job)) + 1)}
    /\ UNCHANGED artifacts

(* A result updates the row that was selected and adds its artifacts; the  *)
(* unique key may refuse it.                                               *)
StoreResult(e, id) ==
    LET succeeded == e.type = "job_succeeded"
        old == CHOOSE row \in RowsOf(e.job) : row.id = id
        new == [id |-> id, job |-> e.job,
                attempt |-> IF succeeded THEN e.attempt ELSE old.attempt,
                status |-> IF succeeded THEN "success" ELSE "failed"]
    IN  IF \E row \in RowsOf(e.job) \ {old} : row.attempt = new.attempt
        THEN UNCHANGED tables
        ELSE /\ rows' = (rows \ {old}) \cup {new}
             /\ artifacts' = [artifacts EXCEPT ![e.job] = IF succeeded THEN @ + 1 ELSE @]

Store(r) ==
    /\ replica[r].at = "loaded"
    /\ IF InHand(r).type \in {"job_started", "job_skipped"} THEN StoreStart(InHand(r))
       ELSE IF replica[r].seen = {} THEN UNCHANGED tables
       ELSE \E id \in replica[r].seen : StoreResult(InHand(r), id)
    /\ Update(r, [replica[r] EXCEPT !.at = "stored", !.seen = {}])
    /\ UNCHANGED <<workerVars, redis, faults>>

(* Any exception is swallowed, and the message acknowledged. *)
StoreFails(r) ==
    /\ replica[r].at = "loaded"
    /\ Loss
    /\ Update(r, [replica[r] EXCEPT !.at = "stored", !.seen = {}])
    /\ UNCHANGED <<workerVars, redis, tables>>

Ack(r) ==
    /\ replica[r].at = "stored"
    /\ pending' = pending \ {Min(replica[r].hand)}
    /\ Update(r, [replica[r] EXCEPT !.at = "idle", !.hand = @ \ {Min(@)}])
    /\ UNCHANGED <<workerVars, stream, next, tables, faults>>

(* A replica stops, or loses its connection to Redis. *)
Disconnect(r) ==
    /\ replica[r].at # "off"
    /\ Restart
    /\ Update(r, Off)
    /\ UNCHANGED <<workerVars, redis, tables>>

-----------------------------------------------------------------------------

WorkerStep ==
    \/ \E j \in Jobs :
        \/ Emit(j) \/ EmitTimesOut(j)
        \/ \E result \in Results : ActivityEnds(j, result)
    \/ TaskRecorded
    \/ \E e \in late : PublishLate(e)

SubscriberStep(r) ==
    Connect(r) \/ ReadPending(r) \/ ReadNew(r) \/ Load(r) \/ Store(r) \/ Ack(r)

Next ==
    \/ WorkerStep \/ WorkerCrashes
    \/ \E r \in Replicas : SubscriberStep(r) \/ StoreFails(r) \/ Disconnect(r)

Spec == Init /\ [][Next]_vars

Fairness == \A r \in Replicas : WF_vars(SubscriberStep(r))
FairSpec == Spec /\ Fairness

-----------------------------------------------------------------------------
(* Properties *)

AllHandled ==
    next > Len(stream) /\ pending = {} /\ \A r \in Replicas : replica[r].hand = {}

Announced(j, types) == \E k \in DOMAIN stream : stream[k].job = j /\ stream[k].type \in types

ExpectedRow(j) ==
    LET succeeded == Announced(j, {"job_succeeded"}) IN
    [id |-> 1, job |-> j,
     attempt |-> IF succeeded THEN job[j].result.attempt ELSE 1,
     status |-> IF j \in skips THEN "skipped"
                ELSE IF succeeded THEN "success"
                ELSE IF Announced(j, {"job_failed"}) THEN "failed" ELSE "running"]

(* "Nothing is lost to a restart" (run_event_subscriber): when no          *)
(* publication and no transaction failed and every message was handled,    *)
(* each announced job has exactly one row, with its own outcome and        *)
(* attempt, and its artifacts, however often the worker and the subscriber *)
(* stopped and repeated themselves, and also when a publication that       *)
(* outlived its time limit comes late (but see OneRowPerJob for a job that *)
(* was retried).                                                           *)
HandledRowsAreExact ==
    AllHandled /\ losses = 0 =>
        \A j \in Jobs : timeouts = 0 \/ job[j].result.attempt <= 1 =>
            /\ RowsOf(j) = IF Announced(j, {"job_started", "job_skipped"})
                           THEN {ExpectedRow(j)} ELSE {}
            /\ Announced(j, {"job_succeeded"}) => artifacts[j] > 0

(* A final row never changes nor goes away, whatever is repeated, lost or  *)
(* refused.                                                                *)
FinalRowsStay ==
    [][\A row \in rows : row.status # "running" => row \in rows']_vars

(* Every message is handled in the end, also those in hand when a replica  *)
(* stopped: the rows of finished jobs become final.                        *)
EventsAreHandled ==
    \A j \in Jobs :
        recorded[j].stage = "told" /\ losses = 0
            ~> (losses > 0 \/ \E row \in rows : row.job = j /\ row.status # "running")

-----------------------------------------------------------------------------
(* What the documentation says and the code does not do *)

(* "Maintain a job_executions row per job" (_project_job). *)
OneRowPerJob == \A j \in Jobs : Cardinality(RowsOf(j)) <= 1

(* "Event publishing is best-effort: short timeout, no retry" (workflow.py):*)
(* if the worker does not restart, an event is published at most once.     *)
PublishedAtMostOnce == restarts = 0 => IsInjective(stream)

(* "Running multiple API replicas is safe" (INSTALLATION): without any     *)
(* fault, once every message was handled a job that has ended is shown so. *)
ReplicasAreSafe ==
    (AllHandled /\ restarts + losses + timeouts = 0) =>
        \A j \in Jobs : Announced(j, {"job_succeeded", "job_failed"}) =>
            \E row \in RowsOf(j) : row.status # "running"

(* "... each event is delivered to exactly one replica" (INSTALLATION): no *)
(* message is in the hands of two.                                         *)
DeliveredToOneReplica ==
    \A r, s \in Replicas : r # s => replica[r].hand \cap replica[s].hand = {}
=============================================================================
