----------------------------- MODULE Executions -----------------------------
(***************************************************************************)
(* The life of executions between Temporal, the event stream and the       *)
(* executions table.  API requests (launch, replay, cancel, reconcile) are *)
(* threads that read a row, call Temporal and write the row when their     *)
(* transaction commits; the worker publishes the lifecycle events of a run *)
(* and closes it; one subscriber per API takes events from the stream,     *)
(* stores each in a transaction and then acknowledges it.                  *)
(*                                                                         *)
(* A transaction is its reads followed by one atomic commit (PostgreSQL at *)
(* READ COMMITTED: nothing read is locked).  The interpreter is reduced to *)
(* what its events and its close status say: see Interpreter.              *)
(***************************************************************************)
EXTENDS Naturals, Sequences

CONSTANTS
    Launches,   \* temporal_workflow_ids of POST /executions (deterministic)
    Replays,    \* ids of replays (made unique by a uuid)
    Crons,      \* ids of runs that Temporal Schedules start
    Clients,    \* concurrent API requests
    MaxFaults   \* bound on crashes and on lost or failed deliveries

Ids == Launches \cup Replays \cup Crons

ASSUME IdsAssumption ==
    /\ Launches \cap Replays = {} /\ Launches \cap Crons = {}
    /\ Replays \cap Crons = {}
ASSUME MaxFaultsAssumption == MaxFaults \in Nat

VARIABLES
    run,        \* Temporal: state of the run of an id
    args,       \* Temporal: whether it was started with the caller's inputs
    asked,      \* Temporal: cancellation was requested
    said,       \* worker: which lifecycle event it published last
    verdict,    \* worker: how the run ends; fixed by its history
    stream,     \* Redis: events the consumer group has not acknowledged
    rows,       \* Postgres: the executions table
    sub,        \* the subscriber
    told,       \* webhooks: the outcomes that were sent to them, per id
    req,        \* the API requests
    faults,     \* crashes, and deliveries that were lost or failed
    missed      \* history: runs of which a start event was lost or not stored

temporal == <<run, args, asked>>
worker == <<said, verdict>>
vars == <<run, args, asked, said, verdict, stream, rows, sub, told, req, faults,
          missed>>
faultVars == <<faults, missed>>

Closed == {"completed", "failed", "cancelled"}
Terminal == {"success", "failed", "cancelled"}
Event == [id: Ids, type: {"execution_started", "execution_finished",
                          "execution_failed"}]
Inputs == {"given", "default"}
Row == [status: Terminal \cup {"running"},
        trigger_source: {"manual", "replay", "cron"},
        input_context: Inputs]
NoRow == [status |-> "absent", trigger_source |-> "none", input_context |-> "none"]
NoRequest == [at |-> "idle"]
Request ==
    {NoRequest}
    \cup [at: {"start", "insert"}, id: Ids, source: {"manual", "replay"},
          input_context: Inputs]
    \cup [at: {"conflict", "cancel", "mark", "describe"}, id: Ids]
    \cup [at: {"heal"}, id: Ids, status: Terminal]

TypeOK ==
    /\ run \in [Ids -> {"absent", "open"} \cup Closed]
    /\ args \in [Ids -> Inputs \cup {"none"}]
    /\ asked \in [Ids -> BOOLEAN]
    /\ said \in [Ids -> {"nothing", "started", "ended"}]
    /\ verdict \in [Ids -> {"none", "execution_finished", "execution_failed"}]
    /\ stream \in Seq(Event)
    /\ rows \in [Ids -> Row \cup {NoRow}]
    /\ sub \in [at: {"idle", "loaded", "notified", "stored"},
                seen: Terminal \cup {"running", "absent"}]
    /\ told \subseteq Ids \X Terminal
    /\ req \in [Clients -> Request]
    /\ faults \in 0..MaxFaults
    /\ missed \subseteq Ids

SubIdle == [at |-> "idle", seen |-> "absent"]

Init ==
    /\ run = [i \in Ids |-> "absent"]
    /\ args = [i \in Ids |-> "none"]
    /\ asked = [i \in Ids |-> FALSE]
    /\ said = [i \in Ids |-> "nothing"]
    /\ verdict = [i \in Ids |-> "none"]
    /\ stream = <<>>
    /\ rows = [i \in Ids |-> NoRow]
    /\ sub = SubIdle
    /\ told = {}
    /\ req = [c \in Clients |-> NoRequest]
    /\ faults = 0
    /\ missed = {}

Fault == faults < MaxFaults /\ faults' = faults + 1

(* An event does not come to be stored. *)
Misses(event) ==
    /\ Fault
    /\ missed' = IF event.type = "execution_started" THEN missed \cup {event.id} ELSE missed

SetStatus(i, status) == rows' = [rows EXCEPT ![i].status = status]

-----------------------------------------------------------------------------
(* Temporal and the worker *)

OpenRun(i, inputs) ==
    /\ run' = [run EXCEPT ![i] = "open"]
    /\ args' = [args EXCEPT ![i] = inputs]
    /\ UNCHANGED asked

(* A schedule starts a run; the API gave the schedule empty inputs. *)
CronFires(i) ==
    /\ i \in Crons /\ run[i] = "absent"
    /\ OpenRun(i, "default")
    /\ UNCHANGED <<worker, stream, rows, sub, told, req, faultVars>>

(* publish_event: appended to the stream, or lost because Redis is away.   *)
Publish(event) ==
    \/ stream' = Append(stream, event) /\ UNCHANGED faultVars
    \/ Misses(event) /\ UNCHANGED stream

PublishStarted(i) ==
    /\ run[i] = "open" /\ said[i] = "nothing"
    /\ Publish([id |-> i, type |-> "execution_started"])
    /\ said' = [said EXCEPT ![i] = "started"]
    /\ UNCHANGED <<temporal, verdict, rows, sub, told, req>>

(* A cancelled run may report a failure but does not report success. *)
PublishEnded(i, type) ==
    /\ run[i] = "open" /\ said[i] = "started"
    /\ verdict[i] \in {"none", type}
    /\ type = "execution_finished" => ~asked[i]
    /\ verdict' = [verdict EXCEPT ![i] = type]
    /\ Publish([id |-> i, type |-> type])
    /\ said' = [said EXCEPT ![i] = "ended"]
    /\ UNCHANGED <<temporal, rows, sub, told, req>>

(* The worker dies before the workflow task that published was recorded:   *)
(* the next one runs the task again and publishes again.                   *)
WorkerCrashes(i) ==
    /\ run[i] = "open" /\ said[i] # "nothing"
    /\ Fault
    /\ said' = [said EXCEPT ![i] = "nothing"]
    /\ UNCHANGED <<temporal, verdict, stream, rows, sub, told, req, missed>>

CloseRun(i) ==
    /\ run[i] = "open"
    /\ \/ /\ said[i] = "ended" /\ ~asked[i]
          /\ run' = [run EXCEPT ![i] =
                IF verdict[i] = "execution_finished" THEN "completed" ELSE "failed"]
       \/ /\ asked[i]
          /\ run' = [run EXCEPT ![i] = "cancelled"]
    /\ UNCHANGED <<args, asked, worker, stream, rows, sub, told, req, faultVars>>

-----------------------------------------------------------------------------
(* The subscriber: run_event_subscriber, _persist_event, handle_event *)

(* Read the next event and select its row. *)
SubLoad ==
    /\ sub.at = "idle" /\ stream # <<>>
    /\ sub' = [at |-> "loaded", seen |-> rows[Head(stream).id].status]
    /\ UNCHANGED <<temporal, worker, stream, rows, told, req, faultVars>>

(* A subscriber that leaves unknown runs to the request that started them. *)
NeverRegister(e) == UNCHANGED rows

(* _auto_register: no row was selected.  The insert fails, and with it the *)
(* transaction, if a request has inserted the row since.                   *)
AutoRegister(e) ==
    IF e.type = "execution_started" /\ rows[e.id] = NoRow
    THEN rows' = [rows EXCEPT ![e.id] =
                    [status |-> "running", trigger_source |-> "cron",
                     input_context |-> "default"]]
    ELSE UNCHANGED rows

(* The status handle_event gives a row it saw in status `seen'. *)
Advanced(e, seen) ==
    IF e.type = "execution_started" THEN "running"
    ELSE IF seen = "cancelled" THEN seen
    ELSE IF e.type = "execution_finished" THEN "success" ELSE "failed"

Notifies(e) == e.type # "execution_started" /\ sub.seen \notin {"absent", "cancelled"}

(* dispatch sends the outcome to the workflow's webhooks, best-effort, and *)
(* before the transaction commits.                                         *)
_notify_terminal ==
    /\ sub.at = "loaded"
    /\ LET e == Head(stream) IN
        /\ Notifies(e)
        /\ told' = told \cup {<<e.id, Advanced(e, sub.seen)>>}
    /\ sub' = [sub EXCEPT !.at = "notified"]
    /\ UNCHANGED <<temporal, worker, stream, rows, req, faultVars>>

(* Commit.  A status equal to the one read is not written. *)
SubStore ==
    /\ \/ sub.at = "loaded" /\ ~Notifies(Head(stream))
       \/ sub.at = "notified"
    /\ LET e == Head(stream) IN
        IF sub.seen = "absent" THEN AutoRegister(e)
        ELSE IF Advanced(e, sub.seen) # sub.seen
        THEN SetStatus(e.id, Advanced(e, sub.seen))
        ELSE UNCHANGED rows
    /\ sub' = [sub EXCEPT !.at = "stored"]
    /\ UNCHANGED <<temporal, worker, stream, told, req, faultVars>>

(* Any exception drops the event: it is acknowledged all the same. *)
SubStoreFails ==
    /\ sub.at \in {"loaded", "notified"}
    /\ Misses(Head(stream))
    /\ sub' = [sub EXCEPT !.at = "stored"]
    /\ UNCHANGED <<temporal, worker, stream, rows, told, req>>

SubAck ==
    /\ sub.at = "stored"
    /\ stream' = Tail(stream)
    /\ sub' = SubIdle
    /\ UNCHANGED <<temporal, worker, rows, told, req, faultVars>>

(* The API process dies: open transactions roll back, requests are gone,   *)
(* and the event in hand is delivered again.                               *)
ApiRestarts ==
    /\ Fault
    /\ sub' = SubIdle
    /\ req' = [c \in Clients |-> NoRequest]
    /\ UNCHANGED <<temporal, worker, stream, rows, told, missed>>

-----------------------------------------------------------------------------
(* API requests *)

Goto(c, r) == req' = [req EXCEPT ![c] = r]

(* create_execution returns an existing row at once ... *)
LaunchAgain(c, i) ==
    /\ req[c] = NoRequest /\ i \in Launches
    /\ rows[i] # NoRow
    /\ UNCHANGED vars

(* A launch or a replay that inserts its row before it has a run: *)
BeginLaunchUnstarted(c, i) ==
    /\ req[c] = NoRequest /\ i \in Launches
    /\ rows[i] = NoRow
    /\ Goto(c, [at |-> "insert", id |-> i, source |-> "manual",
                input_context |-> "given"])
    /\ UNCHANGED <<temporal, worker, stream, rows, sub, told, faultVars>>

BeginReplayUnstarted(c, o, i) ==
    /\ req[c] = NoRequest /\ i \in Replays
    /\ rows[o] # NoRow /\ run[i] = "absent"
    /\ Goto(c, [at |-> "insert", id |-> i, source |-> "replay",
                input_context |-> rows[o].input_context])
    /\ UNCHANGED <<temporal, worker, stream, rows, sub, told, faultVars>>

(* ... and otherwise goes on to start a run. *)
BeginLaunch(c, i) ==
    /\ req[c] = NoRequest /\ i \in Launches
    /\ rows[i] = NoRow
    /\ Goto(c, [at |-> "start", id |-> i, source |-> "manual",
                input_context |-> "given"])
    /\ UNCHANGED <<temporal, worker, stream, rows, sub, told, faultVars>>

(* replay_execution of execution o under a fresh id. *)
BeginReplay(c, o, i) ==
    /\ req[c] = NoRequest /\ i \in Replays
    /\ rows[o] # NoRow
    /\ run[i] = "absent"
    /\ ~\E d \in Clients : req[d] # NoRequest /\ req[d].id = i
    /\ Goto(c, [at |-> "start", id |-> i, source |-> "replay",
                input_context |-> rows[o].input_context])
    /\ UNCHANGED <<temporal, worker, stream, rows, sub, told, faultVars>>

(* starter.start: an id that already has a run keeps it. *)
StartRun(c) ==
    /\ req[c].at = "start"
    /\ IF run[req[c].id] = "absent"
       THEN OpenRun(req[c].id, req[c].input_context)
       ELSE UNCHANGED temporal
    /\ Goto(c, [req[c] EXCEPT !.at = "insert"])
    /\ UNCHANGED <<worker, stream, rows, sub, told, faultVars>>

(* Insert and commit; the unique key on temporal_workflow_id refuses a     *)
(* second row and the request fails.                                       *)
InsertRow(c) ==
    /\ req[c].at = "insert"
    /\ LET r == req[c] IN
        IF rows[r.id] = NoRow
        THEN /\ rows' = [rows EXCEPT ![r.id] =
                    [status |-> "running", trigger_source |-> r.source,
                     input_context |-> r.input_context]]
             /\ Goto(c, NoRequest)
        ELSE /\ Goto(c, [at |-> "conflict", id |-> r.id])
             /\ UNCHANGED rows
    /\ UNCHANGED <<temporal, worker, stream, sub, told, faultVars>>

ReportConflict(c) ==
    /\ req[c].at = "conflict"
    /\ Goto(c, NoRequest)
    /\ UNCHANGED <<temporal, worker, stream, rows, sub, told, faultVars>>

(* cancel_execution and reconcile_status return a terminal row unchanged. *)
LeaveSettled(c, i) ==
    /\ req[c] = NoRequest /\ rows[i].status \in Terminal
    /\ UNCHANGED vars

(* cancel_execution of a row that is not terminal. *)
BeginCancel(c, i) ==
    /\ req[c] = NoRequest /\ rows[i].status = "running"
    /\ Goto(c, [at |-> "cancel", id |-> i])
    /\ UNCHANGED <<temporal, worker, stream, rows, sub, told, faultVars>>

(* starter.cancel: errors, as for a run already closed, are swallowed. *)
CancelRun(c) ==
    /\ req[c].at = "cancel"
    /\ asked' = [asked EXCEPT ![req[c].id] = @ \/ run[req[c].id] = "open"]
    /\ Goto(c, [req[c] EXCEPT !.at = "mark"])
    /\ UNCHANGED <<run, args, worker, stream, rows, sub, told, faultVars>>

MarkCancelled(c) ==
    /\ req[c].at = "mark"
    /\ SetStatus(req[c].id, "cancelled")
    /\ Goto(c, NoRequest)
    /\ UNCHANGED <<temporal, worker, stream, sub, told, faultVars>>

(* reconcile_status, in GET requests, of a row old enough. *)
BeginReconcile(c, i) ==
    /\ req[c] = NoRequest /\ rows[i].status = "running"
    /\ Goto(c, [at |-> "describe", id |-> i])
    /\ UNCHANGED <<temporal, worker, stream, rows, sub, told, faultVars>>

(* A map that keeps Temporal's names, or treats every abnormal end alike: *)
TemporalName(closed) == closed
SuccessOrFailed(closed) == IF closed = "completed" THEN "success" ELSE "failed"

(* _STATUS_MAP *)
ProjectionOf(closed) == IF closed = "completed" THEN "success" ELSE closed

(* Without an entry for cancelled runs in the map: *)
DescribeUnlessCancelled(c) ==
    /\ req[c].at = "describe"
    /\ LET i == req[c].id IN
        IF run[i] \in {"completed", "failed"}
        THEN Goto(c, [at |-> "heal", id |-> i, status |-> ProjectionOf(run[i])])
        ELSE Goto(c, NoRequest)
    /\ UNCHANGED <<temporal, worker, stream, rows, sub, told, faultVars>>

(* Without an entry for failed runs in the map: *)
DescribeUnlessFailed(c) ==
    /\ req[c].at = "describe"
    /\ LET i == req[c].id IN
        IF run[i] \in {"completed", "cancelled"}
        THEN Goto(c, [at |-> "heal", id |-> i, status |-> ProjectionOf(run[i])])
        ELSE Goto(c, NoRequest)
    /\ UNCHANGED <<temporal, worker, stream, rows, sub, told, faultVars>>

DescribeRun(c) ==
    /\ req[c].at = "describe"
    /\ LET i == req[c].id IN
        IF run[i] \in Closed
        THEN Goto(c, [at |-> "heal", id |-> i, status |-> ProjectionOf(run[i])])
        ELSE Goto(c, NoRequest)
    /\ UNCHANGED <<temporal, worker, stream, rows, sub, told, faultVars>>

HealRow(c) ==
    /\ req[c].at = "heal"
    /\ SetStatus(req[c].id, req[c].status)
    /\ Goto(c, NoRequest)
    /\ UNCHANGED <<temporal, worker, stream, sub, told, faultVars>>

-----------------------------------------------------------------------------

WorkerStep(i) ==
    \/ PublishStarted(i)
    \/ \E type \in {"execution_finished", "execution_failed"} : PublishEnded(i, type)

SubStep == SubLoad \/ _notify_terminal \/ SubStore \/ SubAck

Continue(c) ==
    \/ StartRun(c) \/ InsertRow(c) \/ ReportConflict(c)
    \/ CancelRun(c) \/ MarkCancelled(c)
    \/ DescribeRun(c) \/ HealRow(c)

Next ==
    \/ \E i \in Ids : CronFires(i) \/ WorkerStep(i) \/ WorkerCrashes(i) \/ CloseRun(i)
    \/ SubStep \/ SubStoreFails \/ ApiRestarts
    \/ \E c \in Clients :
        \/ Continue(c)
        \/ \E i \in Ids :
            \/ LaunchAgain(c, i) \/ BeginLaunch(c, i)
            \/ LeaveSettled(c, i) \/ BeginCancel(c, i) \/ BeginReconcile(c, i)
        \/ \E o, i \in Ids : BeginReplay(c, o, i)

Spec == Init /\ [][Next]_vars

(* The subscriber's thread and the requests' threads run, and somebody     *)
(* keeps asking for an execution that is shown as running: the UI polls.   *)
(* Nothing makes the worker, Temporal or the users act.                    *)
Fairness ==
    /\ WF_vars(SubStep)
    /\ \A c \in Clients : WF_vars(Continue(c))
    /\ \A i \in Ids : SF_vars(\E c \in Clients : BeginReconcile(c, i))

FairSpec == Spec /\ Fairness

-----------------------------------------------------------------------------
(* Properties *)

(* The API never shows an execution that Temporal does not know: every     *)
(* writer of a row acts after the run was started, and no crash between    *)
(* the two systems can leave a row alone (the double write of ADR-0014).   *)
RowHasRun == \A i \in Ids : rows[i] # NoRow => run[i] # "absent"

(* A stored outcome is the run's own: whatever the order of late events,   *)
(* redeliveries, cancellations and reconciliations, a row says success or  *)
(* failed, and a webhook is told so, only if the run reached that end.     *)
StoredOutcomeWasReached ==
    \A i \in Ids :
        /\ rows[i].status = "success" \/ <<i, "success">> \in told
               => verdict[i] = "execution_finished"
        /\ rows[i].status = "failed" \/ <<i, "failed">> \in told
               => verdict[i] = "execution_failed"

(* No run is forgotten: once its start event has been consumed its row     *)
(* exists, whoever of the request and the subscriber inserted it first,    *)
(* also if the API died between starting the run and committing the row.   *)
(* Only a start event that was itself lost, or whose transaction failed,   *)
(* leaves a run without a row (create_execution, _auto_register).          *)
AnnouncedRunsAreRegistered ==
    \A i \in Ids :
        \/ i \in missed \/ said[i] = "nothing" \/ rows[i] # NoRow
        \/ \E k \in DOMAIN stream :
            stream[k] = [id |-> i, type |-> "execution_started"]

(* A row whose run has closed ends up settled for good although events     *)
(* were lost, dropped or applied late: reconciliation repairs it.          *)
ClosedRunsSettle ==
    \A i \in Ids :
        (run[i] \in Closed /\ rows[i] # NoRow)
            ~> [](rows[i].status \in Terminal)

(* What a webhook was told before the commit is in the row in the end,     *)
(* although the transaction may fail and the run may be closed otherwise:  *)
(* only a cancellation may stand instead (_notify_terminal, reconcile).    *)
NotifiedOutcomesAreStored ==
    \A i \in Ids, outcome \in Terminal :
        (<<i, outcome>> \in told /\ run[i] \in Closed)
            ~> rows[i].status \in {outcome, "cancelled"}

-----------------------------------------------------------------------------
(* What the documentation says and the code does not do *)

(* "a user cancel is terminal; don't let a late failed/finished event      *)
(* override it" (services/events.py).                                      *)
CancelIsTerminal ==
    [][\A i \in Ids : rows[i].status = "cancelled" => rows'[i].status = "cancelled"]_vars

(* The row "is created idempotently (upsert by temporal_workflow_id) ...   *)
(* retries of the API are safe" (ADR-0014): no launch is refused.          *)
LaunchNeverConflicts == \A c \in Clients : req[c].at # "conflict"

(* "Re-run a past execution: same version + inputs" (replay_execution).    *)
ReplayKeepsInputs ==
    \A i \in Replays : run[i] # "absent" => args[i] = "given"

(* Temporal is "the source of truth" (reconcile_status): once both sides   *)
(* are settled they say the same.                                          *)
SettledRowAgrees ==
    \A i \in Ids : run[i] \in Closed /\ rows[i].status \in Terminal =>
        rows[i].status = ProjectionOf(run[i])

(* "Each rule POSTs the outcome to a webhook when the execution reaches a  *)
(* terminal state" (user guide): an outcome in a row was notified.         *)
StoredOutcomesAreNotified ==
    \A i \in Ids : rows[i].status \in {"success", "failed"} =>
        \/ <<i, rows[i].status>> \in told
        \/ \E k \in DOMAIN stream : stream[k].id = i
=============================================================================
