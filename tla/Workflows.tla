----------------------------- MODULE Workflows -----------------------------
(***************************************************************************)
(* Workflows, their versions and the Temporal Schedules of cron workflows: *)
(* the API requests that create, version, activate, enable, disable and    *)
(* delete a workflow, and _sync_schedule.                                  *)
(*                                                                         *)
(* A request is a thread with one transaction: it reads the workflow (the  *)
(* ORM object keeps what it read), flushes its change, calls Temporal, and *)
(* commits.  Flushing takes PostgreSQL's locks until the transaction ends; *)
(* reading takes none (READ COMMITTED).  An attribute that did not change  *)
(* is not written.                                                         *)
(***************************************************************************)
EXTENDS Naturals, FiniteSets

CONSTANTS
    Workflows,      \* ids (uuids); all of them compete for one name
    Clients,        \* concurrent API requests
    Crons,          \* cron expressions of a definition's trigger
    MaxVersions,    \* bound on the versions of a workflow
    MaxFaults       \* bound on failed calls to Temporal and on crashes

ASSUME MaxVersionsAssumption == MaxVersions \in Nat \ {0}
ASSUME MaxFaultsAssumption == MaxFaults \in Nat

VARIABLES
    rows,       \* Postgres: the workflows table
    versions,   \* Postgres: the versions of each workflow
    sched,      \* Temporal: the schedule of each workflow
    req,        \* the API requests
    faults,
    overlapped  \* history: clients whose request was not alone on its
                \* workflow, or lost a call

vars == <<rows, versions, sched, req, faults, overlapped>>

Triggers == Crons \cup {"manual"}
Numbers == 1..MaxVersions
Row == [trigger: Triggers, enabled: BOOLEAN, deleted: BOOLEAN, active: Numbers]
NoRow == [trigger |-> "none"]
Version == [number: Numbers, trigger: Triggers]
Schedule == [cron: Crons, version: Numbers, paused: BOOLEAN]
NoSchedule == [cron |-> "none"]
Ops == {"create", "add", "activate", "enable", "delete"}
Request == [op: Ops, at: {"flush", "sync", "commit"}, w: Workflows,
            row: Row,               \* the ORM object, its own change included
            dirty: BOOLEAN,         \* whether that changed an attribute
            version: Version]       \* the version a create or an add inserts
Idle == [at |-> "idle"]
NoVersion == [number |-> 1, trigger |-> "manual"]

TypeOK ==
    /\ rows \in [Workflows -> Row \cup {NoRow}]
    /\ versions \in [Workflows -> SUBSET Version]
    /\ sched \in [Workflows -> Schedule \cup {NoSchedule}]
    /\ req \in [Clients -> Request \cup {Idle}]
    /\ faults \in 0..MaxFaults
    /\ overlapped \subseteq Clients

Init ==
    /\ rows = [w \in Workflows |-> NoRow]
    /\ versions = [w \in Workflows |-> {}]
    /\ sched = [w \in Workflows |-> NoSchedule]
    /\ req = [c \in Clients |-> Idle]
    /\ faults = 0
    /\ overlapped = {}

Live(w) == rows[w] # NoRow /\ ~rows[w].deleted
NumbersOf(w) == {v.number : v \in versions[w]}
Fault == faults < MaxFaults /\ faults' = faults + 1
Goto(c, r) == req' = [req EXCEPT ![c] = r]

-----------------------------------------------------------------------------
(* Reading: each request checks what it needs and builds its change *)

Others(c, w) == {d \in Clients \ {c} : req[d] # Idle /\ req[d].w = w}

Begin(c, op, w, row, dirty, version) ==
    /\ req[c] = Idle
    /\ Goto(c, [op |-> op, at |-> "flush", w |-> w, row |-> row,
                dirty |-> dirty, version |-> version])
    /\ overlapped' =
        IF Others(c, w) = {} THEN overlapped \ {c}
        ELSE overlapped \cup {c} \cup Others(c, w)
    /\ UNCHANGED <<rows, versions, sched, faults>>

(* create_workflow: only names of workflows that are not deleted count.    *)
(* The id is new, also to Temporal.                                        *)
BeginCreate(c, w, t) ==
    /\ rows[w] = NoRow /\ sched[w] = NoSchedule /\ Others(c, w) = {}
    /\ \A v \in Workflows : ~Live(v)
    /\ Begin(c, "create", w,
             [trigger |-> t, enabled |-> TRUE, deleted |-> FALSE, active |-> 1],
             TRUE, [number |-> 1, trigger |-> t])

(* A numbering that also counts versions not yet committed: *)
NextPromised(w) ==
    Cardinality(versions[w]) + 1
        + Cardinality({d \in Clients : req[d] # Idle /\ req[d].w = w /\ req[d].op = "add"})

(* _next_version_number: the greatest committed number plus one. *)
NextVersionNumber(w) ==
    CHOOSE n \in 1..(MaxVersions + 1) :
        /\ \A m \in NumbersOf(w) : m < n
        /\ n # 1 => n - 1 \in NumbersOf(w)

(* add_version *)
BeginAdd(c, w, t) ==
    /\ Live(w)
    /\ NextVersionNumber(w) \in Numbers
    /\ Begin(c, "add", w, rows[w], FALSE,
             [number |-> NextVersionNumber(w), trigger |-> t])

(* get_workflow: an unknown or a deleted workflow is not found. *)
NotFound(c, w) ==
    /\ req[c] = Idle /\ ~Live(w)
    /\ UNCHANGED vars

Change(c, op, w, row) ==
    /\ Live(w)
    /\ Begin(c, op, w, row, row # rows[w], NoVersion)

(* activate_version: the row's trigger keeps what create_workflow stored. *)
BeginActivate(c, w, n) ==
    n \in NumbersOf(w) /\ Change(c, "activate", w, [rows[w] EXCEPT !.active = n])

(* set_enabled *)
BeginSetEnabled(c, w, enabled) ==
    Change(c, "enable", w, [rows[w] EXCEPT !.enabled = enabled])

(* delete_workflow *)
BeginDelete(c, w) == Change(c, "delete", w, [rows[w] EXCEPT !.deleted = TRUE])

-----------------------------------------------------------------------------
(* Flushing: INSERT or UPDATE, under the database's locks and unique keys *)

(* q holds a lock that r needs: the unique name, the unique version number *)
(* of a workflow, or the row.                                              *)
Excludes(q, r) ==
    \/ q.op = "create" /\ r.op = "create"
    \/ q.op = "add" /\ r.op = "add" /\ q.w = r.w /\ q.version.number = r.version.number
    \/ q.op # "add" /\ r.op # "add" /\ q.w = r.w /\ q.dirty /\ r.dirty

Blocked(c) ==
    \E d \in Clients \ {c} : req[d].at \in {"sync", "commit"} /\ Excludes(req[d], req[c])

(* Without the unique keys: *)
NothingTaken(r) == FALSE

(* A unique key is taken; deleted workflows keep their name. *)
Taken(r) ==
    \/ r.op = "create" /\ \E v \in Workflows : rows[v] # NoRow
    \/ r.op = "add" /\ r.version.number \in NumbersOf(r.w)

Flush(c) ==
    /\ req[c].at = "flush" /\ ~Blocked(c)
    /\ IF Taken(req[c]) THEN Goto(c, Idle)
       ELSE Goto(c, [req[c] EXCEPT !.at = IF req[c].op = "add" THEN "commit" ELSE "sync"])
    /\ UNCHANGED <<rows, versions, sched, faults, overlapped>>

-----------------------------------------------------------------------------
(* Calling Temporal: _sync_schedule, from the ORM object *)

Paused(w) == IF sched[w] = NoSchedule THEN NoSchedule ELSE [sched[w] EXCEPT !.paused = TRUE]

(* An update that leaves the schedule's state as it is: *)
UpdatedInPlace(r) ==
    [cron |-> r.row.trigger, version |-> r.row.active,
     paused |-> sched[r.w] # NoSchedule /\ sched[r.w].paused]

(* upsert replaces the whole schedule, its paused state included. *)
Upserted(r) == [cron |-> r.row.trigger, version |-> r.row.active, paused |-> FALSE]

(* Without _sync_schedule's early return for other triggers: *)
UpsertsAnyTrigger(r) == r.op # "delete" /\ r.row.enabled

Upserts(r) == r.op # "delete" /\ r.row.trigger \in Crons /\ r.row.enabled
Pauses(r) == r.op = "delete" \/ (r.row.trigger \in Crons /\ ~r.row.enabled)

Sync(c) ==
    /\ req[c].at = "sync"
    /\ LET r == req[c] IN
        /\ sched' = [sched EXCEPT ![r.w] =
                        IF Upserts(r) THEN Upserted(r)
                        ELSE IF Pauses(r) THEN Paused(r.w) ELSE @]
        /\ Goto(c, [r EXCEPT !.at = "commit"])
    /\ UNCHANGED <<rows, versions, faults, overlapped>>

(* _act swallows whatever a pause raises. *)
PauseFails(c) ==
    /\ req[c].at = "sync" /\ Pauses(req[c])
    /\ Fault
    /\ overlapped' = overlapped \cup {c}
    /\ Goto(c, [req[c] EXCEPT !.at = "commit"])
    /\ UNCHANGED <<rows, versions, sched>>

-----------------------------------------------------------------------------
(* Ending the transaction *)

(* Saving the whole object instead of what changed: *)
WholeRow(r, old) == r.row

(* What the request's UPDATE makes of the row. *)
Written(r, old) ==
    IF ~r.dirty THEN old
    ELSE CASE r.op = "create" -> r.row
           [] r.op = "activate" -> [old EXCEPT !.active = r.row.active]
           [] r.op = "enable" -> [old EXCEPT !.enabled = r.row.enabled]
           [] r.op = "delete" -> [old EXCEPT !.deleted = TRUE]

Commit(c) ==
    /\ req[c].at = "commit"
    /\ LET r == req[c] IN
        /\ rows' = [rows EXCEPT ![r.w] = Written(r, @)]
        /\ versions' = [versions EXCEPT ![r.w] =
                IF r.op \in {"create", "add"} THEN @ \cup {r.version} ELSE @]
    /\ Goto(c, Idle)
    /\ UNCHANGED <<sched, faults, overlapped>>

(* Any other failure (upsert, audit, commit, a crash) rolls back.  What    *)
(* Temporal was told stays.                                                *)
RollBack(c) ==
    /\ req[c] # Idle
    /\ Fault
    /\ Goto(c, Idle)
    /\ UNCHANGED <<rows, versions, sched, overlapped>>

-----------------------------------------------------------------------------

Next ==
    \E c \in Clients :
        \/ \E w \in Workflows :
            \/ \E t \in Triggers : BeginCreate(c, w, t) \/ BeginAdd(c, w, t)
            \/ \E n \in Numbers : BeginActivate(c, w, n)
            \/ \E enabled \in BOOLEAN : BeginSetEnabled(c, w, enabled)
            \/ BeginDelete(c, w) \/ NotFound(c, w)
        \/ Flush(c) \/ Sync(c) \/ PauseFails(c) \/ Commit(c) \/ RollBack(c)

Spec == Init /\ [][Next]_vars

-----------------------------------------------------------------------------
(* Properties *)

(* One name, one workflow: create_workflow looks for the name and inserts  *)
(* later, yet concurrent creations never leave two live workflows.         *)
OneLiveWorkflowPerName == \A v, w \in Workflows : Live(v) /\ Live(w) => v = w

(* Versions are numbered 1, 2, ... without gap or repetition although      *)
(* _next_version_number and the insert are separate and requests fail, and *)
(* the active version is one of them.                                      *)
VersionsAreGapless ==
    \A w \in Workflows :
        /\ NumbersOf(w) = 1..Cardinality(versions[w])
        /\ rows[w] # NoRow => rows[w].active \in NumbersOf(w)

(* A request that read a workflow before it was deleted does not bring it  *)
(* back when it commits, nor does it undo any other request's change:      *)
(* each commit changes at most the attribute its operation is about.       *)
CommitsChangeOneAttribute ==
    [][\A w \in Workflows : rows[w] # NoRow =>
        /\ rows[w].deleted => rows'[w].deleted
        /\ rows'[w] \in UNION {
            {[rows[w] EXCEPT !.active = n] : n \in Numbers},
            {[rows[w] EXCEPT !.enabled = b] : b \in BOOLEAN},
            {[rows[w] EXCEPT !.deleted = TRUE]}}]_vars

(* The schedule runs iff the workflow is live, enabled and cron, and then  *)
(* with the row's cron expression and active version.                      *)
Agrees(w) ==
    IF Live(w) /\ rows[w].enabled /\ rows[w].trigger \in Crons
    THEN sched[w] = [cron |-> rows[w].trigger, version |-> rows[w].active, paused |-> FALSE]
    ELSE sched[w] = NoSchedule \/ sched[w].paused

(* _sync_schedule repairs: whatever crashes, lost calls and races left     *)
(* behind, a request that runs alone and loses no call leaves the schedule *)
(* in agreement with the row it commits.                                   *)
SoloRequestRepairsSchedule ==
    [][\A c \in Clients, w \in Workflows :
        /\ req[c].at = "commit" /\ req[c].w = w /\ req[c].op # "add"
        /\ c \notin overlapped /\ req'[c] = Idle /\ faults' = faults
        => Agrees(w)']_vars

-----------------------------------------------------------------------------
(* What the documentation says and the code does not do *)

(* "the API reconciles it on create / activate / enable / disable"         *)
(* (services/schedules.py): when no call failed and no request is in       *)
(* progress, schedules agree with rows.                                    *)
ScheduleFollowsRow ==
    faults = 0 /\ (\A c \in Clients : req[c] = Idle) => \A w \in Workflows : Agrees(w)

(* "trigger: { type: cron, cron, timezone } is registered as a Temporal    *)
(* Schedule" (USER-GUIDE) "with the active version's definition"           *)
(* (services/schedules.py): a running schedule has the cron expression of  *)
(* the version it runs.                                                    *)
ActiveTriggerIsScheduled ==
    \A w \in Workflows :
        sched[w] # NoSchedule /\ ~sched[w].paused /\ rows[w] # NoRow =>
            \A v \in versions[w] :
                v.number = sched[w].version => v.trigger = sched[w].cron
=============================================================================
