------------------------- MODULE Executions_proofs -------------------------
(***************************************************************************)
(* Theorems about Executions, for any sets of executions and clients and   *)
(* any number of faults: the types, and the three safety properties of the *)
(* projection.                                                             *)
(*                                                                         *)
(* What a step writes was decided several steps before, from a read that   *)
(* may be stale by now: by a request, by the subscriber, or by the worker  *)
(* that published an event.  The inductive invariant says of each of them  *)
(* what still holds of that read when it is used.                          *)
(***************************************************************************)
EXTENDS Executions, TLAPS

Started(i) == [id |-> i, type |-> "execution_started"]

(* How a run ends is fixed by what it reported. *)
RunsFollowVerdicts ==
    \A i \in Ids :
        /\ said[i] # "nothing" => run[i] # "absent"
        /\ said[i] = "ended" => verdict[i] # "none"
        /\ run[i] = "completed" => verdict[i] = "execution_finished"
        /\ run[i] = "failed" => verdict[i] = "execution_failed"

(* An event in the stream is that of a run, and says how that run ends. *)
EventsAreTrue ==
    \A k \in 1..Len(stream) :
        /\ run[stream[k].id] # "absent"
        /\ stream[k].type # "execution_started"
               => verdict[stream[k].id] = stream[k].type

(* The subscriber holds an event; the row it saw has not gone away, and    *)
(* the row of a start event that was not missed exists when the event is   *)
(* acknowledged.                                                           *)
SubscriberHoldsEvent ==
    sub.at # "idle" =>
        /\ stream # <<>>
        /\ sub.at = "notified" => Head(stream).type # "execution_started"
        /\ sub.at \in {"loaded", "notified"} /\ sub.seen # "absent"
               => rows[Head(stream).id] # NoRow
        /\ sub.at = "stored" /\ Head(stream).type = "execution_started"
               => rows[Head(stream).id] # NoRow \/ Head(stream).id \in missed

(* A request that is about to insert a row has started the run; one that   *)
(* is about to change a row saw it; and the status it will store is still  *)
(* the run's own, since a closed run stays as it is.                       *)
RequestsAreBacked ==
    \A c \in Clients :
        /\ req[c].at \in {"insert", "conflict"} => run[req[c].id] # "absent"
        /\ req[c].at \in {"cancel", "mark", "describe", "heal"}
               => rows[req[c].id] # NoRow
        /\ req[c].at = "heal" =>
               /\ run[req[c].id] \in Closed
               /\ req[c].status = ProjectionOf(run[req[c].id])

IInv ==
    /\ TypeOK
    /\ RunsFollowVerdicts
    /\ EventsAreTrue
    /\ SubscriberHoldsEvent
    /\ RequestsAreBacked
    /\ RowHasRun
    /\ StoredOutcomeWasReached
    /\ AnnouncedRunsAreRegistered

-----------------------------------------------------------------------------
(* The operators.                                                          *)

LEMMA SeqDomain == ASSUME NEW S, NEW s \in Seq(S) PROVE DOMAIN s = 1..Len(s)
  OBVIOUS

LEMMA AdvancedStatus ==
    ASSUME NEW e \in Event, NEW seen
    PROVE  /\ Advanced(e, seen) \in {"running", "success", "failed", seen}
           /\ Advanced(e, seen) = "success" => e.type = "execution_finished" \/ seen = "success"
           /\ Advanced(e, seen) = "failed" => e.type = "execution_failed" \/ seen = "failed"
BY DEF Advanced, Event

(* The event in hand. *)
LEMMA HeadEvent ==
    ASSUME TypeOK, stream # <<>>
    PROVE  /\ Head(stream) = stream[1] /\ 1 \in 1..Len(stream)
           /\ Head(stream) \in Event /\ Head(stream).id \in Ids
           /\ Tail(stream) \in Seq(Event) /\ Len(Tail(stream)) = Len(stream) - 1
           /\ \A k \in 1..Len(Tail(stream)) : Tail(stream)[k] = stream[k + 1]
<1>1. /\ stream \in Seq(Event) /\ Len(stream) \in Nat /\ Len(stream) # 0
      /\ \A k \in 1..Len(stream) : stream[k] \in Event
  BY DEF TypeOK
<1>2. \A e \in Event : e.id \in Ids
  BY DEF Event
<1> QED
  BY <1>1, <1>2

(* What a request in progress carries. *)
LEMMA RequestShape ==
    ASSUME TypeOK, NEW c \in Clients
    PROVE  /\ req[c].at \in {"idle", "start", "insert", "conflict", "cancel", "mark",
                             "describe", "heal"}
           /\ req[c].at # "idle" => req[c].id \in Ids
           /\ req[c].at = "idle" <=> req[c] = NoRequest
           /\ req[c].at \in {"start", "insert"} =>
                req[c] \in [at: {"start", "insert"}, id: Ids,
                            source: {"manual", "replay"}, input_context: Inputs]
           /\ req[c].at \in {"conflict", "cancel", "mark", "describe"} =>
                req[c] \in [at: {"conflict", "cancel", "mark", "describe"}, id: Ids]
           /\ req[c].at = "heal" => req[c] \in [at: {"heal"}, id: Ids, status: Terminal]
<1>1. req[c] \in Request
  BY DEF TypeOK
<1> QED
  BY <1>1 DEF Request, NoRequest

LEMMA GotoRequest ==
    ASSUME TypeOK, NEW c \in Clients, NEW r, Goto(c, r)
    PROVE  /\ \A d \in Clients : req'[d] = IF d = c THEN r ELSE req[d]
           /\ r \in Request => req' \in [Clients -> Request]
BY DEF TypeOK, Goto

LEMMA StatusStored ==
    ASSUME TypeOK, NEW i \in Ids, rows[i] # NoRow,
           NEW status \in Terminal \cup {"running"}, SetStatus(i, status)
    PROVE  /\ rows' \in [Ids -> Row \cup {NoRow}]
           /\ \A j \in Ids : rows'[j].status = IF j = i THEN status ELSE rows[j].status
           /\ \A j \in Ids : rows'[j] # NoRow <=> rows[j] # NoRow
<1>1. rows[i] \in Row
  BY DEF TypeOK
<1>2. rows' = [rows EXCEPT ![i] = [rows[i] EXCEPT !.status = status]]
  BY DEF SetStatus
<1>3. [rows[i] EXCEPT !.status = status] \in Row /\ [rows[i] EXCEPT !.status = status] # NoRow
  BY <1>1 DEF Row, NoRow, Terminal
<1> QED
  BY <1>1, <1>2, <1>3 DEF TypeOK, Row

LEMMA RowInserted ==
    ASSUME TypeOK, NEW i \in Ids, rows[i] = NoRow,
           NEW s \in {"manual", "replay", "cron"}, NEW x \in Inputs,
           rows' = [rows EXCEPT ![i] =
                [status |-> "running", trigger_source |-> s, input_context |-> x]]
    PROVE  /\ rows' \in [Ids -> Row \cup {NoRow}]
           /\ \A j \in Ids : rows'[j].status = IF j = i THEN "running" ELSE rows[j].status
           /\ \A j \in Ids : rows'[j] # NoRow <=> rows[j] # NoRow \/ j = i
BY DEF TypeOK, Row, NoRow

LEMMA FaultCounted ==
    ASSUME TypeOK, Fault
    PROVE  faults' \in 0..MaxFaults
BY MaxFaultsAssumption DEF TypeOK, Fault

LEMMA EventMissed ==
    ASSUME TypeOK, NEW e \in Event, Misses(e)
    PROVE  /\ faults' \in 0..MaxFaults /\ missed' \subseteq Ids /\ missed \subseteq missed'
           /\ e.type = "execution_started" => e.id \in missed'
BY FaultCounted DEF TypeOK, Misses, Event

(* An event is published, or lost by a fault. *)
LEMMA Published ==
    ASSUME TypeOK, NEW e \in Event, Publish(e)
    PROVE  /\ stream' \in Seq(Event) /\ faults' \in 0..MaxFaults
           /\ missed' \subseteq Ids /\ missed \subseteq missed'
           /\ \/ stream' = stream /\ (e.type = "execution_started" => e.id \in missed')
              \/ /\ Len(stream') = Len(stream) + 1 /\ Len(stream) \in Nat
                 /\ \A k \in 1..Len(stream) : stream'[k] = stream[k]
                 /\ stream'[Len(stream) + 1] = e
                 /\ \A k \in 1..Len(stream') : k \in 1..Len(stream) \/ k = Len(stream) + 1
                 /\ stream # <<>> => stream' # <<>> /\ Head(stream') = Head(stream)
<1>1. /\ stream \in Seq(Event) /\ Len(stream) \in Nat
      /\ faults \in 0..MaxFaults /\ missed \subseteq Ids
  BY DEF TypeOK
<1>2. CASE stream' = Append(stream, e) /\ UNCHANGED <<faults, missed>>
  <2>1. /\ stream' \in Seq(Event) /\ Len(stream') = Len(stream) + 1
        /\ \A k \in 1..Len(stream) : stream'[k] = stream[k]
        /\ stream'[Len(stream) + 1] = e
    BY <1>1, <1>2
  <2>2. \A k \in 1..Len(stream') : k \in 1..Len(stream) \/ k = Len(stream) + 1
    BY <1>1, <2>1
  <2>3. stream # <<>> => stream' # <<>> /\ Head(stream') = Head(stream)
    BY <1>1, <2>1
  <2> QED
    BY <1>1, <1>2, <2>1, <2>2, <2>3
<1>3. CASE Misses(e) /\ UNCHANGED stream
  BY <1>1, <1>3, EventMissed
<1> QED
  BY <1>2, <1>3 DEF Publish, faultVars

-----------------------------------------------------------------------------
(* Types.                                                                  *)

LEMMA InitTypes == Init => TypeOK
BY MaxFaultsAssumption DEF Init, TypeOK, SubIdle, Request

(* The worker's and Temporal's steps. *)
LEMMA WorkerTypes ==
    ASSUME TypeOK, NEW i \in Ids,
           CronFires(i) \/ WorkerStep(i) \/ WorkerCrashes(i) \/ CloseRun(i)
    PROVE  TypeOK'
<1> USE DEF TypeOK, temporal, worker, faultVars
<1>1. CASE CronFires(i)
  BY <1>1 DEF CronFires, OpenRun, Inputs
<1>2. ASSUME NEW e \in Event, Publish(e)
      PROVE  stream' \in Seq(Event) /\ faults' \in 0..MaxFaults /\ missed' \subseteq Ids
  BY <1>2, Published
<1>3. CASE PublishStarted(i)
  <2>1. [id |-> i, type |-> "execution_started"] \in Event
    BY DEF Event
  <2> QED
    BY <1>2, <1>3, <2>1 DEF PublishStarted
<1>4. ASSUME NEW type \in {"execution_finished", "execution_failed"}, PublishEnded(i, type)
      PROVE  TypeOK'
  <2>1. [id |-> i, type |-> type] \in Event
    BY DEF Event
  <2> QED
    BY <1>2, <1>4, <2>1 DEF PublishEnded
<1>5. CASE WorkerCrashes(i)
  BY <1>5, FaultCounted DEF WorkerCrashes
<1>6. CASE CloseRun(i)
  BY <1>6 DEF CloseRun, Closed
<1> QED
  BY <1>1, <1>3, <1>4, <1>5, <1>6 DEF WorkerStep

(* The subscriber's. *)
LEMMA SubTypes ==
    ASSUME TypeOK, SubscriberHoldsEvent, SubStep \/ SubStoreFails \/ ApiRestarts
    PROVE  TypeOK'
<1> USE DEF TypeOK, temporal, worker, faultVars
<1>1. CASE SubLoad
  <2>1. rows[Head(stream).id].status \in Terminal \cup {"running", "absent"}
    BY <1>1, HeadEvent DEF SubLoad, Row, NoRow
  <2> QED
    BY <1>1, <2>1 DEF SubLoad
<1>2. CASE _notify_terminal
  <2>1. Head(stream).id \in Ids /\ Advanced(Head(stream), sub.seen) \in Terminal
    BY <1>2, HeadEvent DEF _notify_terminal, SubscriberHoldsEvent, Notifies, Advanced, Terminal
  <2> QED
    BY <1>2, <2>1 DEF _notify_terminal
<1>3. CASE SubStore
  <2> DEFINE e == Head(stream)
  <2>1. e \in Event /\ e.id \in Ids
    BY <1>3, HeadEvent DEF SubStore, SubscriberHoldsEvent
  <2>2. CASE sub.seen = "absent"
    <3>1. rows' \in [Ids -> Row \cup {NoRow}]
      BY <1>3, <2>1, <2>2, RowInserted DEF SubStore, AutoRegister, Inputs
    <3> QED
      BY <1>3, <3>1 DEF SubStore
  <2>3. CASE sub.seen # "absent"
    <3>1. rows[e.id] # NoRow /\ Advanced(e, sub.seen) \in Terminal \cup {"running"}
      BY <1>3, <2>1, <2>3, AdvancedStatus DEF SubStore, SubscriberHoldsEvent, Terminal
    <3>2. rows' \in [Ids -> Row \cup {NoRow}]
      BY <1>3, <2>1, <2>3, <3>1, StatusStored DEF SubStore
    <3> QED
      BY <1>3, <3>2 DEF SubStore
  <2> QED
    BY <2>2, <2>3
<1>4. CASE SubStoreFails
  <2>1. Head(stream) \in Event
    BY <1>4, HeadEvent DEF SubStoreFails, SubscriberHoldsEvent
  <2> QED
    BY <1>4, <2>1, EventMissed DEF SubStoreFails
<1>5. CASE SubAck
  BY <1>5, HeadEvent DEF SubAck, SubIdle, SubscriberHoldsEvent
<1>6. CASE ApiRestarts
  BY <1>6, FaultCounted DEF ApiRestarts, SubIdle, Request
<1> QED
  BY <1>1, <1>2, <1>3, <1>4, <1>5, <1>6 DEF SubStep

(* The requests'. *)
LEMMA ContinueTypes ==
    ASSUME TypeOK, RequestsAreBacked, NEW c \in Clients, Continue(c)
    PROVE  TypeOK'
<1> USE RequestShape, GotoRequest DEF temporal, worker, faultVars
<1>1. CASE StartRun(c)
  <2>1. [req[c] EXCEPT !.at = "insert"] \in Request
    BY <1>1 DEF StartRun, Request
  <2>2. req[c].id \in Ids /\ req[c].input_context \in Inputs
    BY <1>1 DEF StartRun
  <2>3. /\ run' \in [Ids -> {"absent", "open"} \cup Closed]
        /\ args' \in [Ids -> Inputs \cup {"none"}]
        /\ asked' \in [Ids -> BOOLEAN]
    <3>1. CASE run[req[c].id] = "absent"
      <4>1. OpenRun(req[c].id, req[c].input_context)
        BY <1>1, <3>1 DEF StartRun
      <4> QED
        BY <2>2, <4>1 DEF OpenRun, TypeOK
    <3>2. CASE run[req[c].id] # "absent"
      BY <1>1, <3>2 DEF StartRun, TypeOK
    <3> QED
      BY <3>1, <3>2
  <2>4. req' \in [Clients -> Request]
    BY <1>1, <2>1 DEF StartRun, TypeOK
  <2>5. UNCHANGED <<said, verdict, stream, rows, sub, told, faults, missed>>
    BY <1>1 DEF StartRun
  <2> QED
    BY <2>3, <2>4, <2>5 DEF TypeOK
<1>2. CASE InsertRow(c)
  <2>1. /\ req[c].id \in Ids /\ NoRequest \in Request
        /\ [at |-> "conflict", id |-> req[c].id] \in Request
    BY <1>2 DEF InsertRow, Request
  <2>2. rows' \in [Ids -> Row \cup {NoRow}]
    BY <1>2, <2>1, RowInserted DEF InsertRow, TypeOK
  <2> QED
    BY <1>2, <2>1, <2>2 DEF InsertRow, TypeOK
<1>3. CASE ReportConflict(c)
  BY <1>3 DEF ReportConflict, Request, TypeOK
<1>4. CASE CancelRun(c)
  <2>1. [req[c] EXCEPT !.at = "mark"] \in Request /\ req[c].id \in Ids
    BY <1>4 DEF CancelRun, Request
  <2> QED
    BY <1>4, <2>1 DEF CancelRun, TypeOK
<1>5. CASE MarkCancelled(c)
  <2>1. req[c].id \in Ids /\ rows[req[c].id] # NoRow
    BY <1>5 DEF MarkCancelled, RequestsAreBacked
  <2>2. rows' \in [Ids -> Row \cup {NoRow}]
    BY <1>5, <2>1, StatusStored DEF MarkCancelled, Terminal
  <2> QED
    BY <1>5, <2>2 DEF MarkCancelled, TypeOK, Request
<1>6. CASE DescribeRun(c)
  <2> DEFINE i == req[c].id
  <2>1. i \in Ids
    BY <1>6 DEF DescribeRun
  <2>2. run[i] \in Closed => [at |-> "heal", id |-> i, status |-> ProjectionOf(run[i])] \in Request
    BY <2>1 DEF Request, ProjectionOf, Closed, Terminal
  <2> QED
    BY <1>6, <2>2 DEF DescribeRun, TypeOK, Request
<1>7. CASE HealRow(c)
  <2>1. req[c].id \in Ids /\ rows[req[c].id] # NoRow /\ req[c].status \in Terminal
    BY <1>7 DEF HealRow, RequestsAreBacked
  <2>2. rows' \in [Ids -> Row \cup {NoRow}]
    BY <1>7, <2>1, StatusStored DEF HealRow
  <2> QED
    BY <1>7, <2>2 DEF HealRow, TypeOK, Request
<1> QED
  BY <1>1, <1>2, <1>3, <1>4, <1>5, <1>6, <1>7 DEF Continue

LEMMA BeginTypes ==
    ASSUME TypeOK, NEW c \in Clients, NEW o \in Ids, NEW i \in Ids,
           BeginLaunch(c, i) \/ BeginCancel(c, i) \/ BeginReconcile(c, i) \/ BeginReplay(c, o, i)
    PROVE  TypeOK'
<1> USE GotoRequest DEF temporal, worker, faultVars
<1>1. CASE BeginLaunch(c, i)
  <2>1. [at |-> "start", id |-> i, source |-> "manual", input_context |-> "given"] \in Request
    BY DEF Request, Inputs
  <2> QED
    BY <1>1, <2>1 DEF BeginLaunch, TypeOK
<1>2. CASE BeginCancel(c, i)
  BY <1>2 DEF BeginCancel, Request, TypeOK
<1>3. CASE BeginReconcile(c, i)
  BY <1>3 DEF BeginReconcile, Request, TypeOK
<1>4. CASE BeginReplay(c, o, i)
  <2>1. rows[o].input_context \in Inputs
    BY <1>4 DEF BeginReplay, TypeOK, Row
  <2>2. [at |-> "start", id |-> i, source |-> "replay", input_context |-> rows[o].input_context] \in Request
    BY <2>1 DEF Request
  <2> QED
    BY <1>4, <2>2 DEF BeginReplay, TypeOK
<1> QED
  BY <1>1, <1>2, <1>3, <1>4

-----------------------------------------------------------------------------
(* What no step takes back. *)
Stable ==
    \A i \in Ids :
        /\ run[i] # "absent" => run'[i] # "absent"
        /\ run[i] \in Closed => run'[i] = run[i]
        /\ verdict[i] # "none" => verdict'[i] = verdict[i]
        /\ rows[i] # NoRow => rows'[i] # NoRow

(* The worker's and Temporal's steps leave the rows and everybody else     *)
(* alone, and publish only events that are true.                           *)
Truthful(e) ==
    /\ run[e.id] # "absent"
    /\ e.type # "execution_started" => verdict'[e.id] = e.type

LEMMA WorkerShape ==
    ASSUME TypeOK, RunsFollowVerdicts, NEW i \in Ids,
           CronFires(i) \/ WorkerStep(i) \/ WorkerCrashes(i) \/ CloseRun(i)
    PROVE  /\ UNCHANGED <<rows, sub, told, req>>
           /\ Stable
           /\ RunsFollowVerdicts'
           /\ \/ stream' = stream
              \/ \E e \in Event : Publish(e) /\ Truthful(e)
           /\ missed \subseteq missed'
           /\ \A j \in Ids : said'[j] # "nothing" =>
                \/ said[j] # "nothing"
                \/ Publish(Started(j))
<1> USE DEF TypeOK, temporal, worker, faultVars, RunsFollowVerdicts, Stable, Truthful, Started
<1>1. CASE CronFires(i)
  BY <1>1 DEF CronFires, OpenRun, Closed
<1>2. CASE PublishStarted(i)
  <2>1. [id |-> i, type |-> "execution_started"] \in Event
    BY DEF Event
  <2>2. UNCHANGED <<run, verdict, rows, sub, told, req>>
    BY <1>2 DEF PublishStarted
  <2>3. RunsFollowVerdicts' /\ Stable
    BY <1>2, <2>2 DEF PublishStarted
  <2>4. missed \subseteq missed'
    BY <1>2, <2>1, Published DEF PublishStarted
  <2>5. Publish([id |-> i, type |-> "execution_started"]) /\ run[i] # "absent"
    BY <1>2 DEF PublishStarted
  <2>6. \A j \in Ids : said'[j] # "nothing" => said[j] # "nothing" \/ j = i
    BY <1>2 DEF PublishStarted
  <2> QED
    BY <2>1, <2>2, <2>3, <2>4, <2>5, <2>6
<1>3. ASSUME NEW type \in {"execution_finished", "execution_failed"}, PublishEnded(i, type)
      PROVE  /\ UNCHANGED <<rows, sub, told, req>>
             /\ Stable /\ RunsFollowVerdicts'
             /\ \E e \in Event : Publish(e) /\ Truthful(e)
             /\ missed \subseteq missed'
             /\ \A j \in Ids : said'[j] # "nothing" => said[j] # "nothing"
  <2>1. [id |-> i, type |-> type] \in Event
    BY DEF Event
  <2>2. UNCHANGED <<run, rows, sub, told, req>>
    BY <1>3 DEF PublishEnded
  <2>3. /\ \A j \in Ids : verdict'[j] = IF j = i THEN type ELSE verdict[j]
        /\ \A j \in Ids : said'[j] = IF j = i THEN "ended" ELSE said[j]
        /\ run[i] = "open" /\ said[i] = "started" /\ verdict[i] \in {"none", type}
    BY <1>3 DEF PublishEnded
  <2>4. RunsFollowVerdicts' /\ Stable
    BY <2>2, <2>3
  <2>5. Publish([id |-> i, type |-> type])
    BY <1>3 DEF PublishEnded
  <2> QED
    BY <2>1, <2>2, <2>3, <2>4, <2>5, Published
<1>4. CASE WorkerCrashes(i)
  BY <1>4, FaultCounted DEF WorkerCrashes
<1>5. CASE CloseRun(i)
  BY <1>5 DEF CloseRun, Closed
<1> QED
  BY <1>1, <1>2, <1>3, <1>4, <1>5 DEF WorkerStep

LEMMA WorkerKeeps ==
    ASSUME IInv, NEW i \in Ids,
           CronFires(i) \/ WorkerStep(i) \/ WorkerCrashes(i) \/ CloseRun(i)
    PROVE  IInv'
<1> USE DEF IInv
<1>1. /\ UNCHANGED <<rows, sub, told, req>>
      /\ Stable
      /\ RunsFollowVerdicts'
      /\ missed \subseteq missed'
  BY WorkerShape
<1>2. /\ stream \in Seq(Event) /\ Len(stream) \in Nat
      /\ \A k \in 1..Len(stream) : stream[k] \in Event /\ stream[k].id \in Ids
  <2>1. \A e \in Event : e.id \in Ids
    BY DEF Event
  <2>2. stream \in Seq(Event)
    BY DEF TypeOK
  <2> QED
    BY <2>1, <2>2
<1>3. TypeOK'
  BY WorkerTypes
<1>4. \/ stream' = stream
      \/ \E e \in Event : Publish(e) /\ Truthful(e)
  BY WorkerShape
<1>5. EventsAreTrue'
  <2>1. CASE stream' = stream
    BY <1>1, <1>2, <2>1 DEF EventsAreTrue, Stable, Event
  <2>2. ASSUME NEW e \in Event, Publish(e), Truthful(e) PROVE EventsAreTrue'
    <3>1. e.id \in Ids
      BY DEF Event
    <3>2. \A k \in 1..Len(stream) :
              /\ run'[stream[k].id] # "absent"
              /\ stream[k].type # "execution_started" => verdict'[stream[k].id] = stream[k].type
      BY <1>1, <1>2 DEF EventsAreTrue, Stable, Event
    <3>3. CASE stream' = stream
      BY <3>2, <3>3 DEF EventsAreTrue
    <3> QED
      BY <1>1, <2>2, <3>1, <3>2, <3>3, Published DEF EventsAreTrue, Truthful, Stable
  <2> QED
    BY <1>4, <2>1, <2>2
<1>6. SubscriberHoldsEvent'
  <2>1. stream # <<>> => stream' # <<>> /\ Head(stream') = Head(stream)
    BY <1>4, Published
  <2> QED
    BY <1>1, <2>1 DEF SubscriberHoldsEvent
<1>7. RequestsAreBacked'
  BY <1>1, RequestShape DEF RequestsAreBacked, Stable
<1>8. RowHasRun' /\ StoredOutcomeWasReached'
  BY <1>1 DEF RowHasRun, StoredOutcomeWasReached, Stable
<1>9. AnnouncedRunsAreRegistered'
  <2> SUFFICES ASSUME NEW j \in Ids, j \notin missed', said'[j] # "nothing", rows[j] = NoRow
               PROVE  \E k \in DOMAIN stream' : stream'[k] = Started(j)
    BY <1>1 DEF AnnouncedRunsAreRegistered, Started
  <2>0. stream' \in Seq(Event)
    BY <1>3 DEF TypeOK
  <2>1. DOMAIN stream = 1..Len(stream) /\ DOMAIN stream' = 1..Len(stream')
    BY <1>2, <2>0, SeqDomain
  <2>2. \A k \in 1..Len(stream) : k \in 1..Len(stream') /\ stream'[k] = stream[k]
    BY <1>2, <1>4, Published
  <2>3. CASE said[j] # "nothing"
    BY <1>1, <2>1, <2>2, <2>3 DEF AnnouncedRunsAreRegistered, Started
  <2>4. CASE Publish(Started(j))
    <3>1. Started(j) \in Event /\ Started(j).type = "execution_started" /\ Started(j).id = j
      BY DEF Started, Event
    <3>2. Len(stream) + 1 \in 1..Len(stream') /\ stream'[Len(stream) + 1] = Started(j)
      BY <1>2, <2>4, <3>1, Published
    <3> QED
      BY <2>1, <3>2
  <2> QED
    BY <2>3, <2>4, WorkerShape
<1> QED
  BY <1>1, <1>3, <1>5, <1>6, <1>7, <1>8, <1>9

(* The subscriber's steps write rows and the stream only.                  *)
LEMMA SubShape ==
    ASSUME IInv, SubStep \/ SubStoreFails \/ ApiRestarts
    PROVE  /\ UNCHANGED <<run, said, verdict>>
           /\ Stable
           /\ missed \subseteq missed'
           /\ req' = req \/ req' = [c \in Clients |-> NoRequest]
           /\ \A i \in Ids : rows'[i] # NoRow => run[i] # "absent"
           /\ \A i \in Ids :
                /\ rows'[i].status = "success" \/ <<i, "success">> \in told'
                       => verdict[i] = "execution_finished"
                /\ rows'[i].status = "failed" \/ <<i, "failed">> \in told'
                       => verdict[i] = "execution_failed"
<1> USE DEF IInv, temporal, worker, faultVars, Stable
<1>0. \A i \in Ids : NoRow.status # "success" /\ NoRow.status # "failed"
  BY DEF NoRow
<1>1. CASE SubLoad
  BY <1>1 DEF SubLoad, RowHasRun, StoredOutcomeWasReached
<1>2. stream # <<>> =>
        /\ Head(stream) \in Event /\ Head(stream).id \in Ids
        /\ run[Head(stream).id] # "absent"
        /\ Head(stream).type # "execution_started"
               => verdict[Head(stream).id] = Head(stream).type
  BY HeadEvent DEF EventsAreTrue
<1>3. CASE _notify_terminal
  <2> DEFINE e == Head(stream)
             outcome == Advanced(e, sub.seen)
  <2>1. /\ stream # <<>> /\ Notifies(e) /\ told' = told \cup {<<e.id, outcome>>}
        /\ UNCHANGED <<run, said, verdict, rows, req, faults, missed>>
    BY <1>3 DEF _notify_terminal, SubscriberHoldsEvent
  <2>2. /\ outcome = "success" => verdict[e.id] = "execution_finished"
        /\ outcome = "failed" => verdict[e.id] = "execution_failed"
    BY <1>2, <2>1 DEF Advanced, Notifies, Event
  <2> HIDE DEF outcome, e
  <2> QED
    BY <2>1, <2>2 DEF RowHasRun, StoredOutcomeWasReached
<1>4. CASE SubStore
  <2> DEFINE e == Head(stream)
  <2>1. /\ stream # <<>> /\ UNCHANGED <<run, said, verdict, told, req, faults, missed>>
        /\ e \in Event /\ e.id \in Ids /\ run[e.id] # "absent"
    BY <1>2, <1>4 DEF SubStore, SubscriberHoldsEvent
  <2>2. CASE rows' = rows
    BY <2>1, <2>2 DEF RowHasRun, StoredOutcomeWasReached
  <2>3. CASE sub.seen = "absent" /\ rows' # rows
    <3>1. rows[e.id] = NoRow /\ rows' = [rows EXCEPT ![e.id] =
                [status |-> "running", trigger_source |-> "cron", input_context |-> "default"]]
      BY <1>4, <2>3 DEF SubStore, AutoRegister
    <3>2. /\ \A j \in Ids : rows'[j].status = IF j = e.id THEN "running" ELSE rows[j].status
          /\ \A j \in Ids : rows'[j] # NoRow <=> rows[j] # NoRow \/ j = e.id
      BY <2>1, <3>1, RowInserted DEF Inputs
    <3> QED
      BY <2>1, <3>2 DEF RowHasRun, StoredOutcomeWasReached
  <2>4. CASE sub.seen # "absent" /\ rows' # rows
    <3> DEFINE s == Advanced(e, sub.seen)
    <3>1. rows[e.id] # NoRow /\ SetStatus(e.id, s) /\ s # sub.seen
      BY <1>4, <2>4 DEF SubStore, SubscriberHoldsEvent
    <3>2. /\ s \in Terminal \cup {"running"}
          /\ s = "success" => verdict[e.id] = "execution_finished"
          /\ s = "failed" => verdict[e.id] = "execution_failed"
      BY <1>2, <2>1, <3>1, AdvancedStatus DEF Advanced, Event, Terminal
    <3> HIDE DEF s, e
    <3>3. /\ \A j \in Ids : rows'[j].status = IF j = e.id THEN s ELSE rows[j].status
          /\ \A j \in Ids : rows'[j] # NoRow <=> rows[j] # NoRow
      BY <2>1, <3>1, <3>2, StatusStored
    <3> QED
      BY <2>1, <3>2, <3>3 DEF RowHasRun, StoredOutcomeWasReached
  <2> QED
    BY <2>2, <2>3, <2>4
<1>5. CASE SubStoreFails
  <2>1. Misses(Head(stream)) /\ Head(stream) \in Event
    BY <1>2, <1>5 DEF SubStoreFails, SubscriberHoldsEvent
  <2> QED
    BY <1>5, <2>1, EventMissed DEF SubStoreFails, RowHasRun, StoredOutcomeWasReached
<1>6. CASE SubAck
  BY <1>6 DEF SubAck, RowHasRun, StoredOutcomeWasReached
<1>7. CASE ApiRestarts
  BY <1>7 DEF ApiRestarts, RowHasRun, StoredOutcomeWasReached
<1> QED
  BY <1>1, <1>3, <1>4, <1>5, <1>6, <1>7 DEF SubStep

(* What the subscriber holds, and what it leaves when it lets go.          *)
LEMMA SubHolds ==
    ASSUME IInv, SubStep \/ SubStoreFails \/ ApiRestarts
    PROVE  /\ SubscriberHoldsEvent'
           /\ \/ UNCHANGED stream
              \/ /\ stream # <<>> /\ stream' = Tail(stream)
                 /\ Head(stream).type = "execution_started"
                        => rows[Head(stream).id] # NoRow \/ Head(stream).id \in missed
<1> USE DEF IInv, temporal, worker, faultVars, SubscriberHoldsEvent
<1>1. CASE SubLoad
  <2>1. /\ stream # <<>> /\ UNCHANGED <<stream, rows>>
        /\ sub' = [at |-> "loaded", seen |-> rows[Head(stream).id].status]
    BY <1>1 DEF SubLoad
  <2> QED
    BY <2>1 DEF NoRow
<1>2. CASE _notify_terminal
  <2>1. /\ stream # <<>> /\ UNCHANGED <<stream, rows>>
        /\ sub' = [sub EXCEPT !.at = "notified"] /\ sub.at = "loaded"
        /\ Head(stream).type # "execution_started"
    BY <1>2 DEF _notify_terminal, Notifies
  <2>2. sub'.at = "notified" /\ sub'.seen = sub.seen
    BY <2>1 DEF TypeOK
  <2> QED
    BY <2>1, <2>2
<1>3. CASE SubStore
  <2>1. /\ stream # <<>> /\ UNCHANGED <<stream, faults, missed>> /\ sub'.at = "stored"
    BY <1>3 DEF SubStore, TypeOK
  <2>2. Head(stream).type = "execution_started" => rows'[Head(stream).id] # NoRow
    <3> SUFFICES ASSUME Head(stream).type = "execution_started"
                 PROVE  rows'[Head(stream).id] # NoRow
      BY <2>1
    <3>1. Head(stream) \in Event /\ Head(stream).id \in Ids
      BY <2>1, HeadEvent
    <3>2. CASE sub.seen = "absent"
      <4>1. AutoRegister(Head(stream))
        BY <1>3, <3>2 DEF SubStore
      <4> QED
        BY <3>1, <4>1 DEF AutoRegister, TypeOK, NoRow
    <3>3. CASE sub.seen # "absent"
      <4>1. rows[Head(stream).id] # NoRow
        BY <1>3, <3>3 DEF SubStore
      <4> QED
        BY <3>1, <4>1, SubShape DEF SubStep, Stable
    <3> QED
      BY <3>2, <3>3
  <2> QED
    BY <2>1, <2>2
<1>4. CASE SubStoreFails
  <2>1. /\ stream # <<>> /\ UNCHANGED <<stream, rows>> /\ sub'.at = "stored"
        /\ Misses(Head(stream)) /\ Head(stream) \in Event
    BY <1>4, HeadEvent DEF SubStoreFails, TypeOK
  <2> QED
    BY <2>1, EventMissed
<1>5. CASE SubAck
  BY <1>5 DEF SubAck, SubIdle
<1>6. CASE ApiRestarts
  BY <1>6 DEF ApiRestarts, SubIdle
<1> QED
  BY <1>1, <1>2, <1>3, <1>4, <1>5, <1>6 DEF SubStep

LEMMA SubKeeps ==
    ASSUME IInv, SubStep \/ SubStoreFails \/ ApiRestarts
    PROVE  IInv'
<1> USE DEF IInv
<1>1. /\ UNCHANGED <<run, said, verdict>>
      /\ Stable
      /\ missed \subseteq missed'
      /\ req' = req \/ req' = [c \in Clients |-> NoRequest]
  BY SubShape
<1>2. TypeOK'
  BY SubTypes
<1>3. RunsFollowVerdicts'
  BY <1>1 DEF RunsFollowVerdicts
<1>4. /\ stream \in Seq(Event) /\ stream' \in Seq(Event)
      /\ Len(stream) \in Nat /\ Len(stream') \in Nat
      /\ DOMAIN stream = 1..Len(stream) /\ DOMAIN stream' = 1..Len(stream')
  BY <1>2, SeqDomain DEF TypeOK
<1>b. RowHasRun' /\ StoredOutcomeWasReached'
  BY <1>1, SubShape DEF RowHasRun, StoredOutcomeWasReached
<1>c. RequestsAreBacked'
  BY <1>1, RequestShape DEF RequestsAreBacked, NoRequest, Stable
<1>5. CASE UNCHANGED stream
  <2>1. EventsAreTrue'
    BY <1>1, <1>5 DEF EventsAreTrue
  <2>2. AnnouncedRunsAreRegistered'
    BY <1>1, <1>5 DEF AnnouncedRunsAreRegistered, Stable
  <2> QED
    BY <2>1, <2>2, <1>2, <1>3, <1>b, <1>c, SubHolds
<1>6. CASE stream # <<>> /\ stream' = Tail(stream)
  <2>1. /\ Len(stream') = Len(stream) - 1
        /\ \A k \in 1..Len(stream') : stream'[k] = stream[k + 1] /\ k + 1 \in 1..Len(stream)
        /\ \A k \in 1..Len(stream) : k # 1 => k - 1 \in 1..Len(stream') /\ stream'[k - 1] = stream[k]
        /\ Head(stream) = stream[1]
    BY <1>4, <1>6, HeadEvent
  <2>2. EventsAreTrue'
    <3> SUFFICES ASSUME NEW k \in 1..Len(stream')
                 PROVE  /\ run[stream'[k].id] # "absent"
                        /\ stream'[k].type # "execution_started"
                               => verdict[stream'[k].id] = stream'[k].type
      BY <1>1 DEF EventsAreTrue
    <3> QED
      BY <2>1 DEF EventsAreTrue
  <2>3. AnnouncedRunsAreRegistered'
    <3> SUFFICES ASSUME NEW j \in Ids, j \notin missed', said'[j] # "nothing", rows'[j] = NoRow
                 PROVE  \E k \in DOMAIN stream' : stream'[k] = [id |-> j, type |-> "execution_started"]
      BY DEF AnnouncedRunsAreRegistered
    <3>1. rows[j] = NoRow /\ j \notin missed /\ said[j] # "nothing"
      BY <1>1 DEF Stable
    <3>2. PICK k \in 1..Len(stream) : stream[k] = [id |-> j, type |-> "execution_started"]
      BY <1>4, <3>1 DEF AnnouncedRunsAreRegistered
    <3>3. k # 1
      <4>1. \/ UNCHANGED stream
            \/ Head(stream).type = "execution_started" =>
                   rows[Head(stream).id] # NoRow \/ Head(stream).id \in missed
        BY <3>1, SubHolds
      <4>2. ~ UNCHANGED stream
        BY <1>4, <2>1
      <4> QED
        BY <2>1, <3>1, <3>2, <4>1, <4>2
    <3> QED
      BY <1>4, <2>1, <3>2, <3>3
  <2> QED
    BY <2>2, <2>3, <1>2, <1>3, <1>b, <1>c, SubHolds
<1> QED
  BY <1>5, <1>6, SubHolds

(* The requests' steps write rows, runs and cancellations; none publishes, *)
(* acknowledges or tells anybody.                                          *)
LEMMA ContinueShape ==
    ASSUME IInv, NEW c \in Clients, Continue(c)
    PROVE  /\ UNCHANGED <<said, verdict, stream, sub, told, faults, missed>>
           /\ Stable /\ RunsFollowVerdicts'
           /\ \A i \in Ids : rows'[i] # NoRow => run'[i] # "absent"
           /\ \A i \in Ids :
                /\ rows'[i].status = "success" => rows[i].status = "success" \/ run[i] = "completed"
                /\ rows'[i].status = "failed" => rows[i].status = "failed" \/ run[i] = "failed"
           /\ RequestsAreBacked'
<1> USE RequestShape, GotoRequest DEF IInv, temporal, worker, faultVars, Stable
<1>0. NoRequest.at = "idle"
  BY DEF NoRequest
<1>1. CASE StartRun(c)
  <2>1. /\ UNCHANGED <<said, verdict, stream, rows, sub, told, faults, missed>>
        /\ req[c].at = "start" /\ req[c].id \in Ids
        /\ \A i \in Ids : run'[i] = IF i = req[c].id /\ run[i] = "absent" THEN "open" ELSE run[i]
    BY <1>1 DEF StartRun, OpenRun, TypeOK
  <2>2. \A d \in Clients : d # c => req'[d] = req[d]
    BY <1>1 DEF StartRun
  <2>3. req'[c].at = "insert" /\ req'[c].id = req[c].id
    BY <1>1, <2>1 DEF StartRun
  <2>4. Stable
    BY <2>1 DEF Closed
  <2>5. RunsFollowVerdicts'
    BY <2>1 DEF RunsFollowVerdicts
  <2>6. RequestsAreBacked'
    <3>1. \A d \in Clients : d # c /\ req[d].at # "idle" => req[d].id \in Ids
      OBVIOUS
    <3> QED
      BY <2>1, <2>2, <2>3, <2>4, <3>1 DEF RequestsAreBacked
  <2> QED
    BY <2>1, <2>4, <2>5, <2>6 DEF RowHasRun
<1>2. CASE InsertRow(c)
  <2>1. /\ UNCHANGED <<run, said, verdict, stream, sub, told, faults, missed>>
        /\ req[c].at = "insert" /\ req[c].id \in Ids /\ run[req[c].id] # "absent"
    BY <1>2 DEF InsertRow, RequestsAreBacked
  <2>2. \A d \in Clients : d # c => req'[d] = req[d]
    BY <1>2 DEF InsertRow
  <2>3. req'[c].at = "idle" \/ (req'[c].at = "conflict" /\ req'[c].id = req[c].id)
    BY <1>2, <1>0 DEF InsertRow
  <2>4. \/ rows' = rows
        \/ /\ \A j \in Ids : rows'[j].status = IF j = req[c].id THEN "running" ELSE rows[j].status
           /\ \A j \in Ids : rows'[j] # NoRow <=> rows[j] # NoRow \/ j = req[c].id
    BY <1>2, <2>1, RowInserted DEF InsertRow
  <2>5. Stable /\ RunsFollowVerdicts'
    BY <2>1, <2>4 DEF RunsFollowVerdicts
  <2>6. RequestsAreBacked'
    BY <2>1, <2>2, <2>3, <2>5 DEF RequestsAreBacked
  <2> QED
    BY <2>1, <2>4, <2>5, <2>6 DEF RowHasRun
<1>3. CASE ReportConflict(c) \/ CancelRun(c) \/ DescribeRun(c)
  <2>1. UNCHANGED <<run, said, verdict, stream, rows, sub, told, faults, missed>>
    BY <1>3 DEF ReportConflict, CancelRun, DescribeRun
  <2>2. \A d \in Clients : d # c => req'[d] = req[d]
    BY <1>3 DEF ReportConflict, CancelRun, DescribeRun
  <2>3. \/ req'[c].at = "idle"
        \/ req[c].at = "cancel" /\ req'[c].at = "mark" /\ req'[c].id = req[c].id
        \/ /\ req[c].at = "describe" /\ req'[c].at = "heal" /\ req'[c].id = req[c].id
           /\ run[req[c].id] \in Closed /\ req'[c].status = ProjectionOf(run[req[c].id])
    BY <1>3, <1>0 DEF ReportConflict, CancelRun, DescribeRun
  <2>4. Stable /\ RunsFollowVerdicts'
    BY <2>1 DEF RunsFollowVerdicts
  <2>5. RequestsAreBacked'
    BY <2>1, <2>2, <2>3 DEF RequestsAreBacked
  <2> QED
    BY <2>1, <2>4, <2>5 DEF RowHasRun
<1>4. ASSUME NEW status \in Terminal, SetStatus(req[c].id, status), Goto(c, NoRequest),
             req[c].at \in {"mark", "heal"},
             status = "success" => run[req[c].id] = "completed",
             status = "failed" => run[req[c].id] = "failed",
             UNCHANGED <<run, said, verdict, stream, sub, told, faults, missed>>
      PROVE  /\ Stable /\ RunsFollowVerdicts' /\ RequestsAreBacked'
             /\ \A i \in Ids : rows'[i] # NoRow => run[i] # "absent"
             /\ \A i \in Ids :
                  /\ rows'[i].status = "success" => rows[i].status = "success" \/ run[i] = "completed"
                  /\ rows'[i].status = "failed" => rows[i].status = "failed" \/ run[i] = "failed"
  <2>1. req[c].id \in Ids /\ rows[req[c].id] # NoRow
    BY <1>4 DEF RequestsAreBacked
  <2>2. /\ \A j \in Ids : rows'[j].status = IF j = req[c].id THEN status ELSE rows[j].status
        /\ \A j \in Ids : rows'[j] # NoRow <=> rows[j] # NoRow
    BY <1>4, <2>1, StatusStored
  <2>3. \A d \in Clients : req'[d] = IF d = c THEN NoRequest ELSE req[d]
    BY <1>4
  <2>4. Stable /\ RunsFollowVerdicts'
    BY <1>4, <2>2 DEF RunsFollowVerdicts
  <2>5. RequestsAreBacked'
    BY <1>0, <1>4, <2>2, <2>3 DEF RequestsAreBacked
  <2> QED
    BY <1>4, <2>2, <2>4, <2>5 DEF RowHasRun
<1>5. CASE MarkCancelled(c)
  <2>1. /\ UNCHANGED <<run, said, verdict, stream, sub, told, faults, missed>>
        /\ SetStatus(req[c].id, "cancelled") /\ Goto(c, NoRequest) /\ req[c].at = "mark"
    BY <1>5 DEF MarkCancelled
  <2>2. "cancelled" \in Terminal
    BY DEF Terminal
  <2> QED
    BY <1>4, <2>1, <2>2
<1>6. CASE HealRow(c)
  <2>1. /\ UNCHANGED <<run, said, verdict, stream, sub, told, faults, missed>>
        /\ SetStatus(req[c].id, req[c].status) /\ Goto(c, NoRequest) /\ req[c].at = "heal"
    BY <1>6 DEF HealRow
  <2>2. /\ req[c].status \in Terminal
        /\ req[c].status = "success" => run[req[c].id] = "completed"
        /\ req[c].status = "failed" => run[req[c].id] = "failed"
    BY <2>1 DEF RequestsAreBacked, ProjectionOf, Closed
  <2> QED
    BY <1>4, <2>1, <2>2
<1> QED
  BY <1>1, <1>2, <1>3, <1>5, <1>6 DEF Continue

LEMMA ContinueKeeps ==
    ASSUME IInv, NEW c \in Clients, Continue(c)
    PROVE  IInv'
<1> USE DEF IInv
<1>1. /\ UNCHANGED <<said, verdict, stream, sub, told, faults, missed>>
      /\ Stable /\ RunsFollowVerdicts' /\ RequestsAreBacked' /\ RowHasRun'
  BY ContinueShape DEF RowHasRun
<1>2. \A k \in 1..Len(stream) : stream[k].id \in Ids
  <2>1. stream \in Seq(Event) /\ \A e \in Event : e.id \in Ids
    BY DEF TypeOK, Event
  <2> QED
    BY <2>1
<1>3. TypeOK'
  BY ContinueTypes
<1>4. EventsAreTrue'
  BY <1>1, <1>2 DEF EventsAreTrue, Stable
<1>5. SubscriberHoldsEvent'
  BY <1>1, HeadEvent DEF SubscriberHoldsEvent, Stable
<1>6. StoredOutcomeWasReached'
  BY <1>1, ContinueShape DEF StoredOutcomeWasReached, RunsFollowVerdicts
<1>7. AnnouncedRunsAreRegistered'
  BY <1>1 DEF AnnouncedRunsAreRegistered, Stable
<1> QED
  BY <1>1, <1>3, <1>4, <1>5, <1>6, <1>7

(* A new request: it saw what it relies on. *)
LEMMA BeginKeeps ==
    ASSUME IInv, NEW c \in Clients, NEW o \in Ids, NEW i \in Ids,
           BeginLaunch(c, i) \/ BeginCancel(c, i) \/ BeginReconcile(c, i) \/ BeginReplay(c, o, i)
    PROVE  IInv'
<1> USE DEF IInv
<1>1. UNCHANGED <<run, said, verdict, stream, rows, sub, told, faults, missed>>
  BY DEF BeginLaunch, BeginCancel, BeginReconcile, BeginReplay, temporal, worker, faultVars
<1>2. /\ \A d \in Clients : d # c => req'[d] = req[d]
      /\ \/ req'[c].at = "start"
         \/ req'[c].at \in {"cancel", "describe"} /\ req'[c].id = i /\ rows[i] # NoRow
  BY GotoRequest DEF BeginLaunch, BeginCancel, BeginReconcile, BeginReplay, NoRow
<1>3. RequestsAreBacked'
  BY <1>1, <1>2 DEF RequestsAreBacked
<1>4. TypeOK'
  BY BeginTypes
<1>5. RunsFollowVerdicts' /\ EventsAreTrue' /\ SubscriberHoldsEvent'
  BY <1>1 DEF RunsFollowVerdicts, EventsAreTrue, SubscriberHoldsEvent
<1>6. RowHasRun' /\ StoredOutcomeWasReached' /\ AnnouncedRunsAreRegistered'
  BY <1>1 DEF RowHasRun, StoredOutcomeWasReached, AnnouncedRunsAreRegistered
<1> QED
  BY <1>3, <1>4, <1>5, <1>6

-----------------------------------------------------------------------------

LEMMA InitInv == Init => IInv
<1> SUFFICES ASSUME Init PROVE IInv
  OBVIOUS
<1>1. TypeOK
  BY InitTypes
<1>2. RunsFollowVerdicts /\ EventsAreTrue /\ SubscriberHoldsEvent /\ RequestsAreBacked
  BY DEF Init, RunsFollowVerdicts, EventsAreTrue, SubscriberHoldsEvent, RequestsAreBacked,
     SubIdle, NoRequest
<1>3. RowHasRun /\ StoredOutcomeWasReached /\ AnnouncedRunsAreRegistered
  BY DEF Init, RowHasRun, StoredOutcomeWasReached, AnnouncedRunsAreRegistered, NoRow
<1> QED
  BY <1>1, <1>2, <1>3 DEF IInv

LEMMA StepInvariant == IInv /\ [Next]_vars => IInv'
<1> SUFFICES ASSUME IInv, [Next]_vars PROVE IInv'
  OBVIOUS
<1>1. CASE UNCHANGED vars
  BY <1>1 DEF vars, IInv, TypeOK, RunsFollowVerdicts, EventsAreTrue, SubscriberHoldsEvent,
     RequestsAreBacked, RowHasRun, StoredOutcomeWasReached, AnnouncedRunsAreRegistered
<1>2. ASSUME NEW i \in Ids, CronFires(i) \/ WorkerStep(i) \/ WorkerCrashes(i) \/ CloseRun(i)
      PROVE  IInv'
  BY <1>2, WorkerKeeps
<1>3. CASE SubStep \/ SubStoreFails \/ ApiRestarts
  BY <1>3, SubKeeps
<1>4. ASSUME NEW c \in Clients, Continue(c) PROVE IInv'
  BY <1>4, ContinueKeeps
<1>5. ASSUME NEW c \in Clients, NEW i \in Ids,
             LaunchAgain(c, i) \/ BeginLaunch(c, i)
             \/ LeaveSettled(c, i) \/ BeginCancel(c, i) \/ BeginReconcile(c, i)
      PROVE  IInv'
  BY <1>1, <1>5, BeginKeeps DEF LaunchAgain, LeaveSettled
<1>6. ASSUME NEW c \in Clients, NEW o \in Ids, NEW i \in Ids, BeginReplay(c, o, i) PROVE IInv'
  BY <1>6, BeginKeeps
<1> QED
  BY <1>1, <1>2, <1>3, <1>4, <1>5, <1>6 DEF Next

LEMMA Invariant == Spec => []IInv
BY InitInv, StepInvariant, PTL DEF Spec

-----------------------------------------------------------------------------

(* Requests, subscriber, worker and Temporal keep every variable in its    *)
(* type; above all, no step changes the status of a row that is not there, *)
(* however long ago the row was read.                                      *)
THEOREM TypeCorrect == Spec => []TypeOK
<1>1. IInv => TypeOK
  BY DEF IInv
<1> QED
  BY <1>1, Invariant, PTL

(* The double write of launch and replay (start the run, then insert and   *)
(* commit the row), the subscriber's auto-registration and any crash       *)
(* between them never leave an execution that Temporal does not know.      *)
THEOREM RowsHaveRuns == Spec => []RowHasRun
<1>1. IInv => RowHasRun
  BY DEF IInv
<1> QED
  BY <1>1, Invariant, PTL

(* No stale event, redelivery, cancellation or reconciliation stores, or   *)
(* tells a webhook, success or failure of a run that did not reach it.     *)
THEOREM OutcomesAreTrue == Spec => []StoredOutcomeWasReached
<1>1. IInv => StoredOutcomeWasReached
  BY DEF IInv
<1> QED
  BY <1>1, Invariant, PTL

(* A run that announced itself has a row, or its announcement is still in  *)
(* the stream or was lost, whichever of the request and the subscriber     *)
(* comes first, and whatever crashes come between.                         *)
THEOREM NoRunIsForgotten == Spec => []AnnouncedRunsAreRegistered
<1>1. IInv => AnnouncedRunsAreRegistered
  BY DEF IInv
<1> QED
  BY <1>1, Invariant, PTL
=============================================================================
