------------------------------ MODULE LiveView ------------------------------
(***************************************************************************)
(* The live page of an execution (ExecutionDetail.tsx) and the part of the *)
(* API that feeds it: the subscriber stores an event and broadcasts it to  *)
(* the WebSockets registered for its execution; the page asks for the      *)
(* execution and for its stored events, opens a WebSocket, and puts the    *)
(* three together as they come.  The subscriber takes the next event of an *)
(* execution once it is in the stream, which is any time here.             *)
(*                                                                         *)
(* One API process and one browser tab.  A visit is one run of the page's  *)
(* effect: the tab opens an execution afresh, or goes to another one in    *)
(* the same component (Replay), whose state is then kept.                  *)
(***************************************************************************)
EXTENDS Naturals, Sequences, FiniteSets

CONSTANTS
    Runs,           \* executions
    Script,         \* Script[e]: the types of the events of e, in order
    MaxVisits,      \* bound on visits
    MaxFaults       \* bound on restarts, broken sockets, failed calls, cancellations

Types == {"execution_started", "job", "execution_finished", "execution_failed"}
ASSUME ScriptAssumption == IsFiniteSet(Runs) /\ \A e \in Runs : Script[e] \in Seq(Types)
ASSUME BoundsAssumption == MaxVisits \in Nat /\ MaxFaults \in Nat

VARIABLES
    acked,      \* Redis: how many events of each run are acknowledged
    stored,     \* Postgres: execution_events of each run, by id
    status,     \* Postgres: the status of each execution
    settled,    \* executions whose status a request has set (history)
    handler,    \* the subscriber: what it broadcasts, and to whom still
    registry,   \* ConnectionManager: the visits whose WebSockets it holds
    visits,     \* the visits so far; the last one is current
    page,       \* what the tab shows
    faults

database == <<stored, status, settled>>
vars == <<acked, stored, status, settled, handler, registry, visits,
          page, faults>>

Visits  == 1..MaxVisits
Current == Len(visits)
Numbers == UNION {DOMAIN Script[e] : e \in Runs}
Rows    == 1..(Cardinality(Numbers) + MaxFaults)      \* ids in execution_events
Statuses == {"pending", "running", "success", "failed", "cancelled"}

(* A row of a run, on the page or on its way, and the visit whose socket   *)
(* brought it (0: the stored events).                                      *)
Item == [run: Runs, row: Rows \cup {0}, type: Types, by: 0..MaxVisits]
Message == [row: Rows \cup {0}, type: Types]

(* exec, events: the two requests; answers are what they will show.        *)
Visit == [run: Runs,
          sock: {"connecting", "open", "closed"},
          wire: Seq(Message),
          exec: {"sent", "answered", "done", "failed"}, answer: Statuses,
          events: {"sent", "answered", "done", "failed"}, snapshot: Rows \cup {0},
          raced: BOOLEAN]

Idle == [at |-> "idle"]

TypeOK ==
    /\ acked \in [Runs -> Nat] /\ \A e \in Runs : acked[e] <= Len(Script[e])
    /\ stored \in [Runs -> Seq(Types)] /\ \A e \in Runs : DOMAIN stored[e] \subseteq Rows
    /\ status \in [Runs -> Statuses] /\ settled \subseteq Runs
    /\ handler \in {Idle} \cup [at: {"stored", "sending"}, run: Runs, to: SUBSET Visits]
    /\ registry \subseteq DOMAIN visits
    /\ visits \in Seq(Visit) /\ Len(visits) <= MaxVisits
    /\ page \in [items: Seq(Item), status: Statuses]
    /\ faults \in 0..MaxFaults

Init ==
    /\ acked = [e \in Runs |-> 0]
    /\ stored = [e \in Runs |-> <<>>]
    /\ status = [e \in Runs |-> "running"] /\ settled = {}
    /\ handler = Idle /\ registry = {}
    /\ visits = <<>> /\ page = [items |-> <<>>, status |-> "pending"]
    /\ faults = 0

(* A socket that is closed, on either side, brings nothing more; and a     *)
(* request that is dropped is never answered.                              *)
Closed(visit)  == [visit EXCEPT !.sock = "closed", !.wire = <<>>]
FailExec(visit)   == [visit EXCEPT !.exec = "failed", !.answer = "pending"]
FailEvents(visit) == [visit EXCEPT !.events = "failed", !.snapshot = 0]
Dropped(visit) == Closed(FailEvents(FailExec(visit)))

Fault == faults < MaxFaults /\ faults' = faults + 1

-----------------------------------------------------------------------------
(* cancel_execution; no event tells of it.  (reconcile_status settles a    *)
(* row in the same way.)                                                   *)
Settle(e) ==
    /\ status[e] = "running"
    /\ Fault
    /\ status' = [status EXCEPT ![e] = "cancelled"]
    /\ settled' = settled \cup {e}
    /\ UNCHANGED <<acked, stored, handler, registry, visits, page>>

-----------------------------------------------------------------------------
(* The subscriber: _handle_message, ConnectionManager                      *)

InStream(e)  == acked[e] < Len(Script[e])
EventType(e) == Script[e][acked[e] + 1]
Acknowledge(e) == acked' = [acked EXCEPT ![e] = @ + 1]

(* What an event makes of the status of a row, and of the one on the page. *)
Shown(type, old) ==
    CASE type = "execution_started"  -> "running"
      [] type = "execution_finished" -> "success"
      [] type = "execution_failed"   -> "failed"
      [] OTHER -> old

(* The status left at the event's own name: *)
handle_event_raw(type, old) == IF old = "cancelled" THEN old ELSE type

handle_event(type, old) == IF old = "cancelled" /\ type # "execution_started" THEN old
                           ELSE Shown(type, old)

(* Forgetting all sockets of an execution with the first one that goes:    *)
disconnect_all(v) ==
    registry' = {w \in registry : visits[w].run # visits[v].run}

disconnect(v) == registry' = registry \ {v}

_persist_event(e) ==
    /\ handler = Idle /\ InStream(e)
    /\ stored' = [stored EXCEPT ![e] = Append(@, EventType(e))]
    /\ status' = [status EXCEPT ![e] = handle_event(EventType(e), @)]
    /\ handler' = [at |-> "stored", run |-> e, to |-> {}]
    /\ UNCHANGED <<acked, settled, registry, visits, page, faults>>

(* A failed transaction that is broadcast all the same: *)
PersistFailsUnnoticed(e) ==
    /\ handler = Idle /\ InStream(e)
    /\ Fault
    /\ handler' = [at |-> "stored", run |-> e, to |-> {}]
    /\ UNCHANGED <<acked, database, registry, visits, page>>

(* The exception is swallowed, and the event acknowledged.                 *)
PersistFails(e) ==
    /\ handler = Idle /\ InStream(e)
    /\ Fault
    /\ Acknowledge(e)
    /\ UNCHANGED <<database, handler, registry, visits, page>>

(* broadcast copies the sockets of the execution ...                       *)
Broadcast ==
    /\ handler.at = "stored"
    /\ handler' = [handler EXCEPT !.at = "sending",
                                  !.to = {v \in registry : visits[v].run = handler.run}]
    /\ UNCHANGED <<acked, database, registry, visits, page, faults>>

(* ... and sends to one after the other: a closed socket may swallow the   *)
(* message or raise, and is dropped.                                       *)
Send(v) ==
    LET e == handler.run IN
    /\ handler.at = "sending" /\ v \in handler.to
    /\ handler' = [handler EXCEPT !.to = @ \ {v}]
    /\ IF visits[v].sock = "closed"
       THEN UNCHANGED visits /\ (UNCHANGED registry \/ disconnect(v))
       ELSE /\ visits' = [visits EXCEPT ![v] = [visits[v] EXCEPT !.wire =
                            Append(@, [row |-> Len(stored[e]), type |-> EventType(e)])]]
            /\ UNCHANGED registry
    /\ UNCHANGED <<acked, database, page, faults>>

Ack ==
    /\ handler.at = "sending" /\ handler.to = {}
    /\ handler' = Idle
    /\ Acknowledge(handler.run)
    /\ UNCHANGED <<database, registry, visits, page, faults>>

(* The acknowledgement raises: the subscriber connects to Redis again, and *)
(* is given the event once more while the sockets stay open.               *)
Reconnect ==
    /\ handler.at = "sending" /\ handler.to = {}
    /\ Fault
    /\ handler' = Idle
    /\ UNCHANGED <<acked, database, registry, visits, page>>

(* The process stops: its sockets close, its requests fail, and the event  *)
(* in hand is delivered again.                                             *)
Restart ==
    /\ Fault
    /\ handler' = Idle /\ registry' = {}
    /\ visits' = [v \in DOMAIN visits |-> Dropped(visits[v])]
    /\ UNCHANGED <<acked, database, page>>

(* stream_execution: accept, register, and wait until the client is gone.  *)
Connect(v) ==
    /\ visits[v].sock = "connecting"
    /\ visits' = [visits EXCEPT ![v] = [@ EXCEPT !.sock = "open"]]
    /\ registry' = registry \cup {v}
    /\ UNCHANGED <<acked, database, handler, page, faults>>

NoticeClosed(v) ==
    /\ v \in registry /\ visits[v].sock = "closed"
    /\ disconnect(v)
    /\ UNCHANGED <<acked, database, handler, visits, page, faults>>

-----------------------------------------------------------------------------
(* The page                                                                *)

NewVisit(e) ==
    [run |-> e, sock |-> "connecting", wire |-> <<>>, exec |-> "sent", answer |-> "pending",
     events |-> "sent", snapshot |-> 0, raced |-> FALSE]

(* The tab loads the page: nothing of an earlier visit is left.            *)
Open(e) ==
    /\ Current < MaxVisits
    /\ visits' = Append([v \in DOMAIN visits |-> Dropped(visits[v])], NewVisit(e))
    /\ page' = [items |-> <<>>, status |-> "pending"]
    /\ UNCHANGED <<acked, database, handler, registry, faults>>

(* The id changes: the effect closes its socket and runs again.            *)
Navigate(e) ==
    /\ Current \in 1..(MaxVisits - 1) /\ visits[Current].run # e
    /\ visits' = Append([v \in DOMAIN visits |-> [Closed(visits[v]) EXCEPT !.raced = FALSE]], NewVisit(e))
    /\ UNCHANGED <<acked, database, handler, registry, page, faults>>

(* GET /executions/{id} and GET /executions/{id}/events.                   *)
ReadExecution(v) ==
    /\ visits[v].exec = "sent"
    /\ visits' = [visits EXCEPT ![v] =
                    [visits[v] EXCEPT !.exec = "answered", !.answer = status[visits[v].run],
                                      !.raced = @ \/ v \notin registry]]
    /\ UNCHANGED <<acked, database, handler, registry, page, faults>>

ReadEvents(v) ==
    /\ visits[v].events = "sent"
    /\ visits' = [visits EXCEPT ![v] =
                    [visits[v] EXCEPT !.events = "answered", !.snapshot = Len(stored[visits[v].run]),
                                      !.raced = @ \/ v \notin registry]]
    /\ UNCHANGED <<acked, database, handler, registry, page, faults>>

RequestFails(v) ==
    /\ Fault
    /\ \/ visits[v].exec \in {"sent", "answered"} /\ visits' = [visits EXCEPT ![v] = FailExec(@)]
       \/ visits[v].events \in {"sent", "answered"} /\ visits' = [visits EXCEPT ![v] = FailEvents(@)]
    /\ UNCHANGED <<acked, database, handler, registry, page>>

(* Live events of the current visit that are shown already: an answer that *)
(* comes now overtakes them.                                               *)
Overtakes == \E k \in DOMAIN page.items : page.items[k].by = Current

Race(v, one) ==
    LET next == [visits EXCEPT ![v] = one] IN
    [next EXCEPT ![Current] =
        [next[Current] EXCEPT !.raced = @ \/ Overtakes \/ v # Current]]

(* setExec, setStatus; setEvents: in place of what is shown.               *)
AnswerExecution(v) ==
    /\ visits[v].exec = "answered"
    /\ visits' = Race(v, [visits[v] EXCEPT !.exec = "done", !.answer = "pending"])
    /\ page' = [page EXCEPT !.status = visits[v].answer]
    /\ UNCHANGED <<acked, database, handler, registry, faults>>

Snapshot(v) ==
    LET e == visits[v].run IN
    [k \in 1..visits[v].snapshot |-> [run |-> e, row |-> k, type |-> stored[e][k], by |-> 0]]

AnswerEvents(v) ==
    /\ visits[v].events = "answered"
    /\ visits' = Race(v, [visits[v] EXCEPT !.events = "done", !.snapshot = 0])
    /\ page' = [page EXCEPT !.items = Snapshot(v)]
    /\ UNCHANGED <<acked, database, handler, registry, faults>>

(* onmessage *)
Receive ==
    /\ visits # <<>> /\ visits[Current].wire # <<>>
    /\ LET m == Head(visits[Current].wire) IN
       page' = [items |-> Append(page.items, [run |-> visits[Current].run, row |-> m.row,
                                              type |-> m.type, by |-> Current]),
                status |-> Shown(m.type, page.status)]
    /\ visits' = [visits EXCEPT ![Current] = [visits[Current] EXCEPT !.wire = Tail(@)]]
    /\ UNCHANGED <<acked, database, handler, registry, faults>>

(* The connection breaks; the page does not connect again.                 *)
SocketBreaks(v) ==
    /\ visits[v].sock # "closed"
    /\ Fault
    /\ visits' = [visits EXCEPT ![v] = Closed(@)]
    /\ UNCHANGED <<acked, database, handler, registry, page>>

-----------------------------------------------------------------------------
Subscriber ==
    \/ \E e \in Runs : _persist_event(e) \/ PersistFails(e)
    \/ Broadcast \/ Ack \/ Reconnect \/ Restart
    \/ \E v \in DOMAIN visits : Send(v)

Socket(v)  == Connect(v) \/ NoticeClosed(v) \/ SocketBreaks(v)
Request(v) == ReadExecution(v) \/ ReadEvents(v) \/ RequestFails(v)
Effect(v)  == AnswerExecution(v) \/ AnswerEvents(v)

Next ==
    \/ \E e \in Runs : Settle(e) \/ Open(e) \/ Navigate(e)
    \/ Subscriber \/ Receive
    \/ \E v \in DOMAIN visits : Socket(v) \/ Request(v) \/ Effect(v)

Spec == Init /\ [][Next]_vars

-----------------------------------------------------------------------------
(* Every item on the page, and every message on its way to it, is a row    *)
(* that was committed, of the type shown; and the live ones come in the    *)
(* order of their ids, each at most once: nobody sees an event that a      *)
(* rollback or a restart could take back, or is sent two events the wrong  *)
(* way round (_handle_message: persist, then broadcast, one at a time).    *)
(* Only live items are ordered: what a stored answer brought may be        *)
(* followed by live items that it holds already.                           *)
ShownRowsAreStored ==
    LET IsRow(e, x) == x.row \in DOMAIN stored[e] /\ stored[e][x.row] = x.type
        Live(k) == page.items[k].by = Current
        wire == visits[Current].wire
    IN  /\ \A k \in DOMAIN page.items : IsRow(page.items[k].run, page.items[k])
        /\ \A v \in DOMAIN visits : \A k \in DOMAIN visits[v].wire :
               IsRow(visits[v].run, visits[v].wire[k])
        /\ \A i, k \in DOMAIN page.items :
               Live(i) /\ Live(k) /\ i < k => page.items[i].row < page.items[k].row
        /\ visits # <<>> =>
               /\ \A i, k \in DOMAIN wire : i < k => wire[i].row < wire[k].row
               /\ \A i \in DOMAIN page.items, k \in DOMAIN wire :
                      Live(i) => page.items[i].row < wire[k].row

(* The page is complete when everything has come to rest, unless one of    *)
(* its requests was answered before the socket was registered, or came     *)
(* after a live event, or the socket broke: it shows all the stored events *)
(* of its execution and of no other, and its status (ExecutionDetail.tsx,  *)
(* ConnectionManager.disconnect, _handle_message).                         *)
AtRest(visit) ==
    /\ handler = Idle /\ visit.sock = "open" /\ visit.wire = <<>>
    /\ visit.exec = "done" /\ visit.events = "done"

QuietPageIsComplete ==
    \A v \in DOMAIN visits :
        (v = Current /\ AtRest(visits[v]) /\ ~ visits[v].raced) =>
            LET e == visits[v].run
                shown == {page.items[k].row : k \in DOMAIN page.items}
            IN  /\ shown = DOMAIN stored[e]
                /\ \A k \in DOMAIN page.items : page.items[k].run = e
                /\ e \notin settled => page.status = status[e]

-----------------------------------------------------------------------------
(* What the documentation says and the code does not do *)

(* "Live monitor ... Status plus a live badge (WebSocket) while the run is *)
(* in progress ... Event stream: the lifecycle event timeline" (user       *)
(* guide): once the run is over, a page that is still connected shows it.  *)
ConnectedPageIsComplete ==
    \A v \in DOMAIN visits :
        (v = Current /\ AtRest(visits[v])) =>
            DOMAIN stored[visits[v].run] = {page.items[k].row : k \in DOMAIN page.items}
=============================================================================
