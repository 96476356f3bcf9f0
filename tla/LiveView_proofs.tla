-------------------------- MODULE LiveView_proofs --------------------------
(***************************************************************************)
(* Theorems about LiveView: nothing is shown that is not stored, in order; *)
(* and a page at rest whose answers raced with nothing is complete.        *)
(***************************************************************************)
EXTENDS LiveView, FiniteSetTheorems, TLAPS

-----------------------------------------------------------------------------
(* The inductive invariant                                                 *)

Last(e) == Len(stored[e])

(* An event is stored once for its acknowledgement or for a fault, and     *)
(* once more while it is in the subscriber's hands.                        *)
RowsAreBounded ==
    \A e \in Runs :
        Last(e) <= acked[e] + faults + (IF handler # Idle /\ handler.run = e THEN 1 ELSE 0)

(* The subscriber broadcasts the last row of its run, which is the next    *)
(* event of the stream, to visits of that run that have had a socket.      *)
HandlerIsTrue ==
    handler # Idle =>
        /\ InStream(handler.run)
        /\ stored[handler.run] # <<>>
        /\ stored[handler.run][Last(handler.run)] = EventType(handler.run)
        /\ \A v \in handler.to :
               /\ v \in DOMAIN visits /\ visits[v].run = handler.run
               /\ visits[v].sock # "connecting"

RegistryIsOpen ==
    \A v \in DOMAIN visits :
        /\ v \in registry => visits[v].sock # "connecting"
        /\ visits[v].sock = "open" => v \in registry
        /\ visits[v].sock # "open" => visits[v].wire = <<>>

(* What was read is of rows that are stored.                               *)
ReadsAreBounded ==
    \A v \in DOMAIN visits : visits[v].snapshot <= Last(visits[v].run)

(* ShownRowsAreStored in parts, for the sockets of all visits.             *)
IsRow(e, x) == x.row \in DOMAIN stored[e] /\ stored[e][x.row] = x.type
Live(k) == page.items[k].by = Current

ItemsAreRows == \A k \in DOMAIN page.items : IsRow(page.items[k].run, page.items[k])
WiresAreRows ==
    \A v \in DOMAIN visits : \A k \in DOMAIN visits[v].wire :
        IsRow(visits[v].run, visits[v].wire[k])
ItemsRise ==
    \A i, k \in DOMAIN page.items :
        Live(i) /\ Live(k) /\ i < k => page.items[i].row < page.items[k].row
WiresRise ==
    \A v \in DOMAIN visits : \A i, k \in DOMAIN visits[v].wire :
        i < k => visits[v].wire[i].row < visits[v].wire[k].row
ItemsBeforeWire ==
    \A v \in DOMAIN visits : v = Current =>
        \A i \in DOMAIN page.items, k \in DOMAIN visits[v].wire :
            Live(i) => page.items[i].row < visits[v].wire[k].row

(* The live items are of the current visit.                                *)
ItemsAreOfVisits ==
    /\ visits = <<>> => page.items = <<>>
    /\ \A k \in DOMAIN page.items :
           /\ page.items[k].by <= Current
           /\ Live(k) => page.items[k].run = visits[Current].run

(* The row in the subscriber's hands is still to be sent to v.             *)
Due(v) ==
    /\ handler # Idle /\ visits[v].run = handler.run
    /\ handler.at = "stored" \/ v \in handler.to

(* It is newer than all that was sent before.                              *)
FreshRowIsNew ==
    \A v \in DOMAIN visits : Due(v) =>
        /\ \A k \in DOMAIN visits[v].wire : visits[v].wire[k].row < Last(visits[v].run)
        /\ v = Current => \A k \in DOMAIN page.items :
               Live(k) => page.items[k].row < Last(visits[v].run)

OnTheWay(v, row) ==
    \/ \E k \in DOMAIN visits[v].wire : visits[v].wire[k].row = row
    \/ Due(v) /\ row = Last(visits[v].run)

(* After a message on the way come all the later rows.                     *)
NoGaps ==
    \A v \in DOMAIN visits : \A k \in DOMAIN visits[v].wire :
        \A row \in visits[v].wire[k].row..Last(visits[v].run) : OnTheWay(v, row)

(* An answer that was read before the socket was there makes a race.       *)
UnracedWaits ==
    \A v \in DOMAIN visits :
        visits[v].sock = "connecting" /\ ~ visits[v].raced /\ v = Current =>
            visits[v].exec \in {"sent", "failed"} /\ visits[v].events \in {"sent", "failed"}

Follows(v) == v = Current /\ visits[v].sock = "open" /\ ~ visits[v].raced

(* Each stored row is in the answer, shown, or on its way.                 *)
RowsAreAccounted ==
    \A v \in DOMAIN visits : Follows(v) =>
        /\ visits[v].events = "answered" /\ ~ Overtakes =>
               \A row \in 1..Last(visits[v].run) :
                   row <= visits[v].snapshot \/ OnTheWay(v, row)
        /\ visits[v].events = "done" =>
               /\ \A k \in DOMAIN page.items : page.items[k].run = visits[v].run
               /\ \A row \in 1..Last(visits[v].run) :
                      \/ \E k \in DOMAIN page.items : page.items[k].row = row
                      \/ OnTheWay(v, row)

(* The status of a run that no request has settled is what the last of its *)
(* own events says.                                                        *)
IsLastOwn(e, k) ==
    /\ stored[e][k] # "job"
    /\ \A i \in DOMAIN stored[e] : k < i => stored[e][i] = "job"

StatusIsLast ==
    \A e \in Runs \ settled :
        /\ status[e] # "cancelled"
        /\ \A k \in DOMAIN stored[e] :
               IsLastOwn(e, k) => status[e] = Shown(stored[e][k], status[e])

(* An event on the way will change the status shown.                       *)
StatusIsDue(v) ==
    \/ \E k \in DOMAIN visits[v].wire : visits[v].wire[k].type # "job"
    \/ Due(v) /\ EventType(visits[v].run) # "job"

StatusFollows ==
    \A v \in DOMAIN visits : Follows(v) /\ visits[v].run \notin settled /\ ~ StatusIsDue(v) =>
        /\ visits[v].exec = "answered" /\ ~ Overtakes => visits[v].answer = status[visits[v].run]
        /\ visits[v].exec = "done" => page.status = status[visits[v].run]

IInv ==
    /\ TypeOK
    /\ RowsAreBounded
    /\ HandlerIsTrue
    /\ RegistryIsOpen
    /\ ReadsAreBounded
    /\ ItemsAreOfVisits
    /\ ItemsAreRows
    /\ WiresAreRows
    /\ ItemsRise
    /\ WiresRise
    /\ ItemsBeforeWire
    /\ FreshRowIsNew
    /\ NoGaps
    /\ UnracedWaits
    /\ RowsAreAccounted
    /\ StatusIsLast
    /\ StatusFollows

-----------------------------------------------------------------------------
(* Sizes                                                                   *)

(* Rows has a number for each event of a run and each fault.               *)
LEMMA NumbersBound ==
    /\ Cardinality(Numbers) \in Nat
    /\ \A e \in Runs : Len(Script[e]) \in Nat /\ Len(Script[e]) <= Cardinality(Numbers)
<1> DEFINE Domains == {DOMAIN Script[e] : e \in Runs}
           f == [e \in Runs |-> DOMAIN Script[e]]
<1>1. \A e \in Runs : Len(Script[e]) \in Nat /\ DOMAIN Script[e] = 1..Len(Script[e])
  BY ScriptAssumption
<1>2. IsFiniteSet(Domains)
  <2>1. f \in Surjection(Runs, Domains)
    BY DEF Surjection
  <2> QED
    BY <2>1, FS_Surjection, ScriptAssumption
<1>3. \A e \in Runs : /\ IsFiniteSet(DOMAIN Script[e])
                      /\ Cardinality(DOMAIN Script[e]) = Len(Script[e])
  <2> SUFFICES ASSUME NEW e \in Runs
               PROVE  /\ IsFiniteSet(1..Len(Script[e]))
                      /\ Cardinality(1..Len(Script[e])) = Len(Script[e])
    BY <1>1
  <2>1. Len(Script[e]) \in Nat
    BY <1>1
  <2> HIDE DEF f, Domains
  <2> QED
    BY <2>1, FS_Interval
<1>4. IsFiniteSet(Numbers)
  <2>1. \A D \in Domains : IsFiniteSet(D)
    BY <1>3
  <2>2. IsFiniteSet(UNION Domains)
    BY <1>2, <2>1, FS_UNION
  <2> QED
    BY <2>2 DEF Numbers
<1>5. ASSUME NEW e \in Runs PROVE Len(Script[e]) <= Cardinality(Numbers)
  <2>1. DOMAIN Script[e] \subseteq Numbers
    BY DEF Numbers
  <2>2. Cardinality(DOMAIN Script[e]) <= Cardinality(Numbers)
    BY <1>4, <2>1, FS_Subset
  <2> QED
    BY <2>2, <1>3
<1>6. Cardinality(Numbers) \in Nat
  BY <1>4, FS_CardinalityType
<1> QED
  BY <1>1, <1>5, <1>6

LEMMA Shapes ==
    ASSUME TypeOK
    PROVE  /\ Current \in Nat /\ Current <= MaxVisits /\ DOMAIN visits = 1..Current
           /\ \A v \in DOMAIN visits :
                  /\ visits[v] \in Visit /\ visits[v].run \in Runs
                  /\ visits[v].wire \in Seq(Message)
           /\ \A e \in Runs : stored[e] \in Seq(Types) /\ Last(e) \in Nat
           /\ page.items \in Seq(Item) /\ page.status \in Statuses
           /\ \A k \in DOMAIN page.items : page.items[k] \in Item /\ page.items[k].run \in Runs
<1>1. visits \in Seq(Visit) /\ Len(visits) <= MaxVisits
  BY DEF TypeOK
<1>2. Current \in Nat /\ Current <= MaxVisits /\ DOMAIN visits = 1..Current
  BY <1>1 DEF Current
<1>3. \A v \in DOMAIN visits : visits[v] \in Visit
  BY <1>1
<1>4. \A u \in Visit : u.run \in Runs /\ u.wire \in Seq(Message)
  BY DEF Visit
<1>5. \A e \in Runs : stored[e] \in Seq(Types) /\ Last(e) \in Nat
  BY DEF TypeOK, Last
<1>6. page.items \in Seq(Item) /\ page.status \in Statuses
  BY DEF TypeOK
<1>7. \A k \in DOMAIN page.items : page.items[k] \in Item
  BY <1>6
<1>8. \A x \in Item : x.run \in Runs
  BY DEF Item
<1> QED
  BY <1>2, <1>3, <1>4, <1>5, <1>6, <1>7, <1>8

-----------------------------------------------------------------------------
(* Steps that leave the browser and what is stored alone                   *)

DueShrinks == \A v \in DOMAIN visits : Due(v)' => Due(v)
DueStays ==
    \A v \in DOMAIN visits : Due(v) /\ visits[v].sock = "open" =>
        Due(v)' /\ EventType(visits[v].run)' = EventType(visits[v].run)

ShownInv ==
    /\ ReadsAreBounded
    /\ ItemsAreOfVisits
    /\ ItemsAreRows
    /\ WiresAreRows
    /\ ItemsRise
    /\ WiresRise
    /\ ItemsBeforeWire
    /\ FreshRowIsNew
    /\ NoGaps
    /\ UnracedWaits
    /\ RowsAreAccounted
    /\ StatusIsLast
    /\ StatusFollows

LEMMA NothingShownChanges ==
    ASSUME IInv, UNCHANGED <<database, visits, page>>, DueShrinks, DueStays
    PROVE  ShownInv'
<1> USE DEF IInv, database
<1>1. /\ ReadsAreBounded' /\ ItemsAreOfVisits' /\ ItemsAreRows' /\ WiresAreRows'
      /\ ItemsRise' /\ WiresRise' /\ ItemsBeforeWire' /\ UnracedWaits' /\ StatusIsLast'
  BY DEF ReadsAreBounded, Last, ItemsAreOfVisits, Current, Live, ItemsAreRows, IsRow,
         WiresAreRows, ItemsRise, WiresRise, ItemsBeforeWire, UnracedWaits, StatusIsLast, IsLastOwn
<1>2. FreshRowIsNew'
  BY DEF FreshRowIsNew, DueShrinks, Last, Live, Current
<1>3. \A v \in DOMAIN visits : \A row :
          visits[v].sock = "open" /\ OnTheWay(v, row) => OnTheWay(v, row)'
  BY DEF OnTheWay, DueStays, Last
<1>4. NoGaps'
  <2>1. \A v \in DOMAIN visits : visits[v].sock = "open" \/ DOMAIN visits[v].wire = {}
    BY DEF RegistryIsOpen
  <2> QED
    BY <1>3, <2>1 DEF NoGaps, Last
<1>5. RowsAreAccounted'
  BY <1>3 DEF RowsAreAccounted, Follows, Overtakes, Current, Last
<1>6. \A v \in DOMAIN visits : visits[v].sock = "open" /\ StatusIsDue(v) => StatusIsDue(v)'
  BY DEF StatusIsDue, DueStays
<1>7. StatusFollows'
  BY <1>6 DEF StatusFollows, Follows, Overtakes, Current
<1> QED
  BY <1>1, <1>2, <1>4, <1>5, <1>7 DEF ShownInv

LEMMA PersistFailsInv ==
    ASSUME IInv, NEW e \in Runs, PersistFails(e)
    PROVE  IInv'
<1> USE DEF IInv
<1>1. /\ UNCHANGED <<stored, status, settled, handler, registry, visits, page>>
      /\ handler = Idle /\ InStream(e) /\ faults < MaxFaults /\ faults' = faults + 1
      /\ acked' = [acked EXCEPT ![e] = @ + 1]
  BY DEF PersistFails, Fault, Acknowledge, database
<1>2. ShownInv'
  BY <1>1, NothingShownChanges DEF DueShrinks, DueStays, Due, database
<1>3. TypeOK'
  BY <1>1, ScriptAssumption, BoundsAssumption DEF TypeOK, InStream
<1>4. RowsAreBounded'
  BY <1>1 DEF TypeOK, RowsAreBounded, Last
<1>5. HandlerIsTrue' /\ RegistryIsOpen'
  BY <1>1 DEF HandlerIsTrue, RegistryIsOpen
<1> QED
  BY <1>2, <1>3, <1>4, <1>5 DEF ShownInv

LEMMA BroadcastInv ==
    ASSUME IInv, Broadcast
    PROVE  IInv'
<1> USE DEF IInv
<1>1. /\ UNCHANGED <<acked, stored, status, settled, registry, visits, page, faults>>
      /\ handler # Idle /\ handler.at = "stored" /\ handler.run \in Runs
      /\ handler' = [at |-> "sending", run |-> handler.run,
                     to |-> {v \in registry : visits[v].run = handler.run}]
  <2>1. handler # Idle /\ handler.at = "stored"
    BY DEF Broadcast, Idle
  <2>2. handler \in [at: {"stored", "sending"}, run: Runs, to: SUBSET Visits]
    BY <2>1 DEF TypeOK
  <2> QED
    BY <2>1, <2>2 DEF Broadcast, database
<1>2. handler' # Idle
  BY <1>1 DEF Idle
<1>3. ShownInv'
  <2>1. DueShrinks
    BY <1>1, <1>2 DEF DueShrinks, Due
  <2>2. DueStays
    BY <1>1, <1>2 DEF DueStays, Due, EventType, RegistryIsOpen
  <2> QED
    BY <1>1, <2>1, <2>2, NothingShownChanges DEF database
<1>4. TypeOK'
  <2>1. DOMAIN visits \subseteq Visits
    BY BoundsAssumption DEF TypeOK, Visits
  <2> QED
    BY <1>1, <2>1 DEF TypeOK
<1>5. RowsAreBounded'
  BY <1>1, <1>2 DEF RowsAreBounded, Last
<1>6. HandlerIsTrue'
  BY <1>1, <1>2 DEF HandlerIsTrue, InStream, EventType, Last, RegistryIsOpen, TypeOK
<1>7. RegistryIsOpen'
  BY <1>1 DEF RegistryIsOpen
<1> QED
  BY <1>3, <1>4, <1>5, <1>6, <1>7 DEF ShownInv

LEMMA AckInv ==
    ASSUME IInv, Ack
    PROVE  IInv'
<1> USE DEF IInv
<1>1. /\ UNCHANGED <<stored, status, settled, registry, visits, page, faults>>
      /\ handler # Idle /\ handler.at = "sending" /\ handler.to = {} /\ handler.run \in Runs
      /\ handler' = Idle
      /\ acked' = [acked EXCEPT ![handler.run] = @ + 1]
  <2>1. handler # Idle /\ handler.at = "sending"
    BY DEF Ack, Idle
  <2>2. handler \in [at: {"stored", "sending"}, run: Runs, to: SUBSET Visits]
    BY <2>1 DEF TypeOK
  <2> QED
    BY <2>1, <2>2 DEF Ack, database, Acknowledge
<1>2. ShownInv'
  BY <1>1, NothingShownChanges DEF DueShrinks, DueStays, Due, database
<1>3. TypeOK'
  BY <1>1, ScriptAssumption DEF TypeOK, HandlerIsTrue, InStream
<1>4. RowsAreBounded'
  BY <1>1 DEF TypeOK, RowsAreBounded, Last
<1>5. HandlerIsTrue' /\ RegistryIsOpen'
  BY <1>1 DEF HandlerIsTrue, RegistryIsOpen
<1> QED
  BY <1>2, <1>3, <1>4, <1>5 DEF ShownInv

LEMMA ReconnectInv ==
    ASSUME IInv, Reconnect
    PROVE  IInv'
<1> USE DEF IInv
<1>1. /\ UNCHANGED <<acked, stored, status, settled, registry, visits, page>>
      /\ handler # Idle /\ handler.at = "sending" /\ handler.to = {} /\ handler.run \in Runs
      /\ handler' = Idle
      /\ faults < MaxFaults /\ faults' = faults + 1
  <2>1. handler # Idle /\ handler.at = "sending"
    BY DEF Reconnect, Idle
  <2>2. handler \in [at: {"stored", "sending"}, run: Runs, to: SUBSET Visits]
    BY <2>1 DEF TypeOK
  <2> QED
    BY <2>1, <2>2 DEF Reconnect, Fault, database
<1>2. ShownInv'
  BY <1>1, NothingShownChanges DEF DueShrinks, DueStays, Due, database
<1>3. TypeOK'
  BY <1>1, BoundsAssumption DEF TypeOK
<1>4. RowsAreBounded'
  <2>1. \A e \in Runs : Last(e) \in Nat /\ acked[e] \in Nat
    BY Shapes DEF TypeOK
  <2>2. faults \in Nat
    BY BoundsAssumption DEF TypeOK
  <2>3. \A e \in Runs : Last(e) <= acked[e] + faults + 1
    BY <2>1, <2>2 DEF RowsAreBounded
  <2> QED
    BY <1>1, <2>1, <2>2, <2>3 DEF RowsAreBounded, Last
<1>5. HandlerIsTrue' /\ RegistryIsOpen'
  BY <1>1 DEF HandlerIsTrue, RegistryIsOpen
<1> QED
  BY <1>2, <1>3, <1>4, <1>5 DEF ShownInv

LEMMA NoticeClosedInv ==
    ASSUME IInv, NEW v \in DOMAIN visits, NoticeClosed(v)
    PROVE  IInv'
<1> USE DEF IInv
<1>1. /\ UNCHANGED <<acked, stored, status, settled, handler, visits, page, faults>>
      /\ visits[v].sock = "closed" /\ registry' = registry \ {v}
  BY DEF NoticeClosed, disconnect, database
<1>2. ShownInv'
  BY <1>1, NothingShownChanges DEF DueShrinks, DueStays, Due, EventType, database
<1>3. TypeOK' /\ RowsAreBounded' /\ HandlerIsTrue'
  BY <1>1 DEF TypeOK, RowsAreBounded, HandlerIsTrue, Last, InStream, EventType
<1>4. RegistryIsOpen'
  BY <1>1 DEF RegistryIsOpen
<1> QED
  BY <1>2, <1>3, <1>4 DEF ShownInv

LEMMA SettleInv ==
    ASSUME IInv, NEW e \in Runs, Settle(e)
    PROVE  IInv'
<1> USE DEF IInv
<1>1. /\ UNCHANGED <<acked, stored, handler, registry, visits, page>>
      /\ faults < MaxFaults /\ faults' = faults + 1
      /\ status' = [status EXCEPT ![e] = "cancelled"] /\ settled' = settled \cup {e}
  BY DEF Settle, Fault
<1>2. TypeOK' /\ RowsAreBounded'
  BY <1>1, BoundsAssumption DEF TypeOK, RowsAreBounded, Statuses, Last
<1>3. /\ HandlerIsTrue' /\ RegistryIsOpen' /\ ReadsAreBounded' /\ ItemsAreOfVisits'
      /\ ItemsAreRows' /\ WiresAreRows' /\ ItemsRise' /\ WiresRise' /\ ItemsBeforeWire'
      /\ FreshRowIsNew' /\ NoGaps' /\ UnracedWaits' /\ RowsAreAccounted'
  BY <1>1 DEF HandlerIsTrue, RegistryIsOpen, ReadsAreBounded, Last, ItemsAreOfVisits, Current,
     Live, ItemsAreRows, IsRow, WiresAreRows, ItemsRise, WiresRise, ItemsBeforeWire,
     FreshRowIsNew, Due, NoGaps, OnTheWay, UnracedWaits, RowsAreAccounted, Follows, Overtakes,
     InStream, EventType
<1>4. \A d \in Runs \ settled' : d \notin settled /\ status'[d] = status[d]
  BY <1>1 DEF TypeOK
<1>5. StatusIsLast'
  BY <1>1, <1>4 DEF StatusIsLast, IsLastOwn
<1>6. StatusFollows'
  <2>1. \A v \in DOMAIN visits : visits[v].run \in Runs
    BY Shapes
  <2>2. \A v \in DOMAIN visits : StatusIsDue(v)' <=> StatusIsDue(v)
    BY <1>1 DEF StatusIsDue, Due, EventType
  <2> QED
    BY <1>1, <1>4, <2>1, <2>2 DEF StatusFollows, Follows, Overtakes, Current
<1> QED
  BY <1>2, <1>3, <1>5, <1>6

-----------------------------------------------------------------------------
(* A row is stored                                                         *)

LEMMA PersistInv ==
    ASSUME IInv, NEW e \in Runs, _persist_event(e)
    PROVE  IInv'
<1> USE DEF IInv
<1> DEFINE type == EventType(e)
<1>0. PICK n : n = Last(e)
  OBVIOUS
<1>1. /\ UNCHANGED <<acked, settled, registry, visits, page, faults>>
      /\ handler = Idle /\ InStream(e)
      /\ stored' = [stored EXCEPT ![e] = Append(@, type)]
      /\ status' = [status EXCEPT ![e] = handle_event(type, @)]
      /\ handler' = [at |-> "stored", run |-> e, to |-> {}]
  BY DEF _persist_event
<1>2. handler' # Idle /\ handler'.at = "stored" /\ handler'.run = e /\ handler'.to = {}
  BY <1>1 DEF Idle
<1>3. type \in Types
  BY <1>1, ScriptAssumption DEF InStream, EventType, TypeOK
<1>4. n \in Nat /\ stored[e] \in Seq(Types) /\ status[e] \in Statuses
  BY <1>0 DEF TypeOK, Last
<1>5. /\ stored' \in [Runs -> Seq(Types)]
      /\ Len(stored'[e]) = n + 1 /\ DOMAIN stored'[e] = 1..(n + 1) /\ stored'[e][n + 1] = type
      /\ \A k \in DOMAIN stored[e] : k \in 1..n /\ stored'[e][k] = stored[e][k]
      /\ \A d \in Runs : d # e => stored'[d] = stored[d]
  BY <1>0, <1>1, <1>3, <1>4 DEF TypeOK, Last
<1>6. /\ \A d \in Runs : Last(d) \in Nat /\ DOMAIN stored[d] = 1..Last(d)
      /\ \A d \in Runs : d # e => Last(d)' = Last(d)
      /\ Last(e)' = n + 1
      /\ \A v \in DOMAIN visits :
             /\ visits[v].run \in Runs
             /\ visits[v].run # e => Last(visits[v].run)' = Last(visits[v].run)
             /\ visits[v].run = e => Last(visits[v].run) = n /\ Last(visits[v].run)' = n + 1
  <2>1. \A d \in Runs : Last(d) \in Nat /\ DOMAIN stored[d] = 1..Last(d)
    BY DEF TypeOK, Last
  <2>2. \A d \in Runs : Len(stored'[d]) = IF d = e THEN n + 1 ELSE Len(stored[d])
    BY <1>5
  <2>3. \A v \in DOMAIN visits : visits[v].run \in Runs /\ visits'[v].run = visits[v].run
    BY <1>1, Shapes
  <2> QED
    <3>1. \A d \in Runs : Last(d)' = IF d = e THEN n + 1 ELSE Last(d)
      BY <2>2 DEF Last
    <3>2. ASSUME NEW v \in DOMAIN visits
          PROVE  Last(visits[v].run)' = IF visits[v].run = e THEN n + 1 ELSE Last(visits[v].run)
      <4>1. Last(visits[v].run)' = Len(stored'[visits[v].run])
        BY <2>3 DEF Last
      <4> QED
        BY <2>2, <2>3, <4>1 DEF Last
    <3> QED
      BY <1>0, <2>1, <2>3, <3>1, <3>2
<1>7. \A d, x : d \in Runs /\ IsRow(d, x) => IsRow(d, x)' /\ x.row <= Last(d) /\ x.row \in Nat
  <2> SUFFICES ASSUME NEW d \in Runs, NEW row \in DOMAIN stored[d]
               PROVE  /\ row \in DOMAIN stored'[d] /\ stored'[d][row] = stored[d][row]
                      /\ row <= Last(d) /\ row \in Nat
    BY DEF IsRow
  <2>1. row \in 1..Last(d) /\ Last(d) \in Nat
    BY <1>6
  <2>2. CASE d = e
    BY <1>0, <1>4, <1>5, <2>1, <2>2
  <2>3. CASE d # e
    BY <1>5, <2>1, <2>3
  <2> QED
    BY <2>2, <2>3
<1>8. TypeOK'
  <2>1. n <= acked[e] + faults
    BY <1>0, <1>1, <1>4 DEF RowsAreBounded, TypeOK
  <2>2. n + 1 <= Len(Script[e]) + MaxFaults /\ Len(Script[e]) \in Nat
    BY <1>1, <1>4, <2>1, NumbersBound, BoundsAssumption DEF InStream, TypeOK
  <2>3. n + 1 <= Cardinality(Numbers) + MaxFaults
    BY <1>4, <2>2, NumbersBound, BoundsAssumption
  <2>4. \A d \in Runs : DOMAIN stored'[d] \subseteq Rows
    <3>1. 1..(n + 1) \subseteq Rows
      BY <1>4, <2>3, NumbersBound, BoundsAssumption DEF Rows
    <3> QED
      BY <1>5, <3>1 DEF TypeOK
  <2>5. handle_event(type, status[e]) \in Statuses
    BY <1>3, <1>4 DEF handle_event, Shown, Statuses
  <2>6. status' \in [Runs -> Statuses]
    BY <1>1, <2>5 DEF TypeOK
  <2> QED
    BY <1>1, <1>5, <2>4, <2>6 DEF TypeOK
<1>9. RowsAreBounded'
  <2>1. ASSUME NEW d \in Runs, d # e
        PROVE  Last(d)' <= acked[d] + faults
    <3>1. Last(d) <= acked[d] + faults + 0
      BY <1>1 DEF RowsAreBounded
    <3> QED
      BY <1>6, <2>1, <3>1 DEF TypeOK
  <2>2. Last(e)' <= acked[e] + faults + 1
    <3>1. Last(e) <= acked[e] + faults + 0
      BY <1>1 DEF RowsAreBounded
    <3> QED
      BY <1>0, <1>4, <1>6, <3>1 DEF TypeOK
  <2> QED
    BY <1>1, <1>2, <2>1, <2>2 DEF RowsAreBounded, TypeOK
<1>10. HandlerIsTrue'
  <2>1. Last(e)' = n + 1 /\ handler'.run = e
    BY <1>2, <1>6
  <2> QED
    BY <1>1, <1>2, <1>4, <1>5, <2>1 DEF HandlerIsTrue, InStream, EventType
<1>11. RegistryIsOpen' /\ UnracedWaits'
  BY <1>1 DEF RegistryIsOpen, UnracedWaits, Current
<1>12. ReadsAreBounded'
  <2>1. \A v \in DOMAIN visits : visits[v].run \in Runs /\ visits[v].snapshot \in Nat
    BY Shapes DEF Visit, Rows
  <2> QED
    BY <1>1, <1>4, <1>6, <2>1 DEF ReadsAreBounded
<1>13. ItemsAreOfVisits' /\ ItemsRise' /\ WiresRise' /\ ItemsBeforeWire'
  BY <1>1 DEF ItemsAreOfVisits, Current, Live, ItemsRise, WiresRise, ItemsBeforeWire
<1>14. ItemsAreRows'
  BY <1>1, <1>7, Shapes DEF ItemsAreRows
<1>15. WiresAreRows'
  BY <1>1, <1>7, Shapes DEF WiresAreRows
<1>16. FreshRowIsNew'
  <2> SUFFICES ASSUME NEW v \in DOMAIN visits, visits[v].run = e
               PROVE  /\ \A k \in DOMAIN visits[v].wire : visits[v].wire[k].row < n + 1
                      /\ v = Current => \A k \in DOMAIN page.items :
                             Live(k) => page.items[k].row < n + 1
    BY <1>1, <1>2, <1>6 DEF FreshRowIsNew, Due, Current, Live
  <2>0. \A x : IsRow(e, x) => x.row < n + 1
    BY <1>0, <1>4, <1>7
  <2>1. \A k \in DOMAIN visits[v].wire : visits[v].wire[k].row < n + 1
    BY <2>0 DEF WiresAreRows
  <2>2. v = Current => \A k \in DOMAIN page.items : Live(k) => page.items[k].row < n + 1
    BY <2>0 DEF ItemsAreRows, ItemsAreOfVisits
  <2> QED
    BY <2>1, <2>2
<1>17. ASSUME NEW v \in DOMAIN visits, visits[v].run = e
       PROVE  /\ \A row : OnTheWay(v, row) => OnTheWay(v, row)'
              /\ OnTheWay(v, n + 1)'
  <2>1. \A row : OnTheWay(v, row) => \E k \in DOMAIN visits[v].wire : visits[v].wire[k].row = row
    BY <1>1 DEF OnTheWay, Due
  <2>2. Due(v)' /\ Last(visits[v].run)' = n + 1
    BY <1>1, <1>2, <1>6, <1>17 DEF Due
  <2> QED
    BY <1>1, <2>1, <2>2 DEF OnTheWay
<1>18. ASSUME NEW v \in DOMAIN visits, visits[v].run # e
       PROVE  \A row : OnTheWay(v, row) => OnTheWay(v, row)'
  BY <1>1, <1>2, <1>6, <1>18 DEF OnTheWay, Due
<1>19. NoGaps'
  <2> SUFFICES ASSUME NEW v \in DOMAIN visits, NEW k \in DOMAIN visits[v].wire,
                      NEW row \in visits[v].wire[k].row..Last(visits[v].run)'
               PROVE  OnTheWay(v, row)'
    BY <1>1 DEF NoGaps
  <2>1. visits[v].run \in Runs /\ visits[v].wire[k].row \in Nat
    <3>1. IsRow(visits[v].run, visits[v].wire[k])
      BY DEF WiresAreRows
    <3> QED
      BY <1>6, <1>7, <3>1
  <2>2. row \in visits[v].wire[k].row..Last(visits[v].run) \/ (visits[v].run = e /\ row = n + 1)
    BY <1>4, <1>6, <2>1
  <2> QED
    BY <1>17, <1>18, <2>2 DEF NoGaps
<1>20. RowsAreAccounted'
  <2> SUFFICES ASSUME NEW v \in DOMAIN visits, Follows(v)
               PROVE  /\ visits[v].events = "answered" /\ ~ Overtakes =>
                             \A row \in 1..Last(visits[v].run)' :
                                 row <= visits[v].snapshot \/ OnTheWay(v, row)'
                      /\ visits[v].events = "done" =>
                             /\ \A k \in DOMAIN page.items : page.items[k].run = visits[v].run
                             /\ \A row \in 1..Last(visits[v].run)' :
                                    \/ \E k \in DOMAIN page.items : page.items[k].row = row
                                    \/ OnTheWay(v, row)'
    BY <1>1 DEF RowsAreAccounted, Follows, Overtakes, Current
  <2>1. visits[v].run \in Runs
    BY Shapes
  <2>2. \A row \in 1..Last(visits[v].run)' :
            row \in 1..Last(visits[v].run) \/ (visits[v].run = e /\ row = n + 1)
    BY <1>4, <1>6, <2>1
  <2> QED
    BY <1>17, <1>18, <2>2 DEF RowsAreAccounted
<1>21. StatusIsLast'
  <2> SUFFICES ASSUME NEW d \in Runs \ settled, NEW k \in DOMAIN stored'[d]
               PROVE  /\ status'[d] # "cancelled"
                      /\ IsLastOwn(d, k)' => status'[d] = Shown(stored'[d][k], status'[d])
    <3>1. \A d \in Runs \ settled : status'[d] # "cancelled"
      BY <1>1, <1>3 DEF StatusIsLast, handle_event, Shown, TypeOK, Types
    <3> QED
      BY <1>1, <3>1 DEF StatusIsLast
  <2>1. CASE d # e
    BY <1>1, <1>5, <2>1 DEF StatusIsLast, IsLastOwn, TypeOK
  <2>2. CASE d = e
    <3>1. status[e] # "cancelled" /\ status'[e] = Shown(type, status[e])
      BY <1>1, <2>2 DEF StatusIsLast, handle_event, TypeOK
    <3>2. status'[e] # "cancelled"
      BY <1>3, <3>1 DEF Shown, Types
    <3>3. CASE k = n + 1
      BY <1>3, <1>5, <2>2, <3>1, <3>2, <3>3 DEF Shown, Types, IsLastOwn
    <3>4. CASE k \in 1..n
      <4>1. IsLastOwn(e, k)' => type = "job" /\ IsLastOwn(e, k)
        <5> SUFFICES ASSUME IsLastOwn(e, k)'
                     PROVE  type = "job" /\ IsLastOwn(e, k)
          OBVIOUS
        <5>1. stored'[e][k] # "job" /\ \A i \in 1..(n + 1) : k < i => stored'[e][i] = "job"
          BY <1>5 DEF IsLastOwn
        <5>2. type = "job"
          <6>1. n + 1 \in 1..(n + 1) /\ k < n + 1
            BY <1>4, <3>4
          <6> QED
            BY <1>5, <5>1, <6>1
        <5>3. DOMAIN stored[e] = 1..n
          BY <1>0, <1>6
        <5>4. stored[e][k] # "job" /\ \A i \in 1..n : k < i => stored[e][i] = "job"
          <6>1. \A i \in 1..n : i \in 1..(n + 1) /\ stored'[e][i] = stored[e][i]
            BY <1>4, <1>5, <5>3
          <6> QED
            BY <3>4, <5>1, <6>1
        <5> QED
          BY <5>2, <5>3, <5>4 DEF IsLastOwn
      <4>2. type = "job" => status'[e] = status[e]
        BY <3>1 DEF Shown
      <4> QED
        BY <1>0, <1>5, <1>6, <2>2, <3>2, <3>4, <4>1, <4>2 DEF StatusIsLast
    <3> QED
      BY <1>4, <1>5, <2>2, <3>3, <3>4
  <2> QED
    BY <2>1, <2>2
<1>22. StatusFollows'
  <2> SUFFICES ASSUME NEW v \in DOMAIN visits, Follows(v), visits[v].run \notin settled,
                      ~ StatusIsDue(v)'
               PROVE  status'[visits[v].run] = status[visits[v].run] /\ ~ StatusIsDue(v)
    BY <1>1 DEF StatusFollows, Follows, Overtakes, Current
  <2>1. ~ StatusIsDue(v)
    BY <1>1 DEF StatusIsDue, Due
  <2>2. visits[v].run = e => type = "job"
    BY <1>1, <1>2 DEF StatusIsDue, Due, EventType
  <2> QED
    BY <1>1, <2>1, <2>2, Shapes DEF TypeOK, handle_event, Shown
<1> QED
  BY <1>8, <1>9, <1>10, <1>11, <1>12, <1>13, <1>14, <1>15, <1>16, <1>19, <1>20, <1>21, <1>22

-----------------------------------------------------------------------------
(* Steps of one visit that leave the page alone                            *)

LEMMA VisitChanged ==
    ASSUME TypeOK, NEW v \in DOMAIN visits, NEW u \in Visit,
           visits' = [visits EXCEPT ![v] = u]
    PROVE  /\ visits' \in Seq(Visit) /\ Len(visits') = Len(visits)
           /\ DOMAIN visits' = DOMAIN visits /\ Current' = Current
           /\ \A w \in DOMAIN visits : visits'[w] = IF w = v THEN u ELSE visits[w]
<1>1. visits \in Seq(Visit)
  BY DEF TypeOK
<1> QED
  BY <1>1 DEF Current

(* Wires that stay as they are, or are cut.                                *)
WiresStay ==
    \A v \in DOMAIN visits :
        /\ visits'[v].run = visits[v].run
        /\ Due(v)' => Due(v)
        /\ \/ visits'[v].wire = <<>>
           \/ visits'[v].wire = visits[v].wire /\ Due(v)' = Due(v)

WireInv ==
    /\ ItemsAreOfVisits
    /\ ItemsAreRows
    /\ WiresAreRows
    /\ ItemsRise
    /\ WiresRise
    /\ ItemsBeforeWire
    /\ FreshRowIsNew
    /\ NoGaps
    /\ StatusIsLast

LEMMA WireFrame ==
    ASSUME IInv, UNCHANGED <<database, page>>, Current' = Current,
           DOMAIN visits' = DOMAIN visits, WiresStay
    PROVE  WireInv'
<1> USE DEF IInv, database
<1>1. ItemsAreOfVisits'
  <2>1. visits # <<>> => Current \in DOMAIN visits
    BY Shapes DEF Current
  <2>2. visits' = <<>> => visits = <<>>
    BY Shapes
  <2> QED
    BY <2>1, <2>2, Shapes DEF ItemsAreOfVisits, Live, WiresStay
<1>2. ItemsAreRows' /\ ItemsRise' /\ StatusIsLast'
  BY DEF ItemsAreRows, IsRow, ItemsRise, Live, StatusIsLast, IsLastOwn
<1>3. WiresAreRows' /\ WiresRise' /\ ItemsBeforeWire'
  <2>1. ASSUME NEW v \in DOMAIN visits, visits'[v].wire # <<>>
        PROVE  visits'[v].wire = visits[v].wire /\ visits'[v].run = visits[v].run
    BY <2>1 DEF WiresStay
  <2>2. \A v \in DOMAIN visits : \A k \in DOMAIN visits'[v].wire : visits'[v].wire # <<>>
    OBVIOUS
  <2> QED
    BY <2>1, <2>2 DEF WiresAreRows, IsRow, WiresRise, ItemsBeforeWire, Live
<1>4. FreshRowIsNew'
  <2> SUFFICES ASSUME NEW v \in DOMAIN visits, Due(v)'
               PROVE  /\ \A k \in DOMAIN visits'[v].wire : visits'[v].wire[k].row < Last(visits[v].run)
                      /\ v = Current => \A k \in DOMAIN page.items :
                             Live(k) => page.items[k].row < Last(visits[v].run)
    BY DEF FreshRowIsNew, Live, Last, WiresStay
  <2> QED
    BY DEF FreshRowIsNew, WiresStay
<1>5. NoGaps'
  <2> SUFFICES ASSUME NEW v \in DOMAIN visits, NEW k \in DOMAIN visits'[v].wire,
                      NEW row \in visits'[v].wire[k].row..Last(visits[v].run)
               PROVE  OnTheWay(v, row)'
    BY DEF NoGaps, Last, WiresStay
  <2>1. visits'[v].wire = visits[v].wire /\ Due(v)' = Due(v) /\ visits'[v].run = visits[v].run
    BY DEF WiresStay
  <2>2. OnTheWay(v, row)
    BY <2>1 DEF NoGaps
  <2> QED
    BY <2>1, <2>2 DEF OnTheWay, Last
<1> QED
  BY <1>1, <1>2, <1>3, <1>4, <1>5 DEF WireInv

LEMMA ConnectInv ==
    ASSUME IInv, NEW v \in DOMAIN visits, Connect(v)
    PROVE  IInv'
<1> USE DEF IInv
<1> DEFINE u == [visits[v] EXCEPT !.sock = "open"]
<1>1. /\ UNCHANGED <<acked, stored, status, settled, handler, page, faults>>
      /\ visits[v].sock = "connecting" /\ registry' = registry \cup {v}
      /\ visits' = [visits EXCEPT ![v] = u]
  BY DEF Connect, database
<1>2. /\ u \in Visit /\ u.sock = "open" /\ u.run = visits[v].run /\ u.wire = visits[v].wire
      /\ u.exec = visits[v].exec /\ u.events = visits[v].events /\ u.answer = visits[v].answer
      /\ u.snapshot = visits[v].snapshot /\ u.raced = visits[v].raced
  BY Shapes DEF Visit
<1> HIDE DEF u
<1>3. /\ visits' \in Seq(Visit) /\ Len(visits') = Len(visits) /\ Current' = Current
      /\ DOMAIN visits' = DOMAIN visits
      /\ \A w \in DOMAIN visits : visits'[w] = IF w = v THEN u ELSE visits[w]
  BY <1>1, <1>2, VisitChanged
<1>4. \A w \in DOMAIN visits : Due(w)' = Due(w)
  BY <1>1, <1>2, <1>3 DEF Due
<1>5. WireInv'
  BY <1>1, <1>2, <1>3, <1>4, WireFrame DEF WiresStay, database
<1>6. TypeOK'
  BY <1>1, <1>3 DEF TypeOK
<1>7. RowsAreBounded' /\ HandlerIsTrue'
  BY <1>1, <1>2, <1>3 DEF RowsAreBounded, HandlerIsTrue, InStream, EventType, Last
<1>8. RegistryIsOpen' /\ ReadsAreBounded' /\ UnracedWaits'
  BY <1>1, <1>2, <1>3 DEF RegistryIsOpen, ReadsAreBounded, UnracedWaits, Last
<1>9. \A w, row : w \in DOMAIN visits /\ OnTheWay(w, row) => OnTheWay(w, row)'
  BY <1>1, <1>2, <1>3, <1>4 DEF OnTheWay, Last
<1>10. Overtakes' = Overtakes
  BY <1>1, <1>3 DEF Overtakes
<1>11. RowsAreAccounted'
  BY <1>1, <1>2, <1>3, <1>9, <1>10 DEF RowsAreAccounted, Follows, UnracedWaits, Last
<1>12. \A w \in DOMAIN visits : StatusIsDue(w)' = StatusIsDue(w)
  BY <1>1, <1>2, <1>3, <1>4 DEF StatusIsDue, EventType
<1>13. StatusFollows'
  BY <1>1, <1>2, <1>3, <1>10, <1>12 DEF StatusFollows, Follows, UnracedWaits
<1> QED
  BY <1>5, <1>6, <1>7, <1>8, <1>11, <1>13 DEF WireInv

LEMMA ClosedShape ==
    ASSUME NEW u \in Visit
    PROVE  /\ Closed(u) \in Visit /\ Closed(u).sock = "closed" /\ Closed(u).wire = <<>>
           /\ Closed(u).run = u.run /\ Closed(u).exec = u.exec /\ Closed(u).answer = u.answer
           /\ Closed(u).events = u.events /\ Closed(u).snapshot = u.snapshot
           /\ Closed(u).raced = u.raced
<1>1. <<>> \in Seq(Message)
  OBVIOUS
<1> QED
  BY <1>1 DEF Closed, Visit

LEMMA FailExecShape ==
    ASSUME NEW u \in Visit
    PROVE  /\ FailExec(u) \in Visit /\ FailExec(u).exec = "failed"
           /\ FailExec(u).sock = u.sock /\ FailExec(u).wire = u.wire
           /\ FailExec(u).run = u.run /\ FailExec(u).events = u.events
           /\ FailExec(u).snapshot = u.snapshot /\ FailExec(u).raced = u.raced
  BY DEF FailExec, Visit, Statuses

LEMMA FailEventsShape ==
    ASSUME NEW u \in Visit
    PROVE  /\ FailEvents(u) \in Visit /\ FailEvents(u).events = "failed"
           /\ FailEvents(u).sock = u.sock /\ FailEvents(u).wire = u.wire
           /\ FailEvents(u).run = u.run /\ FailEvents(u).exec = u.exec
           /\ FailEvents(u).answer = u.answer
           /\ FailEvents(u).snapshot = 0 /\ FailEvents(u).raced = u.raced
  BY DEF FailEvents, Visit

LEMMA DroppedShape ==
    ASSUME NEW u \in Visit
    PROVE  /\ Dropped(u) \in Visit /\ Dropped(u).sock = "closed" /\ Dropped(u).wire = <<>>
           /\ Dropped(u).run = u.run /\ Dropped(u).snapshot = 0
<1>1. FailExec(u) \in Visit /\ FailExec(u).run = u.run
  BY FailExecShape
<1>2. /\ FailEvents(FailExec(u)) \in Visit /\ FailEvents(FailExec(u)).run = u.run
      /\ FailEvents(FailExec(u)).snapshot = 0
  BY <1>1, FailEventsShape
<1> QED
  BY <1>2, ClosedShape DEF Dropped

LEMMA SocketBreaksInv ==
    ASSUME IInv, NEW v \in DOMAIN visits, SocketBreaks(v)
    PROVE  IInv'
<1> USE DEF IInv
<1> DEFINE u == Closed(visits[v])
<1>1. /\ UNCHANGED <<acked, stored, status, settled, handler, registry, page>>
      /\ faults < MaxFaults /\ faults' = faults + 1
      /\ visits' = [visits EXCEPT ![v] = u]
  BY DEF SocketBreaks, Fault, database
<1>2. /\ u \in Visit /\ u.sock = "closed" /\ u.run = visits[v].run /\ u.wire = <<>>
      /\ u.snapshot = visits[v].snapshot
  BY Shapes, ClosedShape
<1> HIDE DEF u
<1>3. /\ visits' \in Seq(Visit) /\ Len(visits') = Len(visits) /\ Current' = Current
      /\ DOMAIN visits' = DOMAIN visits
      /\ \A w \in DOMAIN visits : visits'[w] = IF w = v THEN u ELSE visits[w]
  BY <1>1, <1>2, VisitChanged
<1>4. \A w \in DOMAIN visits : Due(w)' = Due(w)
  BY <1>1, <1>2, <1>3 DEF Due
<1>5. WireInv'
  BY <1>1, <1>2, <1>3, <1>4, WireFrame DEF WiresStay, database
<1>6. TypeOK'
  BY <1>1, <1>3, BoundsAssumption DEF TypeOK
<1>7. RowsAreBounded' /\ HandlerIsTrue'
  <2>1. RowsAreBounded'
    BY <1>1 DEF RowsAreBounded, Last, TypeOK
  <2> QED
    BY <1>1, <1>2, <1>3, <2>1 DEF HandlerIsTrue, InStream, EventType, Last
<1>8. RegistryIsOpen' /\ ReadsAreBounded' /\ UnracedWaits'
  BY <1>1, <1>2, <1>3 DEF RegistryIsOpen, ReadsAreBounded, UnracedWaits, Last
<1>9. \A w, row : w \in DOMAIN visits /\ w # v /\ OnTheWay(w, row) => OnTheWay(w, row)'
  BY <1>1, <1>2, <1>3, <1>4 DEF OnTheWay, Last
<1>10. Overtakes' = Overtakes
  BY <1>1, <1>3 DEF Overtakes
<1>11. RowsAreAccounted'
  BY <1>1, <1>2, <1>3, <1>9, <1>10 DEF RowsAreAccounted, Follows, Last
<1>12. \A w \in DOMAIN visits : w # v => StatusIsDue(w)' = StatusIsDue(w)
  BY <1>1, <1>2, <1>3, <1>4 DEF StatusIsDue, EventType
<1>13. StatusFollows'
  BY <1>1, <1>2, <1>3, <1>10, <1>12 DEF StatusFollows, Follows
<1> QED
  BY <1>5, <1>6, <1>7, <1>8, <1>11, <1>13 DEF WireInv

-----------------------------------------------------------------------------
(* Requests                                                                *)

(* A request changes nothing but itself.                                   *)
LEMMA RequestFrame ==
    ASSUME IInv, UNCHANGED <<acked, database, handler, registry, page>>,
           faults' \in faults..MaxFaults,
           NEW v \in DOMAIN visits, NEW u \in Visit, visits' = [visits EXCEPT ![v] = u],
           u.run = visits[v].run, u.sock = visits[v].sock, u.wire = visits[v].wire
    PROVE  /\ TypeOK' /\ RowsAreBounded' /\ HandlerIsTrue' /\ RegistryIsOpen' /\ WireInv'
           /\ Current' = Current /\ DOMAIN visits' = DOMAIN visits
           /\ \A w \in DOMAIN visits : visits'[w] = IF w = v THEN u ELSE visits[w]
           /\ \A w \in DOMAIN visits : StatusIsDue(w)' = StatusIsDue(w)
           /\ \A w, row : w \in DOMAIN visits => OnTheWay(w, row)' = OnTheWay(w, row)
<1> USE DEF IInv
<1>1. UNCHANGED <<acked, stored, status, settled, handler, registry, page>>
  BY DEF database
<1>3. /\ visits' \in Seq(Visit) /\ Len(visits') = Len(visits) /\ Current' = Current
      /\ DOMAIN visits' = DOMAIN visits
      /\ \A w \in DOMAIN visits : visits'[w] = IF w = v THEN u ELSE visits[w]
  BY VisitChanged
<1>4. \A w \in DOMAIN visits : Due(w)' = Due(w)
  BY <1>1, <1>3 DEF Due
<1>5. WireInv'
  BY <1>1, <1>3, <1>4, WireFrame DEF WiresStay, database
<1>6. TypeOK'
  BY <1>1, <1>3, BoundsAssumption DEF TypeOK
<1>7. RowsAreBounded' /\ HandlerIsTrue'
  <2>1. RowsAreBounded'
    BY <1>1, BoundsAssumption DEF RowsAreBounded, Last, TypeOK
  <2> QED
    BY <1>1, <1>3, <2>1 DEF HandlerIsTrue, InStream, EventType, Last
<1>8. RegistryIsOpen'
  BY <1>1, <1>3 DEF RegistryIsOpen
<1>9. \A w, row : w \in DOMAIN visits => OnTheWay(w, row)' = OnTheWay(w, row)
  BY <1>1, <1>3, <1>4 DEF OnTheWay, Last
<1>12. \A w \in DOMAIN visits : StatusIsDue(w)' = StatusIsDue(w)
  BY <1>1, <1>3, <1>4 DEF StatusIsDue, EventType
<1> QED
  BY <1>3, <1>5, <1>6, <1>7, <1>8, <1>9, <1>12

LEMMA ReadExecutionInv ==
    ASSUME IInv, NEW v \in DOMAIN visits, ReadExecution(v)
    PROVE  IInv'
<1> USE DEF IInv
<1> DEFINE u == [visits[v] EXCEPT !.exec = "answered", !.answer = status[visits[v].run],
                                  !.raced = @ \/ v \notin registry]
<1>1. /\ UNCHANGED <<acked, stored, status, settled, handler, registry, page, faults>>
      /\ visits' = [visits EXCEPT ![v] = u]
  BY DEF ReadExecution, database
<1>2. /\ u \in Visit /\ u.sock = visits[v].sock /\ u.run = visits[v].run
      /\ u.wire = visits[v].wire /\ u.exec = "answered" /\ u.events = visits[v].events
      /\ u.answer = status[visits[v].run] /\ u.snapshot = visits[v].snapshot
      /\ ~ u.raced => ~ visits[v].raced /\ v \in registry
  BY Shapes DEF Visit, TypeOK
<1> HIDE DEF u
<1>3. /\ TypeOK' /\ RowsAreBounded' /\ HandlerIsTrue' /\ RegistryIsOpen' /\ WireInv'
      /\ Current' = Current /\ DOMAIN visits' = DOMAIN visits
      /\ \A w \in DOMAIN visits : visits'[w] = IF w = v THEN u ELSE visits[w]
      /\ \A w \in DOMAIN visits : StatusIsDue(w)' = StatusIsDue(w)
      /\ \A w, row : w \in DOMAIN visits => OnTheWay(w, row)' = OnTheWay(w, row)
  <2>1. faults' \in faults..MaxFaults
    BY <1>1, BoundsAssumption DEF TypeOK
  <2>2. UNCHANGED <<acked, database, handler, registry, page>>
    BY <1>1 DEF database
  <2> QED
    BY <1>1, <1>2, <2>1, <2>2, RequestFrame
<1>4. ReadsAreBounded' /\ UnracedWaits'
  BY <1>1, <1>2, <1>3 DEF ReadsAreBounded, Last, UnracedWaits, RegistryIsOpen
<1>5. Overtakes' = Overtakes
  BY <1>1, <1>3 DEF Overtakes
<1>6. RowsAreAccounted'
  BY <1>1, <1>2, <1>3, <1>5 DEF RowsAreAccounted, Follows, Last
<1>7. StatusFollows'
  BY <1>1, <1>2, <1>3, <1>5 DEF StatusFollows, Follows
<1> QED
  BY <1>3, <1>4, <1>6, <1>7 DEF WireInv

LEMMA ReadEventsInv ==
    ASSUME IInv, NEW v \in DOMAIN visits, ReadEvents(v)
    PROVE  IInv'
<1> USE DEF IInv
<1> DEFINE u == [visits[v] EXCEPT !.events = "answered", !.snapshot = Len(stored[visits[v].run]),
                                  !.raced = @ \/ v \notin registry]
<1>1. /\ UNCHANGED <<acked, stored, status, settled, handler, registry, page, faults>>
      /\ visits' = [visits EXCEPT ![v] = u]
  BY DEF ReadEvents, database
<1>2. /\ u \in Visit /\ u.sock = visits[v].sock /\ u.run = visits[v].run
      /\ u.wire = visits[v].wire /\ u.exec = visits[v].exec /\ u.events = "answered"
      /\ u.answer = visits[v].answer /\ u.snapshot = Last(visits[v].run)
      /\ ~ u.raced => ~ visits[v].raced /\ v \in registry
  <2>1. visits[v] \in Visit /\ visits[v].run \in Runs
    BY Shapes
  <2>2. Last(visits[v].run) \in Rows \cup {0}
    <3>1. DOMAIN stored[visits[v].run] = 1..Last(visits[v].run) /\ Last(visits[v].run) \in Nat
      BY <2>1, Shapes DEF Last
    <3> QED
      BY <2>1, <3>1 DEF TypeOK
  <2> QED
    BY <2>1, <2>2 DEF Visit, Last
<1> HIDE DEF u
<1>3. /\ TypeOK' /\ RowsAreBounded' /\ HandlerIsTrue' /\ RegistryIsOpen' /\ WireInv'
      /\ Current' = Current /\ DOMAIN visits' = DOMAIN visits
      /\ \A w \in DOMAIN visits : visits'[w] = IF w = v THEN u ELSE visits[w]
      /\ \A w \in DOMAIN visits : StatusIsDue(w)' = StatusIsDue(w)
      /\ \A w, row : w \in DOMAIN visits => OnTheWay(w, row)' = OnTheWay(w, row)
  <2>1. faults' \in faults..MaxFaults
    BY <1>1, BoundsAssumption DEF TypeOK
  <2>2. UNCHANGED <<acked, database, handler, registry, page>>
    BY <1>1 DEF database
  <2> QED
    BY <1>1, <1>2, <2>1, <2>2, RequestFrame
<1>4. ReadsAreBounded' /\ UnracedWaits'
  BY <1>1, <1>2, <1>3, Shapes DEF ReadsAreBounded, Last, UnracedWaits, RegistryIsOpen
<1>5. Overtakes' = Overtakes
  BY <1>1, <1>3 DEF Overtakes
<1>6. RowsAreAccounted'
  BY <1>1, <1>2, <1>3, <1>5, Shapes DEF RowsAreAccounted, Follows, Last
<1>7. StatusFollows'
  BY <1>1, <1>2, <1>3, <1>5 DEF StatusFollows, Follows
<1> QED
  BY <1>3, <1>4, <1>6, <1>7 DEF WireInv

LEMMA RequestFailsInv ==
    ASSUME IInv, NEW v \in DOMAIN visits, RequestFails(v)
    PROVE  IInv'
<1> USE DEF IInv
<1>1. /\ UNCHANGED <<acked, stored, status, settled, handler, registry, page>>
      /\ faults < MaxFaults /\ faults' = faults + 1
  BY DEF RequestFails, Fault, database
<1>2. PICK u \in {FailExec(visits[v]), FailEvents(visits[v])} : visits' = [visits EXCEPT ![v] = u]
  BY DEF RequestFails
<1>3. /\ u \in Visit /\ u.sock = visits[v].sock /\ u.run = visits[v].run
      /\ u.wire = visits[v].wire /\ u.raced = visits[v].raced
      /\ \/ u.exec = "failed" /\ u.events = visits[v].events /\ u.snapshot = visits[v].snapshot
         \/ u.events = "failed" /\ u.exec = visits[v].exec /\ u.answer = visits[v].answer
                                /\ u.snapshot = 0
  BY Shapes, FailExecShape, FailEventsShape
<1>4. /\ TypeOK' /\ RowsAreBounded' /\ HandlerIsTrue' /\ RegistryIsOpen' /\ WireInv'
      /\ Current' = Current /\ DOMAIN visits' = DOMAIN visits
      /\ \A w \in DOMAIN visits : visits'[w] = IF w = v THEN u ELSE visits[w]
      /\ \A w \in DOMAIN visits : StatusIsDue(w)' = StatusIsDue(w)
      /\ \A w, row : w \in DOMAIN visits => OnTheWay(w, row)' = OnTheWay(w, row)
  <2>1. faults' \in faults..MaxFaults
    BY <1>1, BoundsAssumption DEF TypeOK
  <2>2. UNCHANGED <<acked, database, handler, registry, page>>
    BY <1>1 DEF database
  <2> QED
    BY <1>2, <1>3, <2>1, <2>2, RequestFrame
<1>5. ReadsAreBounded' /\ UnracedWaits'
  <2>1. u.snapshot <= Last(visits[v].run)
    BY <1>3, Shapes DEF ReadsAreBounded
  <2>2. ReadsAreBounded'
    BY <1>1, <1>3, <1>4, <2>1 DEF ReadsAreBounded, Last
  <2> QED
    BY <1>1, <1>3, <1>4, <2>2 DEF UnracedWaits
<1>6. Overtakes' = Overtakes
  BY <1>1, <1>4 DEF Overtakes
<1>7. RowsAreAccounted'
  BY <1>1, <1>3, <1>4, <1>6 DEF RowsAreAccounted, Follows, Last
<1>8. StatusFollows'
  BY <1>1, <1>3, <1>4, <1>6 DEF StatusFollows, Follows
<1> QED
  BY <1>4, <1>5, <1>7, <1>8 DEF WireInv

-----------------------------------------------------------------------------
(* Steps that close all sockets                                            *)

LEMMA RestartInv ==
    ASSUME IInv, Restart
    PROVE  IInv'
<1> USE DEF IInv
<1>1. /\ UNCHANGED <<acked, stored, status, settled, page>>
      /\ faults < MaxFaults /\ faults' = faults + 1
      /\ handler' = Idle /\ registry' = {}
      /\ visits' = [v \in DOMAIN visits |-> Dropped(visits[v])]
  BY DEF Restart, Fault, database
<1>2. \A v \in DOMAIN visits :
          /\ visits'[v] \in Visit /\ visits'[v].sock = "closed" /\ visits'[v].wire = <<>>
          /\ visits'[v].run = visits[v].run /\ visits'[v].snapshot = 0
  BY <1>1, Shapes, DroppedShape
<1>3. /\ visits' \in Seq(Visit) /\ Len(visits') = Len(visits) /\ Current' = Current
      /\ DOMAIN visits' = DOMAIN visits
  BY <1>1, <1>2, Shapes DEF Current
<1>4. WireInv'
  <2>1. \A v \in DOMAIN visits : ~ Due(v)'
    BY <1>1 DEF Due
  <2> QED
    BY <1>1, <1>2, <1>3, <2>1, WireFrame DEF WiresStay, database
<1>5. TypeOK'
  BY <1>1, <1>3, BoundsAssumption DEF TypeOK
<1>6. RowsAreBounded'
  BY <1>1 DEF RowsAreBounded, Last, TypeOK
<1>7. HandlerIsTrue' /\ RegistryIsOpen' /\ UnracedWaits' /\ RowsAreAccounted' /\ StatusFollows'
  BY <1>1, <1>2, <1>3
  DEF HandlerIsTrue, RegistryIsOpen, UnracedWaits, RowsAreAccounted, StatusFollows, Follows
<1>8. ReadsAreBounded'
  BY <1>1, <1>2, <1>3, Shapes DEF ReadsAreBounded, Last
<1> QED
  BY <1>4, <1>5, <1>6, <1>7, <1>8 DEF WireInv

(* A new visit, after sockets were closed, has nothing and waits for all.  *)
LEMMA NewVisitFrame ==
    ASSUME IInv, UNCHANGED <<acked, database, handler, registry, faults>>,
           NEW e \in Runs, NEW old, old \in [DOMAIN visits -> Visit],
           \A v \in DOMAIN visits :
               /\ old[v].sock = "closed" /\ old[v].wire = <<>> /\ old[v].run = visits[v].run
               /\ old[v].snapshot \in {0, visits[v].snapshot},
           visits' = Append(old, NewVisit(e)), Current < MaxVisits,
           page'.items \in Seq(Item), page'.status \in Statuses,
           page' = [items |-> page'.items, status |-> page'.status],
           \A k \in DOMAIN page'.items : page'.items[k] \in {page.items[i] : i \in DOMAIN page.items}
    PROVE  IInv'
<1> USE DEF IInv
<1>1. UNCHANGED <<acked, stored, status, settled, handler, registry, faults>>
  BY DEF database
<1>2. NewVisit(e) \in Visit
  <2>1. <<>> \in Seq(Message)
    OBVIOUS
  <2> QED
    BY <2>1 DEF NewVisit, Visit, Statuses
<1>3. /\ old \in Seq(Visit) /\ Len(old) = Current
  <2>1. old \in [1..Current -> Visit] /\ Current \in Nat
    BY Shapes
  <2> QED
    BY <2>1
<1>4. /\ visits' \in Seq(Visit) /\ Current' = Current + 1 /\ Len(visits') = Current + 1
      /\ DOMAIN visits' = 1..(Current + 1)
      /\ visits'[Current + 1] = NewVisit(e)
      /\ \A v \in DOMAIN visits : visits'[v] = old[v]
  BY <1>2, <1>3, Shapes DEF Current
<1>5. /\ DOMAIN visits = 1..Current /\ Current \in Nat
      /\ \A v \in DOMAIN visits' : v \in DOMAIN visits \/ v = Current'
      /\ Current' \notin DOMAIN visits /\ DOMAIN visits \subseteq DOMAIN visits'
  BY <1>4, Shapes
<1>6. /\ \A v \in DOMAIN visits' : visits'[v].wire = <<>> /\ visits'[v].sock # "open"
      /\ visits'[Current'].exec = "sent" /\ visits'[Current'].events = "sent"
      /\ visits'[Current'].snapshot = 0 /\ visits'[Current'].run = e
  BY <1>4, <1>5 DEF NewVisit
<1>7. TypeOK'
  <2>1. Len(visits') <= MaxVisits
    BY <1>4, <1>5, BoundsAssumption
  <2>2. page' \in [items: Seq(Item), status: Statuses]
    OBVIOUS
  <2>3. registry \subseteq DOMAIN visits'
    BY <1>5 DEF TypeOK
  <2> QED
    BY <1>1, <1>4, <2>1, <2>2, <2>3 DEF TypeOK
<1>8. RowsAreBounded'
  BY <1>1 DEF RowsAreBounded, Last
<1>9. HandlerIsTrue'
  BY <1>1, <1>4, <1>5 DEF HandlerIsTrue, InStream, EventType, Last
<1>10. RegistryIsOpen'
  <2>1. registry \subseteq DOMAIN visits
    BY DEF TypeOK
  <2> QED
    BY <1>1, <1>4, <1>5, <1>6, <2>1 DEF RegistryIsOpen
<1>11. ReadsAreBounded'
  BY <1>1, <1>4, <1>5, <1>6, Shapes DEF ReadsAreBounded, Last
<1>12. \A k \in DOMAIN page'.items : page'.items[k].by < Current' /\ page'.items[k].by # Current'
  <2>1. \A i \in DOMAIN page.items : page.items[i].by \in Nat /\ page.items[i].by <= Current
    BY Shapes, BoundsAssumption DEF ItemsAreOfVisits, Item
  <2> QED
    BY <1>4, <1>5, <2>1
<1>13. ItemsAreOfVisits'
  <2>1. visits' # <<>>
    BY <1>4
  <2>2. \A k \in DOMAIN page'.items : page'.items[k].by <= Current'
    BY <1>4, <1>5, <1>12, Shapes, BoundsAssumption DEF ItemsAreOfVisits, Item
  <2> QED
    BY <1>12, <2>1, <2>2 DEF ItemsAreOfVisits, Live
<1>14. ItemsAreRows'
  BY <1>1 DEF ItemsAreRows, IsRow
<1>15. ItemsRise' /\ ItemsBeforeWire'
  BY <1>12 DEF ItemsRise, ItemsBeforeWire, Live
<1>16. WiresAreRows' /\ WiresRise' /\ NoGaps'
  BY <1>6 DEF WiresAreRows, WiresRise, NoGaps
<1>17. FreshRowIsNew'
  BY <1>6, <1>12 DEF FreshRowIsNew, Live
<1>18. UnracedWaits' /\ RowsAreAccounted' /\ StatusFollows'
  BY <1>6 DEF UnracedWaits, RowsAreAccounted, StatusFollows, Follows
<1>19. StatusIsLast'
  BY <1>1 DEF StatusIsLast, IsLastOwn
<1> QED
  BY <1>7, <1>8, <1>9, <1>10, <1>11, <1>13, <1>14, <1>15, <1>16, <1>17, <1>18, <1>19

LEMMA OpenInv ==
    ASSUME IInv, NEW e \in Runs, Open(e)
    PROVE  IInv'
<1> USE DEF IInv
<1> DEFINE old == [v \in DOMAIN visits |-> Dropped(visits[v])]
<1>1. /\ UNCHANGED <<acked, database, handler, registry, faults>>
      /\ Current < MaxVisits /\ visits' = Append(old, NewVisit(e))
      /\ page' = [items |-> <<>>, status |-> "pending"]
  BY DEF Open
<1>2. /\ old \in [DOMAIN visits -> Visit]
      /\ \A v \in DOMAIN visits :
             /\ old[v].sock = "closed" /\ old[v].wire = <<>> /\ old[v].run = visits[v].run
             /\ old[v].snapshot \in {0, visits[v].snapshot}
  BY Shapes, DroppedShape
<1> HIDE DEF old
<1>3. /\ page'.items \in Seq(Item) /\ page'.status \in Statuses
      /\ page' = [items |-> page'.items, status |-> page'.status]
      /\ \A k \in DOMAIN page'.items : page'.items[k] \in {page.items[i] : i \in DOMAIN page.items}
  BY <1>1 DEF Statuses
<1> QED
  BY <1>1, <1>2, <1>3, NewVisitFrame

LEMMA NavigateInv ==
    ASSUME IInv, NEW e \in Runs, Navigate(e)
    PROVE  IInv'
<1> USE DEF IInv
<1> DEFINE old == [v \in DOMAIN visits |-> [Closed(visits[v]) EXCEPT !.raced = FALSE]]
<1>1. /\ UNCHANGED <<acked, database, handler, registry, page, faults>>
      /\ Current \in 1..(MaxVisits - 1) /\ visits' = Append(old, NewVisit(e))
  BY DEF Navigate
<1>2. /\ old \in [DOMAIN visits -> Visit]
      /\ \A v \in DOMAIN visits :
             /\ old[v].sock = "closed" /\ old[v].wire = <<>> /\ old[v].run = visits[v].run
             /\ old[v].snapshot \in {0, visits[v].snapshot}
  <2>1. \A v \in Visit :
            /\ [v EXCEPT !.raced = FALSE] \in Visit
            /\ [v EXCEPT !.raced = FALSE].sock = v.sock /\ [v EXCEPT !.raced = FALSE].wire = v.wire
            /\ [v EXCEPT !.raced = FALSE].run = v.run
            /\ [v EXCEPT !.raced = FALSE].snapshot = v.snapshot
    BY DEF Visit
  <2>2. ASSUME NEW v \in DOMAIN visits
        PROVE  /\ old[v] \in Visit
               /\ old[v].sock = "closed" /\ old[v].wire = <<>> /\ old[v].run = visits[v].run
               /\ old[v].snapshot \in {0, visits[v].snapshot}
    <3>1. /\ Closed(visits[v]) \in Visit /\ Closed(visits[v]).sock = "closed"
          /\ Closed(visits[v]).wire = <<>> /\ Closed(visits[v]).run = visits[v].run
          /\ Closed(visits[v]).snapshot = visits[v].snapshot
      BY Shapes, ClosedShape
    <3> QED
      BY <2>1, <3>1
  <2> QED
    BY <2>2
<1> HIDE DEF old
<1>3. /\ page'.items \in Seq(Item) /\ page'.status \in Statuses
      /\ page' = [items |-> page'.items, status |-> page'.status]
      /\ \A k \in DOMAIN page'.items : page'.items[k] \in {page.items[i] : i \in DOMAIN page.items}
  BY <1>1 DEF TypeOK
<1>4. Current < MaxVisits
  BY <1>1, BoundsAssumption, Shapes
<1> QED
  BY <1>1, <1>2, <1>3, <1>4, NewVisitFrame

-----------------------------------------------------------------------------
(* A message is sent                                                       *)

LEMMA SendInv ==
    ASSUME IInv, NEW v \in DOMAIN visits, Send(v)
    PROVE  IInv'
<1> USE DEF IInv
<1>1. /\ UNCHANGED <<acked, stored, status, settled, page, faults>>
      /\ handler # Idle /\ handler.at = "sending" /\ v \in handler.to
      /\ handler \in [at: {"stored", "sending"}, run: Runs, to: SUBSET Visits]
      /\ handler' = [handler EXCEPT !.to = @ \ {v}]
      /\ IF visits[v].sock = "closed"
         THEN UNCHANGED visits /\ registry' \in {registry, registry \ {v}}
         ELSE /\ visits' = [visits EXCEPT ![v] =
                   [visits[v] EXCEPT !.wire = Append(@, [row |-> Last(handler.run),
                                                         type |-> EventType(handler.run)])]]
              /\ UNCHANGED registry
  <2>1. handler # Idle /\ handler.at = "sending"
    BY DEF Send, Idle
  <2>2. handler \in [at: {"stored", "sending"}, run: Runs, to: SUBSET Visits]
    BY <2>1 DEF TypeOK
  <2> QED
    BY <2>1, <2>2 DEF Send, disconnect, database, Last
<1>2. /\ handler' \in [at: {"stored", "sending"}, run: Runs, to: SUBSET Visits]
      /\ handler' # Idle /\ handler'.at = "sending" /\ handler'.run = handler.run
      /\ handler'.to = handler.to \ {v}
  BY <1>1 DEF Idle
<1>3. PICK e \in Runs : e = handler.run
  BY <1>1
<1>4. /\ visits[v].run = e /\ visits[v].sock # "connecting"
      /\ Last(e) \in Nat /\ Last(e) \in DOMAIN stored[e] /\ stored[e][Last(e)] = EventType(e)
      /\ EventType(e) \in Types
  <2>1. stored[e] \in Seq(Types) /\ stored[e] # <<>>
    BY <1>1, <1>3, Shapes DEF HandlerIsTrue
  <2>2. Last(e) \in Nat /\ Last(e) \in DOMAIN stored[e] /\ stored[e][Last(e)] \in Types
    BY <2>1 DEF Last
  <2> QED
    BY <1>1, <1>3, <2>2 DEF HandlerIsTrue
<1>5. Due(v) /\ ~ Due(v)'
  <2>1. Due(v)
    BY <1>1, <1>3, <1>4 DEF Due
  <2>2. ~ Due(v)'
    BY <1>2 DEF Due
  <2> QED
    BY <2>1, <2>2
<1>6. RowsAreBounded'
  BY <1>1, <1>2 DEF RowsAreBounded, Last
<1>7. CASE visits[v].sock = "closed"
  <2>1. ShownInv'
    <3>1. \A w \in DOMAIN visits : w # v => Due(w)' = Due(w)
      BY <1>1, <1>2, <1>7 DEF Due
    <3>2. DueShrinks
      BY <1>5, <3>1 DEF DueShrinks
    <3>3. DueStays
      BY <1>1, <1>7, <3>1 DEF DueStays, EventType
    <3> QED
      BY <1>1, <1>7, <3>2, <3>3, NothingShownChanges DEF database
  <2>2. TypeOK'
    BY <1>1, <1>2, <1>7 DEF TypeOK
  <2>3. HandlerIsTrue' /\ RegistryIsOpen'
    BY <1>1, <1>2, <1>7 DEF HandlerIsTrue, RegistryIsOpen, InStream, EventType, Last
  <2> QED
    BY <1>6, <2>1, <2>2, <2>3 DEF ShownInv
<1>8. CASE visits[v].sock # "closed"
  <2> DEFINE m == [row |-> Last(e), type |-> EventType(e)]
             u == [visits[v] EXCEPT !.wire = Append(@, m)]
             n == Len(visits[v].wire)
  <2>1. /\ visits[v] \in Visit /\ visits[v].wire \in Seq(Message) /\ visits[v].sock = "open"
    BY <1>4, <1>8, Shapes DEF Visit
  <2>2. m \in Message /\ m.row = Last(e) /\ m.type = EventType(e)
    BY <1>4 DEF Message, TypeOK
  <2>3. /\ Append(visits[v].wire, m) \in Seq(Message) /\ n \in Nat
        /\ DOMAIN visits[v].wire = 1..n /\ DOMAIN Append(visits[v].wire, m) = 1..(n + 1)
        /\ Append(visits[v].wire, m)[n + 1] = m
        /\ \A k \in 1..n : Append(visits[v].wire, m)[k] = visits[v].wire[k]
    BY <2>1, <2>2
  <2>4. /\ u \in Visit /\ u.sock = "open" /\ u.run = e /\ u.wire = Append(visits[v].wire, m)
        /\ u.exec = visits[v].exec /\ u.events = visits[v].events /\ u.answer = visits[v].answer
        /\ u.snapshot = visits[v].snapshot /\ u.raced = visits[v].raced
    BY <1>4, <2>1, <2>3 DEF Visit
  <2>5. visits' = [visits EXCEPT ![v] = u] /\ UNCHANGED registry
    BY <1>1, <1>3, <1>8
  <2> HIDE DEF u
  <2>6. /\ visits' \in Seq(Visit) /\ Len(visits') = Len(visits) /\ Current' = Current
        /\ DOMAIN visits' = DOMAIN visits
        /\ \A w \in DOMAIN visits : visits'[w] = IF w = v THEN u ELSE visits[w]
    BY <2>4, <2>5, VisitChanged
  <2>7. PICK l : l = n
    OBVIOUS
  <2>8. /\ visits'[v].wire \in Seq(Message) /\ l \in Nat
        /\ DOMAIN visits[v].wire = 1..l /\ DOMAIN visits'[v].wire = 1..(l + 1)
        /\ visits'[v].wire[l + 1].row = Last(e) /\ visits'[v].wire[l + 1].type = EventType(e)
        /\ \A k \in 1..l : visits'[v].wire[k] = visits[v].wire[k]
        /\ \A k \in 1..(l + 1) : k \in 1..l \/ k = l + 1
    <3>1. visits'[v].wire = Append(visits[v].wire, m)
      BY <2>4, <2>6
    <3>2. \A k \in 1..(l + 1) : k \in 1..l \/ k = l + 1
      BY <2>3, <2>7
    <3> HIDE DEF n, m
    <3> QED
      BY <2>2, <2>3, <2>7, <3>1, <3>2
  <2>9. \A w \in DOMAIN visits :
            /\ visits'[w].run = visits[w].run /\ visits'[w].sock = visits[w].sock
            /\ visits'[w].exec = visits[w].exec /\ visits'[w].answer = visits[w].answer
            /\ visits'[w].events = visits[w].events /\ visits'[w].snapshot = visits[w].snapshot
            /\ visits'[w].raced = visits[w].raced
            /\ w # v => visits'[w].wire = visits[w].wire /\ Due(w)' = Due(w)
    <3>1. \A w \in DOMAIN visits : w # v => visits'[w] = visits[w]
      BY <2>6
    <3>2. \A w \in DOMAIN visits : w # v => Due(w)' = Due(w)
      BY <1>1, <1>2, <3>1 DEF Due
    <3> QED
      BY <1>4, <2>1, <2>4, <2>6, <3>1, <3>2
  <2> HIDE DEF m, n
  <2>10. TypeOK'
    BY <1>1, <1>2, <2>5, <2>6 DEF TypeOK
  <2>11. HandlerIsTrue'
    BY <1>1, <1>2, <2>6, <2>9 DEF HandlerIsTrue, InStream, EventType, Last
  <2>12. RegistryIsOpen' /\ ReadsAreBounded' /\ UnracedWaits'
    BY <1>1, <2>1, <2>5, <2>6, <2>9 DEF RegistryIsOpen, ReadsAreBounded, UnracedWaits, Last
  <2>13. ItemsAreOfVisits'
    <3>1. visits # <<>> => Current \in DOMAIN visits
      BY Shapes DEF Current
    <3>2. visits' = <<>> => visits = <<>>
      BY <2>6, Shapes
    <3> QED
      BY <1>1, <2>6, <2>9, <3>1, <3>2, Shapes DEF ItemsAreOfVisits, Live
  <2>14. ItemsAreRows' /\ ItemsRise' /\ StatusIsLast'
    BY <1>1, <2>6 DEF ItemsAreRows, IsRow, ItemsRise, Live, StatusIsLast, IsLastOwn
  <2>15. WiresAreRows'
    <3> SUFFICES ASSUME NEW w \in DOMAIN visits, NEW k \in DOMAIN visits'[w].wire
                 PROVE  IsRow(visits[w].run, visits'[w].wire[k])
      BY <1>1, <2>6, <2>9 DEF WiresAreRows, IsRow
    <3>1. CASE w # v
      BY <2>9, <3>1 DEF WiresAreRows
    <3>2. CASE w = v /\ k = l + 1
      BY <1>4, <2>8, <3>2 DEF IsRow
    <3>3. CASE w = v /\ k \in 1..l
      BY <2>8, <3>3 DEF WiresAreRows
    <3> QED
      BY <2>8, <3>1, <3>2, <3>3
  <2>16. /\ \A k \in 1..l : visits[v].wire[k].row < Last(e)
         /\ v = Current => \A k \in DOMAIN page.items : Live(k) => page.items[k].row < Last(e)
    BY <1>4, <1>5, <2>8 DEF FreshRowIsNew
  <2>17. WiresRise'
    <3> SUFFICES ASSUME NEW w \in DOMAIN visits, NEW i \in DOMAIN visits'[w].wire,
                        NEW k \in DOMAIN visits'[w].wire, i < k
                 PROVE  visits'[w].wire[i].row < visits'[w].wire[k].row
      BY <2>6 DEF WiresRise
    <3>1. CASE w # v
      BY <2>9, <3>1 DEF WiresRise
    <3>2. CASE w = v /\ k = l + 1
      <4>1. i \in 1..l
        BY <2>8, <3>2
      <4> QED
        BY <2>8, <2>16, <3>2, <4>1
    <3>3. CASE w = v /\ k \in 1..l
      <4>1. i \in 1..l
        BY <2>8, <3>3
      <4> QED
        BY <2>8, <3>3, <4>1 DEF WiresRise
    <3> QED
      BY <2>8, <3>1, <3>2, <3>3
  <2>18. ItemsBeforeWire'
    <3> SUFFICES ASSUME NEW w \in DOMAIN visits, w = Current,
                        NEW i \in DOMAIN page.items, NEW k \in DOMAIN visits'[w].wire, Live(i)
                 PROVE  page.items[i].row < visits'[w].wire[k].row
      BY <1>1, <2>6 DEF ItemsBeforeWire, Live
    <3>1. CASE w # v
      BY <2>9, <3>1 DEF ItemsBeforeWire
    <3>2. CASE w = v /\ k = l + 1
      BY <2>8, <2>16, <3>2
    <3>3. CASE w = v /\ k \in 1..l
      BY <2>8, <3>3 DEF ItemsBeforeWire
    <3> QED
      BY <2>8, <3>1, <3>2, <3>3
  <2>19. FreshRowIsNew'
    <3> SUFFICES ASSUME NEW w \in DOMAIN visits, w # v, Due(w)
                 PROVE  /\ \A k \in DOMAIN visits[w].wire : visits[w].wire[k].row < Last(visits[w].run)
                        /\ w = Current => \A k \in DOMAIN page.items :
                               Live(k) => page.items[k].row < Last(visits[w].run)
      BY <1>1, <1>5, <2>6, <2>9 DEF FreshRowIsNew, Live, Last
    <3> QED
      BY DEF FreshRowIsNew
  <2>20. ASSUME NEW w \in DOMAIN visits, NEW row, OnTheWay(w, row)
         PROVE  OnTheWay(w, row)'
    <3>1. CASE w # v
      BY <1>1, <2>9, <2>20, <3>1 DEF OnTheWay, Last
    <3>2. CASE w = v /\ row = Last(e)
      <4>1. l + 1 \in DOMAIN visits'[v].wire
        BY <2>8
      <4> QED
        BY <2>8, <3>2, <4>1 DEF OnTheWay
    <3>3. CASE w = v /\ \E k \in DOMAIN visits[v].wire : visits[v].wire[k].row = row
      <4>1. PICK k \in 1..l : visits[v].wire[k].row = row
        BY <2>8, <3>3
      <4>2. k \in DOMAIN visits'[v].wire /\ visits'[v].wire[k].row = row
        BY <2>8, <4>1
      <4> QED
        BY <3>3, <4>2 DEF OnTheWay
    <3> QED
      BY <1>4, <2>20, <3>1, <3>2, <3>3 DEF OnTheWay
  <2>21. NoGaps'
    <3> SUFFICES ASSUME NEW w \in DOMAIN visits, NEW k \in DOMAIN visits'[w].wire,
                        NEW row \in visits'[w].wire[k].row..Last(visits[w].run)
                 PROVE  OnTheWay(w, row)
      BY <1>1, <2>6, <2>9, <2>20 DEF NoGaps, Last
    <3>1. CASE w # v
      BY <2>9, <3>1 DEF NoGaps
    <3>2. CASE w = v /\ k = l + 1
      <4>1. row = Last(e)
        BY <1>4, <2>8, <3>2
      <4> QED
        BY <1>4, <1>5, <3>2, <4>1 DEF OnTheWay
    <3>3. CASE w = v /\ k \in 1..l
      BY <2>8, <3>3 DEF NoGaps
    <3> QED
      BY <2>8, <3>1, <3>2, <3>3
  <2>22. Overtakes' = Overtakes
    BY <1>1, <2>6 DEF Overtakes
  <2>23. RowsAreAccounted'
    BY <1>1, <2>6, <2>9, <2>20, <2>22 DEF RowsAreAccounted, Follows, Last
  <2>24. ASSUME NEW w \in DOMAIN visits, StatusIsDue(w)
         PROVE  StatusIsDue(w)'
    <3>1. CASE w # v
      BY <1>1, <2>9, <2>24, <3>1 DEF StatusIsDue, EventType
    <3>2. CASE w = v /\ EventType(e) # "job"
      <4>1. l + 1 \in DOMAIN visits'[v].wire
        BY <2>8
      <4> QED
        BY <2>8, <3>2, <4>1 DEF StatusIsDue
    <3>3. CASE w = v /\ \E k \in DOMAIN visits[v].wire : visits[v].wire[k].type # "job"
      <4>1. PICK k \in 1..l : visits[v].wire[k].type # "job"
        BY <2>8, <3>3
      <4>2. k \in DOMAIN visits'[v].wire /\ visits'[v].wire[k].type # "job"
        BY <2>8, <4>1
      <4> QED
        BY <3>3, <4>2 DEF StatusIsDue
    <3> QED
      BY <1>4, <2>24, <3>1, <3>2, <3>3 DEF StatusIsDue
  <2>25. StatusFollows'
    BY <1>1, <2>6, <2>9, <2>22, <2>24 DEF StatusFollows, Follows
  <2> QED
    BY <1>6, <2>10, <2>11, <2>12, <2>13, <2>14, <2>15, <2>17, <2>18, <2>19, <2>21, <2>23, <2>25
<1> QED
  BY <1>7, <1>8

-----------------------------------------------------------------------------
(* A message is received                                                   *)

LEMMA ShownShape ==
    ASSUME NEW type \in Types, NEW old \in Statuses, NEW other \in Statuses
    PROVE  /\ Shown(type, old) \in Statuses
           /\ type = "job" => Shown(type, old) = old
           /\ type # "job" => Shown(type, old) = Shown(type, other)
  BY DEF Shown, Types, Statuses

LEMMA ReceiveInv ==
    ASSUME IInv, Receive
    PROVE  IInv'
<1> USE DEF IInv
<1>1. PICK c \in DOMAIN visits : c = Current
  BY Shapes DEF Receive, Current
<1>2. PICK e \in Runs : e = visits[c].run
  BY Shapes
<1>3. PICK wire \in Seq(Message) : wire = visits[c].wire
  BY Shapes
<1>4. PICK l \in Nat : l = Len(wire)
  BY <1>3
<1>5. /\ visits[c] \in Visit /\ visits[c].sock = "open" /\ l # 0
      /\ DOMAIN wire = 1..l /\ 1 \in 1..l /\ wire[1] \in Message
      /\ c \in 0..MaxVisits /\ c \in Nat
  <2>1. wire # <<>>
    BY <1>1, <1>3 DEF Receive
  <2>2. l # 0 /\ DOMAIN wire = 1..l /\ 1 \in 1..l /\ wire[1] \in Message
    BY <1>3, <1>4, <2>1
  <2> QED
    BY <1>1, <1>3, <2>1, <2>2, Shapes, BoundsAssumption DEF RegistryIsOpen
<1> DEFINE x == [run |-> e, row |-> wire[1].row, type |-> wire[1].type, by |-> c]
           u == [visits[c] EXCEPT !.wire = Tail(@)]
<1>6. /\ UNCHANGED <<acked, stored, status, settled, handler, registry, faults>>
      /\ page' = [items |-> Append(page.items, x),
                  status |-> Shown(wire[1].type, page.status)]
      /\ visits' = [visits EXCEPT ![c] = u]
  <2>1. Head(visits[Current].wire) = wire[1]
    BY <1>1, <1>3, <1>5
  <2>2. /\ page' = [items |-> Append(page.items, [run |-> visits[Current].run,
                               row |-> Head(visits[Current].wire).row,
                               type |-> Head(visits[Current].wire).type, by |-> Current]),
                    status |-> Shown(Head(visits[Current].wire).type, page.status)]
        /\ visits' = [visits EXCEPT ![Current] = [visits[Current] EXCEPT !.wire = Tail(@)]]
        /\ UNCHANGED <<acked, stored, status, settled, handler, registry, faults>>
    BY DEF Receive, database
  <2> QED
    BY <1>1, <1>2, <2>1, <2>2
<1>7. /\ Tail(wire) \in Seq(Message) /\ DOMAIN Tail(wire) = 1..(l - 1)
      /\ \A k \in 1..(l - 1) : Tail(wire)[k] = wire[k + 1] /\ k + 1 \in 1..l
      /\ \A k \in 1..l : k = 1 \/ (k - 1 \in 1..(l - 1) /\ Tail(wire)[k - 1] = wire[k])
  <2>1. wire # <<>>
    BY <1>4, <1>5
  <2>2. /\ Tail(wire) \in Seq(Message) /\ DOMAIN Tail(wire) = 1..(l - 1)
        /\ \A k \in 1..(l - 1) : Tail(wire)[k] = wire[k + 1]
    BY <1>4, <1>5, <2>1
  <2>3. /\ \A k \in 1..(l - 1) : k + 1 \in 1..l
        /\ \A k \in 1..l : k = 1 \/ (k - 1 \in 1..(l - 1) /\ (k - 1) + 1 = k)
    BY <1>4
  <2> QED
    BY <2>2, <2>3
<1>8. /\ u \in Visit /\ u.sock = "open" /\ u.run = e /\ u.wire = Tail(wire)
      /\ u.exec = visits[c].exec /\ u.events = visits[c].events /\ u.answer = visits[c].answer
      /\ u.snapshot = visits[c].snapshot /\ u.raced = visits[c].raced
  BY <1>2, <1>3, <1>5, <1>7 DEF Visit
<1> HIDE DEF u
<1>9. /\ visits' \in Seq(Visit) /\ Len(visits') = Len(visits) /\ Current' = Current
      /\ DOMAIN visits' = DOMAIN visits
      /\ \A v \in DOMAIN visits : visits'[v] = IF v = c THEN u ELSE visits[v]
  BY <1>6, <1>8, VisitChanged
<1>10. \A v \in DOMAIN visits :
          /\ visits'[v].run = visits[v].run /\ visits'[v].sock = visits[v].sock
          /\ visits'[v].exec = visits[v].exec /\ visits'[v].answer = visits[v].answer
          /\ visits'[v].events = visits[v].events /\ visits'[v].snapshot = visits[v].snapshot
          /\ visits'[v].raced = visits[v].raced
          /\ v # c => visits'[v].wire = visits[v].wire
          /\ v = c => visits'[v].wire = Tail(wire)
  BY <1>2, <1>5, <1>8, <1>9
<1>11. \A v \in DOMAIN visits : Due(v)' = Due(v)
  BY <1>6, <1>10 DEF Due
<1>12. PICK p \in Nat : p = Len(page.items) /\ DOMAIN page.items = 1..p
  <2>1. Len(page.items) \in Nat /\ DOMAIN page.items = 1..Len(page.items)
    BY Shapes
  <2> QED
    BY <2>1
<1>13. /\ x \in Item /\ x.run = e /\ x.row = wire[1].row /\ x.type = wire[1].type /\ x.by = c
       /\ page'.items \in Seq(Item) /\ DOMAIN page'.items = 1..(p + 1)
       /\ page'.items[p + 1] = x
       /\ \A k \in 1..p : page'.items[k] = page.items[k]
       /\ \A k \in 1..(p + 1) : k \in 1..p \/ k = p + 1
  <2>1. x \in Item
    BY <1>5 DEF Item, Message
  <2>2. page'.items = Append(page.items, x) /\ page.items \in Seq(Item)
    BY <1>6, Shapes
  <2>3. \A k \in 1..(p + 1) : k \in 1..p \/ k = p + 1
    OBVIOUS
  <2> HIDE DEF x
  <2>4. /\ page'.items \in Seq(Item) /\ DOMAIN page'.items = 1..(p + 1)
        /\ page'.items[p + 1] = x
        /\ \A k \in 1..p : page'.items[k] = page.items[k]
    BY <1>12, <2>1, <2>2
  <2> QED
    BY <2>1, <2>3, <2>4 DEF x
<1> HIDE DEF x
<1>14. IsRow(e, wire[1]) /\ \A k \in 1..l : IsRow(e, wire[k])
  BY <1>2, <1>3, <1>5 DEF WiresAreRows
<1>15. \A i \in 1..l, k \in 1..l : i < k => wire[i].row < wire[k].row
  BY <1>3, <1>5 DEF WiresRise
<1>16. wire[1].type \in Types /\ page.status \in Statuses
  BY <1>5, Shapes DEF Message
<1>17. page'.status = Shown(wire[1].type, page.status) /\ page'.status \in Statuses
  BY <1>6, <1>16, ShownShape
<1>18. TypeOK'
  <2>1. page' \in [items: Seq(Item), status: Statuses]
    BY <1>6, <1>13, <1>17
  <2> QED
    BY <1>6, <1>9, <2>1 DEF TypeOK
<1>19. RowsAreBounded' /\ HandlerIsTrue'
  BY <1>6, <1>9, <1>10 DEF RowsAreBounded, HandlerIsTrue, InStream, EventType, Last
<1>20. RegistryIsOpen' /\ ReadsAreBounded' /\ UnracedWaits'
  BY <1>5, <1>6, <1>9, <1>10 DEF RegistryIsOpen, ReadsAreBounded, UnracedWaits, Last
<1>21. ItemsAreOfVisits'
  <2>1. visits' # <<>>
    BY <1>1, <1>9
  <2>2. \A k \in 1..p : page'.items[k].by <= Current /\
            (page'.items[k].by = Current => page'.items[k].run = e)
    BY <1>1, <1>2, <1>12, <1>13 DEF ItemsAreOfVisits, Live
  <2>3. \A k \in 1..(p + 1) : page'.items[k].by <= Current /\
            (page'.items[k].by = Current => page'.items[k].run = e)
    BY <1>1, <1>5, <1>13, <2>2
  <2> QED
    BY <1>1, <1>2, <1>9, <1>10, <1>13, <2>1, <2>3 DEF ItemsAreOfVisits, Live
<1>22. ItemsAreRows'
  BY <1>6, <1>12, <1>13, <1>14 DEF ItemsAreRows, IsRow
<1>23. \A i \in 1..p : Live(i) => \A k \in 1..l : page.items[i].row < wire[k].row
  BY <1>1, <1>3, <1>5, <1>12 DEF ItemsBeforeWire
<1>24. ItemsRise'
  <2> SUFFICES ASSUME NEW i \in 1..(p + 1), NEW k \in 1..(p + 1), i < k,
                      page'.items[i].by = Current
               PROVE  page'.items[k].by = Current => page'.items[i].row < page'.items[k].row
    BY <1>9, <1>13 DEF ItemsRise, Live
  <2>1. i \in 1..p
    BY <1>12, <1>13
  <2>2. CASE k = p + 1
    BY <1>5, <1>13, <1>23, <2>1, <2>2 DEF Live
  <2>3. CASE k \in 1..p
    BY <1>12, <1>13, <2>1, <2>3 DEF ItemsRise, Live
  <2> QED
    BY <1>13, <2>2, <2>3
<1>25. ItemsBeforeWire'
  <2>1. ASSUME NEW i \in 1..(p + 1), NEW k \in 1..(l - 1), page'.items[i].by = Current
        PROVE  page'.items[i].row < Tail(wire)[k].row
    <3>1. Tail(wire)[k] = wire[k + 1] /\ k + 1 \in 1..l /\ 1 < k + 1
      BY <1>4, <1>7
    <3>2. CASE i = p + 1
      BY <1>5, <1>13, <1>15, <3>1, <3>2
    <3>3. CASE i \in 1..p
      BY <1>13, <1>23, <2>1, <3>1, <3>3 DEF Live
    <3> QED
      BY <1>13, <3>2, <3>3
  <2>2. DOMAIN visits'[c].wire = 1..(l - 1) /\ visits'[c].wire = Tail(wire)
    BY <1>7, <1>10
  <2> SUFFICES ASSUME NEW v \in DOMAIN visits', v = Current', NEW i \in DOMAIN page'.items,
                      NEW k \in DOMAIN visits'[v].wire, Live(i)'
               PROVE  page'.items[i].row < visits'[v].wire[k].row
    BY DEF ItemsBeforeWire
  <2>3. v = c /\ i \in 1..(p + 1) /\ k \in 1..(l - 1) /\ page'.items[i].by = Current
    BY <1>1, <1>9, <1>13, <2>2 DEF Live
  <2> QED
    BY <2>1, <2>2, <2>3
<1>26. WiresAreRows' /\ WiresRise'
  <2>1. \A k \in 1..(l - 1) : IsRow(e, Tail(wire)[k])
    BY <1>7, <1>14
  <2>2. \A i, k \in 1..(l - 1) : i < k => Tail(wire)[i].row < Tail(wire)[k].row
    <3> SUFFICES ASSUME NEW i \in 1..(l - 1), NEW k \in 1..(l - 1), i < k
                 PROVE  wire[i + 1].row < wire[k + 1].row
      BY <1>7
    <3>1. i + 1 \in 1..l /\ k + 1 \in 1..l /\ i + 1 < k + 1
      BY <1>4, <1>7
    <3> QED
      BY <1>15, <3>1
  <2>3. WiresAreRows'
    <3> SUFFICES ASSUME NEW v \in DOMAIN visits, NEW k \in DOMAIN visits'[v].wire
                 PROVE  IsRow(visits[v].run, visits'[v].wire[k])
      BY <1>6, <1>9, <1>10 DEF WiresAreRows, IsRow
    <3>1. CASE v # c
      BY <1>10, <3>1 DEF WiresAreRows
    <3>2. CASE v = c
      BY <1>2, <1>7, <1>10, <2>1, <3>2
    <3> QED
      BY <3>1, <3>2
  <2>4. WiresRise'
    BY <1>7, <1>9, <1>10, <2>2 DEF WiresRise
  <2> QED
    BY <2>3, <2>4
<1>27. FreshRowIsNew'
  <2> SUFFICES ASSUME NEW v \in DOMAIN visits, Due(v)
               PROVE  /\ \A k \in DOMAIN visits'[v].wire : visits'[v].wire[k].row < Last(visits[v].run)
                      /\ v = Current => \A k \in DOMAIN page'.items :
                             page'.items[k].by = Current => page'.items[k].row < Last(visits[v].run)
    BY <1>6, <1>9, <1>10, <1>11 DEF FreshRowIsNew, Live, Last
  <2>1. CASE v # c
    BY <1>1, <1>10, <2>1 DEF FreshRowIsNew
  <2>2. CASE v = c
    <3>1. \A k \in 1..l : wire[k].row < Last(e)
      BY <1>2, <1>3, <1>5, <2>2 DEF FreshRowIsNew
    <3>2. \A k \in 1..p : Live(k) => page.items[k].row < Last(e)
      BY <1>1, <1>2, <1>12, <2>2 DEF FreshRowIsNew
    <3>3. \A k \in 1..(p + 1) : page'.items[k].by = Current => page'.items[k].row < Last(e)
      BY <1>5, <1>13, <3>1, <3>2 DEF Live
    <3>4. \A k \in 1..(l - 1) : Tail(wire)[k].row < Last(e)
      BY <1>7, <3>1
    <3> QED
      BY <1>2, <1>7, <1>10, <1>13, <2>2, <3>3, <3>4
  <2> QED
    BY <2>1, <2>2
<1>28. ASSUME NEW v \in DOMAIN visits, NEW row, OnTheWay(v, row), v # c \/ row # wire[1].row
       PROVE  OnTheWay(v, row)'
  <2>1. CASE v # c
    BY <1>6, <1>10, <1>11, <1>28, <2>1 DEF OnTheWay, Last
  <2>2. CASE v = c /\ Due(c) /\ row = Last(e)
    BY <1>2, <1>6, <1>10, <1>11, <2>2 DEF OnTheWay, Last
  <2>3. CASE v = c /\ \E k \in DOMAIN visits[c].wire : visits[c].wire[k].row = row
    <3>1. PICK k \in 1..l : wire[k].row = row
      BY <1>3, <1>5, <2>3
    <3>2. k - 1 \in 1..(l - 1) /\ Tail(wire)[k - 1].row = row
      BY <1>7, <1>28, <2>3, <3>1
    <3>3. k - 1 \in DOMAIN visits'[c].wire /\ visits'[c].wire[k - 1].row = row
      BY <1>7, <1>10, <3>2
    <3> QED
      BY <2>3, <3>3 DEF OnTheWay
  <2> QED
    BY <1>2, <1>28, <2>1, <2>2, <2>3 DEF OnTheWay
<1>29. NoGaps'
  <2> SUFFICES ASSUME NEW v \in DOMAIN visits, NEW k \in DOMAIN visits'[v].wire,
                      NEW row \in visits'[v].wire[k].row..Last(visits[v].run)
               PROVE  OnTheWay(v, row)'
    BY <1>6, <1>9, <1>10 DEF NoGaps, Last
  <2>1. CASE v # c
    BY <1>10, <1>28, <2>1 DEF NoGaps
  <2>2. CASE v = c
    <3>1. k \in 1..(l - 1) /\ visits'[v].wire[k] = wire[k + 1] /\ k + 1 \in 1..l /\ 1 < k + 1
      BY <1>4, <1>7, <1>10, <2>2
    <3>2. OnTheWay(v, row)
      BY <1>2, <1>3, <1>5, <2>2, <3>1 DEF NoGaps
    <3>3. wire[1].row < wire[k + 1].row /\ wire[1].row \in Nat /\ wire[k + 1].row \in Nat
      <4>1. wire[k + 1] \in Message
        BY <1>3, <1>5, <3>1
      <4> QED
        BY <1>5, <1>15, <3>1, <4>1 DEF Message, Rows
    <3>4. row # wire[1].row
      BY <3>1, <3>3
    <3> QED
      BY <1>28, <3>2, <3>4
  <2> QED
    BY <2>1, <2>2
<1>30. Overtakes'
  <2>1. p + 1 \in DOMAIN page'.items /\ page'.items[p + 1].by = Current'
    BY <1>1, <1>9, <1>13
  <2> QED
    BY <2>1 DEF Overtakes
<1>31. RowsAreAccounted'
  <2> SUFFICES ASSUME Follows(c), visits[c].events = "done"
               PROVE  /\ \A k \in 1..(p + 1) : page'.items[k].run = e
                      /\ \A row \in 1..Last(e) :
                             \/ \E k \in 1..(p + 1) : page'.items[k].row = row
                             \/ OnTheWay(c, row)'
    BY <1>1, <1>2, <1>6, <1>9, <1>10, <1>13, <1>30 DEF RowsAreAccounted, Follows, Last
  <2>1. /\ \A k \in 1..p : page.items[k].run = e
        /\ \A row \in 1..Last(e) : (\E k \in 1..p : page.items[k].row = row) \/ OnTheWay(c, row)
    BY <1>2, <1>12 DEF RowsAreAccounted
  <2>2. \A k \in 1..(p + 1) : page'.items[k].run = e
    BY <1>13, <2>1
  <2>3. ASSUME NEW row \in 1..Last(e)
        PROVE  (\E k \in 1..(p + 1) : page'.items[k].row = row) \/ OnTheWay(c, row)'
    <3>1. CASE \E k \in 1..p : page.items[k].row = row
      <4>1. PICK k \in 1..p : page.items[k].row = row
        BY <3>1
      <4>2. k \in 1..(p + 1) /\ page'.items[k].row = row
        BY <1>13, <4>1
      <4> QED
        BY <4>2
    <3>2. CASE OnTheWay(c, row) /\ row # wire[1].row
      BY <1>28, <3>2
    <3>3. CASE row = wire[1].row
      <4>1. p + 1 \in 1..(p + 1)
        OBVIOUS
      <4> QED
        BY <1>13, <3>3, <4>1
    <3> QED
      BY <2>1, <3>1, <3>2, <3>3
  <2> QED
    BY <2>2, <2>3
<1>32. StatusIsLast'
  BY <1>6 DEF StatusIsLast, IsLastOwn
<1>33. StatusFollows'
  <2>1. ASSUME NEW v \in DOMAIN visits, v # c
        PROVE  ~ Follows(v)'
    BY <1>1, <1>9, <2>1 DEF Follows
  <2> SUFFICES ASSUME Follows(c), e \notin settled, ~ StatusIsDue(c)', visits[c].exec = "done"
               PROVE  page'.status = status[e]
    BY <1>1, <1>2, <1>6, <1>9, <1>10, <1>30, <2>1 DEF StatusFollows, Follows
  <2>2. \A k \in 1..l : k # 1 => wire[k].type = "job"
    <3>1. ASSUME NEW k \in 1..l, k # 1
          PROVE  wire[k].type = "job"
      <4>1. k - 1 \in DOMAIN visits'[c].wire /\ visits'[c].wire[k - 1] = wire[k]
        BY <1>7, <1>10, <3>1
      <4> QED
        BY <4>1 DEF StatusIsDue
    <3> QED
      BY <3>1
  <2>3. Due(c) => EventType(e) = "job"
    BY <1>2, <1>6, <1>10, <1>11 DEF StatusIsDue, EventType
  <2>4. CASE wire[1].type = "job"
    <3>1. ~ StatusIsDue(c)
      BY <1>2, <1>3, <1>5, <2>2, <2>3, <2>4 DEF StatusIsDue
    <3>2. page.status = status[e]
      BY <1>2, <3>1 DEF StatusFollows
    <3> QED
      BY <1>16, <1>17, <2>4, <3>2, ShownShape
  <2>5. CASE wire[1].type # "job"
    <3>1. ASSUME NEW i \in DOMAIN stored[e], wire[1].row < i
          PROVE  stored[e][i] = "job"
      <4>1. i \in wire[1].row..Last(e)
        BY <1>5, <3>1, Shapes DEF Message, Rows, Last
      <4>2. OnTheWay(c, i)
        BY <1>2, <1>3, <1>5, <4>1 DEF NoGaps
      <4>3. CASE Due(c) /\ i = Last(e)
        BY <1>2, <2>3, <4>3 DEF Due, HandlerIsTrue
      <4>4. CASE \E k \in DOMAIN visits[c].wire : visits[c].wire[k].row = i
        <5>1. PICK k \in 1..l : wire[k].row = i
          BY <1>3, <1>5, <4>4
        <5>2. k # 1
          BY <1>5, <3>1, <5>1 DEF Message, Rows
        <5> QED
          BY <1>14, <2>2, <5>1, <5>2 DEF IsRow
      <4> QED
        BY <1>2, <4>2, <4>3, <4>4 DEF OnTheWay
    <3>2. IsLastOwn(e, wire[1].row) /\ wire[1].row \in DOMAIN stored[e]
      BY <1>14, <2>5, <3>1 DEF IsLastOwn, IsRow
    <3>3. status[e] = Shown(wire[1].type, status[e]) /\ status[e] \in Statuses
      BY <1>14, <3>2 DEF StatusIsLast, IsRow, TypeOK
    <3> QED
      BY <1>16, <1>17, <2>5, <3>3, ShownShape
  <2> QED
    BY <2>4, <2>5
<1> QED
  BY <1>18, <1>19, <1>20, <1>21, <1>22, <1>24, <1>25, <1>26, <1>27, <1>29, <1>31, <1>32, <1>33

-----------------------------------------------------------------------------
(* Answers                                                                 *)

LEMMA RaceShape ==
    ASSUME TypeOK, NEW v \in DOMAIN visits, NEW one \in Visit, one.raced = visits[v].raced,
           one.run = visits[v].run, one.sock = visits[v].sock, one.wire = visits[v].wire,
           visits' = Race(v, one)
    PROVE  /\ visits' \in Seq(Visit) /\ Len(visits') = Len(visits) /\ Current' = Current
           /\ DOMAIN visits' = DOMAIN visits
           /\ \A w \in DOMAIN visits :
                  /\ visits'[w].run = visits[w].run /\ visits'[w].sock = visits[w].sock
                  /\ visits'[w].wire = visits[w].wire
                  /\ w # v => /\ visits'[w].exec = visits[w].exec
                              /\ visits'[w].answer = visits[w].answer
                              /\ visits'[w].events = visits[w].events
                              /\ visits'[w].snapshot = visits[w].snapshot
                  /\ w = v => /\ visits'[w].exec = one.exec /\ visits'[w].answer = one.answer
                              /\ visits'[w].events = one.events
                              /\ visits'[w].snapshot = one.snapshot
                  /\ w = Current /\ ~ visits'[w].raced =>
                         ~ visits[w].raced /\ ~ Overtakes /\ v = Current
<1> DEFINE mid == [visits EXCEPT ![v] = one]
<1>1. PICK c \in DOMAIN visits : c = Current
  BY Shapes DEF Current
<1>2. /\ mid \in Seq(Visit) /\ Len(mid) = Len(visits) /\ DOMAIN mid = DOMAIN visits
      /\ \A w \in DOMAIN visits : mid[w] = IF w = v THEN one ELSE visits[w]
  BY DEF TypeOK
<1> HIDE DEF mid
<1> DEFINE r == [mid[c] EXCEPT !.raced = @ \/ Overtakes \/ v # c]
<1>3. mid[c] \in Visit
  BY <1>1, <1>2, Shapes
<1>4. /\ r \in Visit /\ r.run = mid[c].run /\ r.sock = mid[c].sock /\ r.wire = mid[c].wire
      /\ r.exec = mid[c].exec /\ r.answer = mid[c].answer /\ r.events = mid[c].events
      /\ r.snapshot = mid[c].snapshot
      /\ ~ r.raced => ~ mid[c].raced /\ ~ Overtakes /\ v = c
  BY <1>3 DEF Visit
<1>5. visits' = [mid EXCEPT ![c] = r]
  BY <1>1 DEF Race, mid
<1> HIDE DEF r
<1>6. /\ visits' \in Seq(Visit) /\ Len(visits') = Len(visits) /\ DOMAIN visits' = DOMAIN visits
      /\ \A w \in DOMAIN visits : visits'[w] = IF w = c THEN r ELSE mid[w]
  BY <1>1, <1>2, <1>4, <1>5
<1>7. Current' = Current
  BY <1>6 DEF Current
<1> QED
  BY <1>1, <1>2, <1>4, <1>6, <1>7

LEMMA AnswerExecutionInv ==
    ASSUME IInv, NEW v \in DOMAIN visits, AnswerExecution(v)
    PROVE  IInv'
<1> USE DEF IInv
<1> DEFINE one == [visits[v] EXCEPT !.exec = "done", !.answer = "pending"]
<1>1. /\ UNCHANGED <<acked, stored, status, settled, handler, registry, faults>>
      /\ visits[v].exec = "answered"
      /\ visits' = Race(v, one)
      /\ page' = [page EXCEPT !.status = visits[v].answer]
  BY DEF AnswerExecution, database
<1>2. /\ one \in Visit /\ one.raced = visits[v].raced /\ one.run = visits[v].run
      /\ one.sock = visits[v].sock /\ one.wire = visits[v].wire
      /\ one.events = visits[v].events /\ one.snapshot = visits[v].snapshot
      /\ one.exec = "done" /\ visits[v].answer \in Statuses
  BY Shapes DEF Visit, Statuses
<1> HIDE DEF one
<1>3. /\ visits' \in Seq(Visit) /\ Len(visits') = Len(visits) /\ Current' = Current
      /\ DOMAIN visits' = DOMAIN visits
      /\ \A w \in DOMAIN visits :
             /\ visits'[w].run = visits[w].run /\ visits'[w].sock = visits[w].sock
             /\ visits'[w].wire = visits[w].wire /\ visits'[w].events = visits[w].events
             /\ visits'[w].snapshot = visits[w].snapshot
             /\ w # v => visits'[w].exec = visits[w].exec /\ visits'[w].answer = visits[w].answer
             /\ w = v => visits'[w].exec = "done"
             /\ w = Current /\ ~ visits'[w].raced =>
                    ~ visits[w].raced /\ ~ Overtakes /\ v = Current
  BY <1>1, <1>2, RaceShape
<1>4. page'.items = page.items /\ page'.status = visits[v].answer
      /\ page' \in [items: Seq(Item), status: Statuses]
  BY <1>1, <1>2 DEF TypeOK
<1>5. \A w \in DOMAIN visits : Due(w)' = Due(w)
  BY <1>1, <1>3 DEF Due
<1>6. TypeOK'
  BY <1>1, <1>3, <1>4 DEF TypeOK
<1>7. RowsAreBounded' /\ HandlerIsTrue'
  BY <1>1, <1>3 DEF RowsAreBounded, HandlerIsTrue, InStream, EventType, Last
<1>8. RegistryIsOpen' /\ ReadsAreBounded' /\ UnracedWaits'
  BY <1>1, <1>3 DEF RegistryIsOpen, ReadsAreBounded, UnracedWaits, Last
<1>9. ItemsAreOfVisits'
  <2>1. visits # <<>> => Current \in DOMAIN visits
    BY Shapes DEF Current
  <2>2. visits' = <<>> => visits = <<>>
    BY <1>3, Shapes
  <2> QED
    BY <1>3, <1>4, <2>1, <2>2, Shapes DEF ItemsAreOfVisits, Live
<1>10. ItemsAreRows' /\ ItemsRise' /\ StatusIsLast'
  BY <1>1, <1>3, <1>4 DEF ItemsAreRows, IsRow, ItemsRise, Live, StatusIsLast, IsLastOwn
<1>11. WiresAreRows' /\ WiresRise' /\ ItemsBeforeWire'
  BY <1>1, <1>3, <1>4 DEF WiresAreRows, IsRow, WiresRise, ItemsBeforeWire, Live
<1>12. FreshRowIsNew'
  BY <1>1, <1>3, <1>4, <1>5 DEF FreshRowIsNew, Live, Last
<1>13. \A w, row : w \in DOMAIN visits /\ OnTheWay(w, row) => OnTheWay(w, row)'
  BY <1>1, <1>3, <1>5 DEF OnTheWay, Last
<1>14. NoGaps'
  BY <1>1, <1>3, <1>13 DEF NoGaps, Last
<1>15. RowsAreAccounted'
  <2>1. Overtakes' = Overtakes
    BY <1>3, <1>4 DEF Overtakes
  <2> QED
    BY <1>1, <1>3, <1>4, <1>13, <2>1 DEF RowsAreAccounted, Follows, Last
<1>16. StatusFollows'
  <2> SUFFICES ASSUME NEW w \in DOMAIN visits, Follows(w)', visits[w].run \notin settled,
                      ~ StatusIsDue(w)'
               PROVE  /\ visits'[w].exec # "answered"
                      /\ visits[v].answer = status[visits[w].run]
    BY <1>1, <1>3, <1>4 DEF StatusFollows
  <2>1. w = v /\ Follows(w) /\ ~ Overtakes
    BY <1>3 DEF Follows
  <2>2. ~ StatusIsDue(w)
    BY <1>1, <1>3, <1>5 DEF StatusIsDue, EventType
  <2> QED
    BY <1>1, <1>3, <2>1, <2>2 DEF StatusFollows
<1> QED
  BY <1>6, <1>7, <1>8, <1>9, <1>10, <1>11, <1>12, <1>14, <1>15, <1>16

LEMMA AnswerEventsInv ==
    ASSUME IInv, NEW v \in DOMAIN visits, AnswerEvents(v)
    PROVE  IInv'
<1> USE DEF IInv
<1> DEFINE one == [visits[v] EXCEPT !.events = "done", !.snapshot = 0]
<1>1. /\ UNCHANGED <<acked, stored, status, settled, handler, registry, faults>>
      /\ visits[v].events = "answered"
      /\ visits' = Race(v, one)
      /\ page' = [page EXCEPT !.items = Snapshot(v)]
  BY DEF AnswerEvents, database
<1>2. /\ one \in Visit /\ one.raced = visits[v].raced /\ one.run = visits[v].run
      /\ one.sock = visits[v].sock /\ one.wire = visits[v].wire
      /\ one.exec = visits[v].exec /\ one.answer = visits[v].answer
      /\ one.events = "done" /\ one.snapshot = 0
  BY Shapes DEF Visit
<1> HIDE DEF one
<1>3. /\ visits' \in Seq(Visit) /\ Len(visits') = Len(visits) /\ Current' = Current
      /\ DOMAIN visits' = DOMAIN visits
      /\ \A w \in DOMAIN visits :
             /\ visits'[w].run = visits[w].run /\ visits'[w].sock = visits[w].sock
             /\ visits'[w].wire = visits[w].wire /\ visits'[w].exec = visits[w].exec
             /\ visits'[w].answer = visits[w].answer
             /\ w # v => /\ visits'[w].events = visits[w].events
                         /\ visits'[w].snapshot = visits[w].snapshot
             /\ w = v => visits'[w].events = "done" /\ visits'[w].snapshot = 0
             /\ w = Current /\ ~ visits'[w].raced =>
                    ~ visits[w].raced /\ ~ Overtakes /\ v = Current
  BY <1>1, <1>2, RaceShape
<1>4. PICK e \in Runs : e = visits[v].run
  BY Shapes
<1>5. PICK n : n = visits[v].snapshot
  OBVIOUS
<1>6. n \in Nat /\ n <= Last(e) /\ DOMAIN stored[e] = 1..Last(e) /\ Last(e) \in Nat
      /\ n \in Rows \cup {0} /\ \A k \in 1..n : k \in DOMAIN stored[e] /\ k \in Rows
  <2>1. n \in Rows \cup {0}
    BY <1>5, Shapes DEF Visit
  <2>2. n \in Nat /\ n <= Last(e)
    BY <1>4, <1>5, <2>1 DEF ReadsAreBounded, Rows
  <2>3. DOMAIN stored[e] = 1..Last(e) /\ Last(e) \in Nat /\ DOMAIN stored[e] \subseteq Rows
    BY <1>4, Shapes DEF Last, TypeOK
  <2>4. 1..n \subseteq 1..Last(e)
    BY <2>2, <2>3
  <2> QED
    BY <2>1, <2>2, <2>3, <2>4
<1> DEFINE x(k) == [run |-> e, row |-> k, type |-> stored[e][k], by |-> 0]
<1>7. \A k \in 1..n : /\ x(k) \in Item /\ x(k).run = e /\ x(k).row = k
                      /\ x(k).type = stored[e][k] /\ x(k).by = 0
  BY <1>6, BoundsAssumption, Shapes DEF Item
<1>8. Snapshot(v) = [k \in 1..n |-> x(k)]
  BY <1>4, <1>5 DEF Snapshot
<1> HIDE DEF x
<1>9. /\ page' \in [items: Seq(Item), status: Statuses] /\ page'.status = page.status
      /\ DOMAIN page'.items = 1..n
      /\ \A k \in 1..n : /\ page'.items[k].run = e /\ page'.items[k].row = k
                         /\ page'.items[k].type = stored[e][k] /\ page'.items[k].by = 0
  <2>1. Snapshot(v) \in Seq(Item) /\ DOMAIN Snapshot(v) = 1..n
    BY <1>6, <1>7, <1>8
  <2>2. page'.items = Snapshot(v) /\ page'.status = page.status
        /\ page' \in [items: Seq(Item), status: Statuses]
    BY <1>1, <2>1 DEF TypeOK
  <2> QED
    BY <1>7, <1>8, <2>1, <2>2
<1>10. Current \in Nat /\ Current # 0
  BY Shapes
<1>11. \A k \in DOMAIN page'.items : ~ (page'.items[k].by = Current) /\ page'.items[k].by <= Current
  BY <1>9, <1>10
<1>12. \A w \in DOMAIN visits : Due(w)' = Due(w)
  BY <1>1, <1>3 DEF Due
<1>13. TypeOK'
  BY <1>1, <1>3, <1>9 DEF TypeOK
<1>14. RowsAreBounded' /\ HandlerIsTrue'
  BY <1>1, <1>3 DEF RowsAreBounded, HandlerIsTrue, InStream, EventType, Last
<1>15. RegistryIsOpen' /\ UnracedWaits'
  BY <1>1, <1>3 DEF RegistryIsOpen, UnracedWaits
<1>16. ReadsAreBounded'
  BY <1>1, <1>3, Shapes DEF ReadsAreBounded, Last
<1>17. ItemsAreOfVisits'
  <2>1. visits' # <<>>
    BY <1>3, <1>10 DEF Current
  <2> QED
    BY <1>3, <1>11, <2>1 DEF ItemsAreOfVisits, Live
<1>18. ItemsAreRows'
  BY <1>1, <1>6, <1>9 DEF ItemsAreRows, IsRow
<1>19. ItemsRise' /\ ItemsBeforeWire'
  BY <1>3, <1>11 DEF ItemsRise, ItemsBeforeWire, Live
<1>20. WiresAreRows' /\ WiresRise' /\ StatusIsLast'
  BY <1>1, <1>3 DEF WiresAreRows, IsRow, WiresRise, StatusIsLast, IsLastOwn
<1>21. FreshRowIsNew'
  BY <1>1, <1>3, <1>11, <1>12 DEF FreshRowIsNew, Live, Last
<1>22. \A w, row : w \in DOMAIN visits /\ OnTheWay(w, row) => OnTheWay(w, row)'
  BY <1>1, <1>3, <1>12 DEF OnTheWay, Last
<1>23. NoGaps'
  BY <1>1, <1>3, <1>22 DEF NoGaps, Last
<1>24. \A w \in DOMAIN visits : Follows(w)' => w = v /\ Follows(w) /\ ~ Overtakes
  BY <1>3 DEF Follows
<1>25. RowsAreAccounted'
  <2> SUFFICES ASSUME Follows(v), ~ Overtakes, NEW row \in 1..Last(e)
               PROVE  (\E k \in 1..n : page'.items[k].row = row) \/ OnTheWay(v, row)'
    BY <1>1, <1>3, <1>4, <1>9, <1>24 DEF RowsAreAccounted, Last
  <2>1. row <= n \/ OnTheWay(v, row)
    BY <1>1, <1>4, <1>5 DEF RowsAreAccounted
  <2>2. row <= n => row \in 1..n
    BY <1>6
  <2> QED
    BY <1>9, <1>22, <2>1, <2>2
<1>26. StatusFollows'
  <2> SUFFICES ASSUME NEW w \in DOMAIN visits, Follows(w)', visits[w].run \notin settled,
                      ~ StatusIsDue(w)'
               PROVE  /\ visits[w].exec = "answered" => visits[w].answer = status[visits[w].run]
                      /\ visits[w].exec = "done" => page.status = status[visits[w].run]
    BY <1>1, <1>3, <1>9 DEF StatusFollows
  <2>1. Follows(w) /\ ~ Overtakes
    BY <1>24
  <2>2. ~ StatusIsDue(w)
    BY <1>1, <1>3, <1>12 DEF StatusIsDue, EventType
  <2> QED
    BY <2>1, <2>2 DEF StatusFollows
<1> QED
  BY <1>13, <1>14, <1>15, <1>16, <1>17, <1>18, <1>19, <1>20, <1>21, <1>23, <1>25, <1>26

-----------------------------------------------------------------------------
(* The theorems                                                            *)

LEMMA InitInv == Init => IInv
<1> SUFFICES ASSUME Init PROVE IInv
  OBVIOUS
<1> USE DEF Init
<1>1. <<>> \in Seq(Types) /\ <<>> \in Seq(Visit) /\ <<>> \in Seq(Item) /\ DOMAIN <<>> = {}
  OBVIOUS
<1>2. TypeOK
  BY <1>1, ScriptAssumption, BoundsAssumption DEF TypeOK, Statuses
<1>3. RowsAreBounded
  BY BoundsAssumption DEF RowsAreBounded, Last
<1>4. HandlerIsTrue /\ RegistryIsOpen /\ ReadsAreBounded /\ UnracedWaits /\ NoGaps
  BY <1>1 DEF HandlerIsTrue, RegistryIsOpen, ReadsAreBounded, UnracedWaits, NoGaps
<1>5. ItemsAreOfVisits /\ ItemsAreRows /\ WiresAreRows /\ ItemsRise /\ WiresRise /\ ItemsBeforeWire
  BY <1>1 DEF ItemsAreOfVisits, ItemsAreRows, WiresAreRows, ItemsRise, WiresRise, ItemsBeforeWire
<1>6. FreshRowIsNew /\ RowsAreAccounted /\ StatusFollows /\ StatusIsLast
  BY <1>1 DEF FreshRowIsNew, RowsAreAccounted, StatusFollows, StatusIsLast
<1> QED
  BY <1>2, <1>3, <1>4, <1>5, <1>6 DEF IInv

LEMMA StepInvariant == IInv /\ [Next]_vars => IInv'
<1> SUFFICES ASSUME IInv, [Next]_vars
             PROVE  IInv'
  OBVIOUS
<1>1. ASSUME NEW e \in Runs, Settle(e) \/ Open(e) \/ Navigate(e)
      PROVE  IInv'
  BY <1>1, SettleInv, OpenInv, NavigateInv
<1>2. CASE Subscriber
  BY <1>2, PersistInv, PersistFailsInv, BroadcastInv, AckInv, ReconnectInv, RestartInv, SendInv DEF Subscriber
<1>3. CASE Receive
  BY <1>3, ReceiveInv
<1>4. ASSUME NEW v \in DOMAIN visits, Socket(v)
      PROVE  IInv'
  BY <1>4, ConnectInv, NoticeClosedInv, SocketBreaksInv DEF Socket
<1>5. ASSUME NEW v \in DOMAIN visits, Request(v)
      PROVE  IInv'
  BY <1>5, ReadExecutionInv, ReadEventsInv, RequestFailsInv DEF Request
<1>6. ASSUME NEW v \in DOMAIN visits, Effect(v)
      PROVE  IInv'
  BY <1>6, AnswerExecutionInv, AnswerEventsInv DEF Effect
<1>7. CASE UNCHANGED vars
  <2>1. /\ UNCHANGED <<acked, stored, status, settled, handler, registry, visits, page, faults>>
    BY <1>7 DEF vars
  <2>2. ShownInv'
    BY <2>1, NothingShownChanges DEF DueShrinks, DueStays, Due, EventType, database
  <2>3. TypeOK' /\ RowsAreBounded' /\ HandlerIsTrue' /\ RegistryIsOpen'
    BY <2>1 DEF IInv, TypeOK, RowsAreBounded, HandlerIsTrue, RegistryIsOpen, Last, InStream,
       EventType
  <2> QED
    BY <2>2, <2>3 DEF IInv, ShownInv
<1> QED
  BY <1>1, <1>2, <1>3, <1>4, <1>5, <1>6, <1>7 DEF Next

LEMMA Invariant == Spec => []IInv
  BY InitInv, StepInvariant, PTL DEF Spec

(* Subscriber, sockets, requests and page keep every variable in its type; *)
(* above all the rows stay within their bound, however often the           *)
(* subscriber is restarted between storing an event and acknowledging it.  *)
THEOREM TypeCorrect == Spec => []TypeOK
<1>1. IInv => TypeOK
  BY DEF IInv
<1> QED
  BY <1>1, Invariant, PTL

(* Persist first, then broadcast, one event at a time (_handle_message):   *)
(* what a page shows, or a socket brings, is committed; and the live items *)
(* rise by id, each row once, whatever is restarted, delivered again,      *)
(* dropped or overtaken.                                                   *)
THEOREM ShownIsStored == Spec => []ShownRowsAreStored
<1>1. IInv => ShownRowsAreStored
  <2> SUFFICES ASSUME IInv PROVE ShownRowsAreStored
    OBVIOUS
  <2>1. visits # <<>> => Current \in DOMAIN visits
    BY Shapes DEF IInv, Current
  <2> QED
    BY <2>1 DEF IInv, ShownRowsAreStored, ItemsAreRows, WiresAreRows, ItemsRise, WiresRise,
       ItemsBeforeWire, IsRow, Live
<1> QED
  BY <1>1, Invariant, PTL

(* A page at rest whose socket is open, and whose answers met neither an   *)
(* earlier live event nor a socket that was not registered yet, shows all  *)
(* that is stored of its execution, nothing else, and its status: an event *)
(* reaches the page in an answer or over the socket (ExecutionDetail.tsx). *)
THEOREM PageIsComplete == Spec => []QuietPageIsComplete
<1>1. IInv => QuietPageIsComplete
  <2> SUFFICES ASSUME IInv, NEW v \in DOMAIN visits, v = Current, AtRest(visits[v]),
                      ~ visits[v].raced
               PROVE  /\ {page.items[k].row : k \in DOMAIN page.items} = DOMAIN stored[visits[v].run]
                      /\ \A k \in DOMAIN page.items : page.items[k].run = visits[v].run
                      /\ visits[v].run \notin settled => page.status = status[visits[v].run]
    BY DEF QuietPageIsComplete
  <2>1. Follows(v) /\ visits[v].events = "done" /\ visits[v].exec = "done"
    BY DEF Follows, AtRest
  <2>2. \A row : ~ OnTheWay(v, row)
    BY DEF AtRest, OnTheWay, Due
  <2>3. ~ StatusIsDue(v)
    BY DEF AtRest, StatusIsDue, Due
  <2>4. DOMAIN stored[visits[v].run] = 1..Last(visits[v].run)
    BY Shapes DEF IInv, Last
  <2>5. /\ \A k \in DOMAIN page.items : page.items[k].run = visits[v].run
        /\ \A row \in 1..Last(visits[v].run) : \E k \in DOMAIN page.items : page.items[k].row = row
    BY <2>1, <2>2 DEF IInv, RowsAreAccounted
  <2>6. \A k \in DOMAIN page.items : page.items[k].row \in DOMAIN stored[visits[v].run]
    BY <2>5 DEF IInv, ItemsAreRows, IsRow
  <2>7. visits[v].run \notin settled => page.status = status[visits[v].run]
    BY <2>1, <2>3 DEF IInv, StatusFollows
  <2> QED
    BY <2>4, <2>5, <2>6, <2>7
<1> QED
  BY <1>1, Invariant, PTL
=============================================================================
