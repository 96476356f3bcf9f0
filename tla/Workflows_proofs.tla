-------------------------- MODULE Workflows_proofs --------------------------
(***************************************************************************)
(* Theorems about Workflows, for any sets of workflows, clients and cron   *)
(* expressions and any number of versions and faults.                      *)
(*                                                                         *)
(* Every request acts on what it read before it took a lock.  The          *)
(* inductive invariant says what a request may still rely on: that its     *)
(* workflow exists (or does not yet, for a creation), that a flushed       *)
(* creation or version number is the only one of its kind, and, of a       *)
(* request that was alone on its workflow, that nothing changed since.     *)
(***************************************************************************)
EXTENDS Workflows, FiniteSetTheorems, TLAPS

Pending(c) == req[c] # Idle
Flushed(c) == req[c].at \in {"sync", "commit"}

OneRow == \A v, w \in Workflows : rows[v] # NoRow /\ rows[w] # NoRow => v = w

(* What a request read that cannot have changed since. *)
RequestsKnowRows ==
    \A c \in Clients : Pending(c) =>
        /\ req[c].op = "create" =>
            /\ rows[req[c].w] = NoRow
            /\ req[c].dirty /\ ~req[c].row.deleted
            /\ req[c].row.active = 1 /\ req[c].version.number = 1
        /\ req[c].op # "create" =>
            /\ rows[req[c].w] # NoRow
            /\ req[c].row.trigger = rows[req[c].w].trigger
        /\ req[c].op = "add" => ~req[c].dirty /\ req[c].at # "sync"
        /\ req[c].op = "activate" => req[c].row.active \in NumbersOf(req[c].w)

(* The unique name: a creation past its flush finds no workflow and is     *)
(* alone with its lock.                                                    *)
FlushedCreates ==
    \A c \in Clients : Flushed(c) /\ req[c].op = "create" =>
        /\ \A w \in Workflows : rows[w] = NoRow
        /\ \A d \in Clients : Flushed(d) /\ req[d].op = "create" => d = c

(* The unique version number: an addition past its flush has the next one, *)
(* and no other has it too.                                                *)
FlushedAdds ==
    \A c \in Clients : Pending(c) /\ req[c].op = "add" =>
        /\ req[c].version.number <= Cardinality(versions[req[c].w]) + 1
        /\ req[c].at = "commit" =>
            /\ req[c].version.number = Cardinality(versions[req[c].w]) + 1
            /\ \A d \in Clients :
                req[d].at = "commit" /\ req[d].op = "add" /\ req[d].w = req[c].w => d = c

VersionsBelongToRows ==
    \A w \in Workflows :
        /\ IsFiniteSet(versions[w])
        /\ rows[w] = NoRow => versions[w] = {}

(* Two requests on one workflow know of each other, and a creation is      *)
(* never one of them.                                                      *)
OverlapsAreNoticed ==
    \A c, d \in Clients :
        c # d /\ Pending(c) /\ Pending(d) /\ req[c].w = req[d].w
            => c \in overlapped /\ req[c].op # "create"

(* A workflow that is not cron has no schedule, nor has one that is being  *)
(* created and was not yet synchronized.                                   *)
OnlyCronsAreScheduled ==
    /\ \A w \in Workflows :
        rows[w] # NoRow /\ rows[w].trigger \notin Crons => sched[w] = NoSchedule
    /\ \A c \in Clients :
        Pending(c) /\ req[c].op = "create"
        /\ (req[c].at # "commit" \/ req[c].row.trigger \notin Crons)
            => sched[req[c].w] = NoSchedule

(* A request that was alone on its workflow holds the row it will leave,   *)
(* and has brought the schedule in agreement with it.                      *)
SoloRequestsAreCurrent ==
    \A c \in Clients :
        Pending(c) /\ c \notin overlapped /\ req[c].op # "add" =>
            /\ Written(req[c], rows[req[c].w]) = req[c].row
            /\ req[c].row.deleted <=> req[c].op = "delete"
            /\ req[c].at = "commit" /\ Upserts(req[c])
                => sched[req[c].w] = Upserted(req[c])
            /\ req[c].at = "commit" /\ Pauses(req[c])
                => sched[req[c].w] = NoSchedule \/ sched[req[c].w].paused

IInv ==
    /\ TypeOK
    /\ OneRow
    /\ RequestsKnowRows
    /\ FlushedCreates
    /\ FlushedAdds
    /\ VersionsBelongToRows
    /\ VersionsAreGapless
    /\ OverlapsAreNoticed
    /\ OnlyCronsAreScheduled
    /\ SoloRequestsAreCurrent

-----------------------------------------------------------------------------
(* The operators.                                                          *)

LEMMA RowsAreNotNoRow == NoRow \notin Row
  BY DEF Row, NoRow

LEMMA SchedulesAreNotNoSchedule == NoSchedule \notin Schedule
  BY DEF Schedule, NoSchedule

(* What a request in progress carries. *)
LEMMA RequestShape ==
    ASSUME TypeOK, NEW c \in Clients
    PROVE  /\ Pending(c) <=> req[c].at \in {"flush", "sync", "commit"}
           /\ Pending(c) => /\ req[c] \in Request
                            /\ req[c].w \in Workflows /\ req[c].row \in Row
                            /\ req[c].version \in Version /\ req[c].op \in Ops
                            /\ req[c].dirty \in BOOLEAN
           /\ Flushed(c) => Pending(c)
<1>1. req[c] \in Request \/ req[c] = Idle
  BY DEF TypeOK
<1> QED
  BY <1>1 DEF Request, Idle, Pending, Flushed

LEMMA GotoRequest ==
    ASSUME TypeOK, NEW c \in Clients, NEW r, Goto(c, r)
    PROVE  /\ \A d \in Clients : req'[d] = IF d = c THEN r ELSE req[d]
           /\ r \in Request \cup {Idle} => req' \in [Clients -> Request \cup {Idle}]
BY DEF TypeOK, Goto

(* A request that goes on to a next stage keeps what it carries. *)
LEMMA StageShape ==
    ASSUME TypeOK, NEW c \in Clients, Pending(c), NEW s \in {"flush", "sync", "commit"}
    PROVE  LET r == [req[c] EXCEPT !.at = s] IN
           /\ r \in Request /\ r.at = s /\ r # Idle
           /\ r.op = req[c].op /\ r.w = req[c].w /\ r.row = req[c].row
           /\ r.dirty = req[c].dirty /\ r.version = req[c].version
BY RequestShape DEF Request, Idle

LEMMA FaultCounted ==
    ASSUME TypeOK, Fault
    PROVE  faults' \in 0..MaxFaults /\ faults' # faults
BY MaxFaultsAssumption DEF TypeOK, Fault

(* Without a gap in the numbers, the next one is the number of versions    *)
(* plus one.                                                               *)
LEMMA NextNumber ==
    ASSUME TypeOK, NEW w \in Workflows, IsFiniteSet(versions[w]),
           NumbersOf(w) = 1..Cardinality(versions[w])
    PROVE  NextVersionNumber(w) = Cardinality(versions[w]) + 1
<1> DEFINE K == Cardinality(versions[w])
           IsNext(n) == /\ \A m \in NumbersOf(w) : m < n
                        /\ n # 1 => n - 1 \in NumbersOf(w)
<1>1. K \in Nat
  BY FS_CardinalityType
<1>2. K <= MaxVersions
  <2>1. NumbersOf(w) \subseteq Numbers
    BY DEF NumbersOf, TypeOK, Version
  <2>2. K # 0 => K \in Numbers
    BY <1>1, <2>1
  <2> QED
    BY <1>1, <2>2, MaxVersionsAssumption DEF Numbers
<1> HIDE DEF K
<1>3. K + 1 \in 1..(MaxVersions + 1) /\ IsNext(K + 1)
  BY <1>1, <1>2, MaxVersionsAssumption DEF K
<1>4. \A n \in 1..(MaxVersions + 1) : IsNext(n) => n = K + 1
  BY <1>1, <1>2, MaxVersionsAssumption DEF K
<1>5. NextVersionNumber(w) = CHOOSE n \in 1..(MaxVersions + 1) : IsNext(n)
  BY DEF NextVersionNumber
<1> HIDE DEF IsNext
<1> QED
  BY <1>3, <1>4, <1>5 DEF K

(* A version with the next number joins the others. *)
LEMMA VersionAdded ==
    ASSUME NEW S \in SUBSET Version, IsFiniteSet(S),
           {v.number : v \in S} = 1..Cardinality(S),
           NEW v \in Version, v.number = Cardinality(S) + 1
    PROVE  /\ IsFiniteSet(S \cup {v})
           /\ Cardinality(S \cup {v}) = Cardinality(S) + 1
           /\ {u.number : u \in S \cup {v}} = 1..Cardinality(S \cup {v})
<1>1. Cardinality(S) \in Nat
  BY FS_CardinalityType
<1>2. v \notin S
  <2> SUFFICES ASSUME v \in S PROVE FALSE
    OBVIOUS
  <2>1. v.number \in 1..Cardinality(S)
    OBVIOUS
  <2> QED
    BY <1>1, <2>1
<1>3. IsFiniteSet(S \cup {v}) /\ Cardinality(S \cup {v}) = Cardinality(S) + 1
  BY <1>2, FS_AddElement
<1>4. {u.number : u \in S \cup {v}} = (1..Cardinality(S)) \cup {Cardinality(S) + 1}
  OBVIOUS
<1>5. (1..Cardinality(S)) \cup {Cardinality(S) + 1} = 1..(Cardinality(S) + 1)
  BY <1>1
<1> QED
  BY <1>3, <1>4, <1>5

-----------------------------------------------------------------------------
(* Reading: a request begins.                                              *)

(* What Begin's callers know of the request they build. *)
Sound(op, w, row, dirty, version) ==
    /\ op \in Ops /\ row \in Row /\ dirty \in BOOLEAN /\ version \in Version
    /\ op = "create" =>
        /\ rows[w] = NoRow /\ sched[w] = NoSchedule
        /\ dirty /\ ~row.deleted /\ row.active = 1 /\ version.number = 1
    /\ op # "create" => rows[w] # NoRow /\ row.trigger = rows[w].trigger
    /\ op = "add" => ~dirty /\ version.number = Cardinality(versions[w]) + 1
    /\ op = "activate" => row.active \in NumbersOf(w)
    /\ op # "add" =>
        /\ Written([op |-> op, at |-> "flush", w |-> w, row |-> row, dirty |-> dirty,
                    version |-> version], rows[w]) = row
        /\ row.deleted <=> op = "delete"

LEMMA BeginKeeps ==
    ASSUME IInv, NEW c \in Clients, NEW w \in Workflows,
           NEW op, NEW row, NEW dirty, NEW version,
           Begin(c, op, w, row, dirty, version), Sound(op, w, row, dirty, version),
           op = "create" => Others(c, w) = {}
    PROVE  IInv'
<1> DEFINE r == [op |-> op, at |-> "flush", w |-> w, row |-> row, dirty |-> dirty,
                 version |-> version]
<1> USE DEF IInv
<1>1. /\ ~Pending(c) /\ Goto(c, r) /\ UNCHANGED <<rows, versions, sched, faults>>
      /\ overlapped' = IF Others(c, w) = {} THEN overlapped \ {c}
                       ELSE overlapped \cup {c} \cup Others(c, w)
  BY DEF Begin, Pending
<1>2. /\ r \in Request /\ r # Idle /\ r.op = op /\ r.at = "flush" /\ r.w = w /\ r.row = row
      /\ r.dirty = dirty /\ r.version = version
  BY DEF Sound, Request, Idle
<1> HIDE DEF r
<1>3. \A d \in Clients : req'[d] = IF d = c THEN r ELSE req[d]
  BY <1>1, GotoRequest
<1>4. TypeOK'
  <2>1. req' \in [Clients -> Request \cup {Idle}]
    BY <1>1, <1>2, GotoRequest
  <2>2. overlapped' \subseteq Clients
    BY <1>1 DEF Others, TypeOK
  <2> QED
    BY <1>1, <2>1, <2>2 DEF TypeOK
<1>5. \A d \in Clients : d \in overlapped /\ d # c => d \in overlapped'
  BY <1>1
<1>6. \A d \in Clients : (Pending(d))' <=> Pending(d) \/ d = c
  BY <1>2, <1>3 DEF Pending
<1>7. \A d \in Clients : (Flushed(d))' <=> Flushed(d) /\ d # c
  BY <1>1, <1>2, <1>3, RequestShape DEF Flushed, Pending
<1>8. OneRow' /\ VersionsBelongToRows' /\ VersionsAreGapless'
  BY <1>1 DEF OneRow, VersionsBelongToRows, VersionsAreGapless, NumbersOf
<1>9. RequestsKnowRows'
  BY <1>1, <1>2, <1>3, <1>6 DEF RequestsKnowRows, Sound, NumbersOf
<1>10. FlushedCreates'
  BY <1>1, <1>3, <1>7 DEF FlushedCreates
<1>11. FlushedAdds'
  <2>1. Cardinality(versions[w]) \in Nat
    BY FS_CardinalityType DEF VersionsBelongToRows
  <2> SUFFICES ASSUME NEW d \in Clients, Pending(d)', req'[d].op = "add"
               PROVE  /\ req'[d].version.number <= Cardinality(versions[req'[d].w]) + 1
                      /\ req'[d].at = "commit" =>
                          /\ req'[d].version.number = Cardinality(versions[req'[d].w]) + 1
                          /\ \A e \in Clients : req'[e].at = "commit" /\ req'[e].op = "add"
                                                /\ req'[e].w = req'[d].w => e = d
    BY <1>1 DEF FlushedAdds
  <2>2. CASE d = c
    BY <1>2, <1>3, <2>1, <2>2 DEF Sound
  <2>3. CASE d # c
    BY <1>2, <1>3, <1>6, <2>3 DEF FlushedAdds
  <2> QED
    BY <2>2, <2>3
<1>12. OverlapsAreNoticed'
  <2> SUFFICES ASSUME NEW d \in Clients, NEW e \in Clients, d # e, Pending(d)', Pending(e)',
                      req'[d].w = req'[e].w
               PROVE  d \in overlapped' /\ req'[d].op # "create"
    BY DEF OverlapsAreNoticed
  <2>1. CASE d # c /\ e # c
    BY <1>3, <1>5, <1>6, <2>1 DEF OverlapsAreNoticed
  <2>2. CASE d = c \/ e = c
    <3>1. PICK x \in Clients : {d, e} = {c, x} /\ x # c
      BY <2>2
    <3>2. x \in Others(c, w)
      BY <1>2, <1>3, <1>6, <3>1 DEF Others, Pending
    <3>3. d \in overlapped' /\ op # "create"
      BY <1>1, <3>1, <3>2
    <3>4. rows[w] # NoRow /\ req[x].w = w /\ Pending(x)
      BY <3>2, <3>3 DEF Sound, Others, Pending
    <3>5. req[x].op # "create"
      BY <3>4 DEF RequestsKnowRows
    <3> QED
      BY <1>2, <1>3, <3>1, <3>3, <3>5
  <2> QED
    BY <2>1, <2>2
<1>13. OnlyCronsAreScheduled'
  BY <1>1, <1>2, <1>3, <1>6 DEF OnlyCronsAreScheduled, Sound
<1>14. SoloRequestsAreCurrent'
  <2> SUFFICES ASSUME NEW d \in Clients, Pending(d)', d \notin overlapped', req'[d].op # "add"
               PROVE  /\ Written(req'[d], rows[req'[d].w]) = req'[d].row
                      /\ req'[d].row.deleted <=> req'[d].op = "delete"
                      /\ req'[d].at = "commit" /\ Upserts(req'[d])
                           => sched[req'[d].w] = Upserted(req'[d])
                      /\ req'[d].at = "commit" /\ Pauses(req'[d])
                           => sched[req'[d].w] = NoSchedule \/ sched[req'[d].w].paused
    BY <1>1 DEF SoloRequestsAreCurrent, Upserts, Pauses, Upserted, Written
  <2>1. CASE d = c
    BY <1>2, <1>3, <2>1 DEF Sound, r
  <2>2. CASE d # c
    BY <1>3, <1>5, <1>6, <2>2 DEF SoloRequestsAreCurrent
  <2> QED
    BY <2>1, <2>2
<1> QED
  BY <1>4, <1>8, <1>9, <1>10, <1>11, <1>12, <1>13, <1>14

LEMMA BeginsKeep ==
    ASSUME IInv, NEW c \in Clients, NEW w \in Workflows,
           \/ \E t \in Triggers : BeginCreate(c, w, t) \/ BeginAdd(c, w, t)
           \/ \E n \in Numbers : BeginActivate(c, w, n)
           \/ \E enabled \in BOOLEAN : BeginSetEnabled(c, w, enabled)
           \/ BeginDelete(c, w)
    PROVE  IInv'
<1> USE DEF IInv
<1>1. ASSUME Live(w) PROVE rows[w] # NoRow /\ rows[w] \in Row /\ rows[w].deleted = FALSE
  BY <1>1 DEF Live, TypeOK, Row
<1>2. 1 \in Numbers
  BY MaxVersionsAssumption DEF Numbers
<1>3. NoVersion \in Version
  BY <1>2 DEF NoVersion, Version, Triggers
<1>4. ASSUME NEW t \in Triggers, BeginCreate(c, w, t) PROVE IInv'
  <2> DEFINE row == [trigger |-> t, enabled |-> TRUE, deleted |-> FALSE, active |-> 1]
             version == [number |-> 1, trigger |-> t]
  <2>1. row \in Row /\ version \in Version
    BY <1>2 DEF Row, Version
  <2>2. Sound("create", w, row, TRUE, version)
    BY <1>4, <2>1 DEF BeginCreate, Sound, Ops, Written
  <2> QED
    BY <1>4, <2>2, BeginKeeps DEF BeginCreate
<1>5. ASSUME NEW t \in Triggers, BeginAdd(c, w, t) PROVE IInv'
  <2> DEFINE version == [number |-> NextVersionNumber(w), trigger |-> t]
  <2>1. version \in Version /\ NextVersionNumber(w) = Cardinality(versions[w]) + 1
    BY <1>5, NextNumber DEF BeginAdd, Version, VersionsAreGapless, VersionsBelongToRows
  <2>2. Sound("add", w, rows[w], FALSE, version)
    BY <1>1, <1>5, <2>1 DEF BeginAdd, Sound, Ops
  <2>3. Begin(c, "add", w, rows[w], FALSE, version)
    BY <1>5 DEF BeginAdd
  <2> HIDE DEF version
  <2> QED
    BY <2>2, <2>3, BeginKeeps
<1>6. ASSUME NEW n \in Numbers, BeginActivate(c, w, n) PROVE IInv'
  <2> DEFINE row == [rows[w] EXCEPT !.active = n]
  <2>1. /\ row \in Row /\ row.trigger = rows[w].trigger /\ row.active = n
        /\ row.deleted = FALSE /\ rows[w] # NoRow /\ n \in NumbersOf(w)
    BY <1>1, <1>6 DEF BeginActivate, Change, Row
  <2>2. Sound("activate", w, row, row # rows[w], NoVersion)
    BY <1>1, <1>3, <2>1 DEF Sound, Ops, Written
  <2> QED
    BY <1>6, <2>2, BeginKeeps DEF BeginActivate, Change
<1>7. ASSUME NEW enabled \in BOOLEAN, BeginSetEnabled(c, w, enabled) PROVE IInv'
  <2> DEFINE row == [rows[w] EXCEPT !.enabled = enabled]
  <2>1. /\ row \in Row /\ row.trigger = rows[w].trigger /\ row.enabled = enabled
        /\ row.deleted = FALSE /\ rows[w] # NoRow
    BY <1>1, <1>7 DEF BeginSetEnabled, Change, Row
  <2>2. Sound("enable", w, row, row # rows[w], NoVersion)
    BY <1>1, <1>3, <2>1 DEF Sound, Ops, Written
  <2> QED
    BY <1>7, <2>2, BeginKeeps DEF BeginSetEnabled, Change
<1>8. CASE BeginDelete(c, w)
  <2> DEFINE row == [rows[w] EXCEPT !.deleted = TRUE]
  <2>1. /\ row \in Row /\ row.trigger = rows[w].trigger
        /\ row.deleted = TRUE /\ rows[w] # NoRow
    BY <1>1, <1>8 DEF BeginDelete, Change, Row
  <2>2. Sound("delete", w, row, row # rows[w], NoVersion)
    BY <1>1, <1>3, <2>1 DEF Sound, Ops, Written
  <2> QED
    BY <1>8, <2>2, BeginKeeps DEF BeginDelete, Change
<1> QED
  BY <1>4, <1>5, <1>6, <1>7, <1>8

-----------------------------------------------------------------------------
(* The steps of a request.                                                 *)

(* A request that leaves does not disturb the others. *)
LEMMA LeavesKeep ==
    ASSUME IInv, TypeOK', NEW c \in Clients, Goto(c, Idle),
           UNCHANGED <<rows, versions, sched, overlapped>>
    PROVE  IInv'
<1> USE DEF IInv
<1>1. /\ \A d \in Clients : req'[d] = IF d = c THEN Idle ELSE req[d]
      /\ \A d \in Clients : Pending(d)' => Pending(d) /\ d # c
      /\ \A d \in Clients : Flushed(d)' => Flushed(d) /\ d # c
  BY GotoRequest DEF Pending, Flushed, Idle
<1>2. OneRow' /\ VersionsBelongToRows' /\ VersionsAreGapless'
  BY DEF OneRow, VersionsBelongToRows, VersionsAreGapless, NumbersOf
<1>3. RequestsKnowRows'
  BY <1>1 DEF RequestsKnowRows, NumbersOf
<1>4. FlushedCreates'
  BY <1>1 DEF FlushedCreates
<1>5. FlushedAdds'
  BY <1>1 DEF FlushedAdds, Idle
<1>6. OverlapsAreNoticed'
  BY <1>1 DEF OverlapsAreNoticed
<1>7. OnlyCronsAreScheduled' /\ SoloRequestsAreCurrent'
  BY <1>1 DEF OnlyCronsAreScheduled, SoloRequestsAreCurrent
<1> QED
  BY <1>2, <1>3, <1>4, <1>5, <1>6, <1>7

LEMMA RollBackKeeps ==
    ASSUME IInv, NEW c \in Clients, RollBack(c)
    PROVE  IInv'
<1>1. TypeOK'
  BY FaultCounted, GotoRequest DEF RollBack, TypeOK, IInv
<1> QED
  BY <1>1, LeavesKeep DEF RollBack

(* A request that goes on to its next stage; what it will have to show     *)
(* there holds.                                                            *)
LEMMA StageKeeps ==
    ASSUME IInv, NEW c \in Clients, Pending(c), NEW s \in {"sync", "commit"},
           Goto(c, [req[c] EXCEPT !.at = s]),
           TypeOK', UNCHANGED <<rows, versions>>,
           overlapped \subseteq overlapped',
           \A w \in Workflows : w # req[c].w => sched'[w] = sched[w],
           \A d \in Clients : d # c /\ Pending(d) /\ d \notin overlapped' =>
                req[d].w # req[c].w,
           req[c].op = "create" => s = "sync" \/ req[c].at = "sync",
           req[c].op = "add" => req[c].at = "flush" /\ s = "commit" /\ sched' = sched,
           req[c].at = "flush" => ~Blocked(c) /\ ~Taken(req[c]) /\ sched' = sched,
           req[c].at = "flush" /\ req[c].op # "add" => s = "sync",
           req[c].at # "flush" => req[c].at = "sync" /\ s = "commit",
           req[c].row.trigger \notin Crons => sched' = sched,
           s = "commit" /\ c \notin overlapped' /\ req[c].op # "add" =>
                /\ Upserts(req[c]) => sched'[req[c].w] = Upserted(req[c])
                /\ Pauses(req[c]) => sched'[req[c].w] = NoSchedule \/ sched'[req[c].w].paused
    PROVE  IInv'
<1> DEFINE r == [req[c] EXCEPT !.at = s]
<1> USE DEF IInv
<1>1. /\ r \in Request /\ r # Idle /\ r.at = s
      /\ r.op = req[c].op /\ r.w = req[c].w /\ r.row = req[c].row
      /\ r.dirty = req[c].dirty /\ r.version = req[c].version
  <2>1. s \in {"flush", "sync", "commit"}
    OBVIOUS
  <2> QED
    BY <2>1, StageShape
<1> HIDE DEF r
<1>2. \A d \in Clients : req'[d] = IF d = c THEN r ELSE req[d]
  BY GotoRequest DEF r
<1>3. /\ \A d \in Clients : Pending(d)' <=> Pending(d)
      /\ \A d \in Clients : Flushed(d)' <=> Flushed(d) \/ d = c
  BY <1>1, <1>2 DEF Pending, Flushed
<1>4. OneRow' /\ VersionsBelongToRows' /\ VersionsAreGapless'
  BY DEF OneRow, VersionsBelongToRows, VersionsAreGapless, NumbersOf
<1>5. RequestsKnowRows'
  BY <1>1, <1>2, <1>3 DEF RequestsKnowRows, NumbersOf
<1>6. FlushedCreates'
  <2> SUFFICES ASSUME NEW d \in Clients, Flushed(d)', req'[d].op = "create"
               PROVE  /\ \A w \in Workflows : rows[w] = NoRow
                      /\ \A e \in Clients : Flushed(e)' /\ req'[e].op = "create" => e = d
    BY DEF FlushedCreates
  <2>1. CASE Flushed(c) \/ req[c].op # "create"
    BY <1>1, <1>2, <1>3, <2>1 DEF FlushedCreates
  <2>2. CASE ~Flushed(c) /\ req[c].op = "create"
    <3>1. req[c].at = "flush" /\ ~Blocked(c) /\ ~Taken(req[c])
      BY <2>2, RequestShape DEF Flushed
    <3>2. \A w \in Workflows : rows[w] = NoRow
      BY <2>2, <3>1 DEF Taken
    <3>3. \A e \in Clients : e # c /\ Flushed(e) => req[e].op # "create"
      BY <2>2, <3>1 DEF Blocked, Excludes, Flushed
    <3> QED
      BY <1>1, <1>2, <1>3, <3>2, <3>3
  <2> QED
    BY <2>1, <2>2
<1>7. FlushedAdds'
  <2>1. CASE req[c].op # "add"
    BY <1>1, <1>2, <1>3, <2>1 DEF FlushedAdds
  <2>2. CASE req[c].op = "add"
    <3> DEFINE n == Cardinality(versions[req[c].w]) + 1
    <3>1. req[c].at = "flush" /\ ~Blocked(c) /\ ~Taken(req[c]) /\ req[c].w \in Workflows
      BY <2>2, RequestShape
    <3>2. /\ req[c].version.number \in Nat /\ req[c].version.number >= 1
          /\ req[c].version.number \notin 1..Cardinality(versions[req[c].w])
      <4>1. req[c].version.number \in Numbers
        BY RequestShape DEF Version
      <4>2. NumbersOf(req[c].w) = 1..Cardinality(versions[req[c].w])
        BY <3>1 DEF VersionsAreGapless
      <4>3. req[c].version.number \notin NumbersOf(req[c].w)
        BY <2>2, <3>1 DEF Taken
      <4> QED
        BY <4>1, <4>2, <4>3, MaxVersionsAssumption DEF Numbers
    <3>3. Cardinality(versions[req[c].w]) \in Nat
      BY <3>1, FS_CardinalityType DEF VersionsBelongToRows
    <3>4. req[c].version.number = n
      BY <2>2, <3>2, <3>3 DEF FlushedAdds
    <3>5. \A e \in Clients : e # c /\ req[e].at = "commit" /\ req[e].op = "add" =>
              req[e].w # req[c].w
      <4> SUFFICES ASSUME NEW e \in Clients, e # c, req[e].at = "commit", req[e].op = "add",
                          req[e].w = req[c].w
                   PROVE  FALSE
        OBVIOUS
      <4>1. req[e].version.number = n
        BY RequestShape DEF FlushedAdds
      <4> QED
        BY <2>2, <3>1, <3>4, <4>1 DEF Blocked, Excludes
    <3> SUFFICES ASSUME NEW d \in Clients, Pending(d)', req'[d].op = "add"
                 PROVE  /\ req'[d].version.number <= Cardinality(versions[req'[d].w]) + 1
                        /\ req'[d].at = "commit" =>
                            /\ req'[d].version.number = Cardinality(versions[req'[d].w]) + 1
                            /\ \A e \in Clients : req'[e].at = "commit" /\ req'[e].op = "add"
                                                  /\ req'[e].w = req'[d].w => e = d
      BY DEF FlushedAdds
    <3>6. CASE d = c
      BY <1>1, <1>2, <3>3, <3>4, <3>5, <3>6
    <3>7. CASE d # c
      BY <1>1, <1>2, <1>3, <3>5, <3>7 DEF FlushedAdds
    <3> QED
      BY <3>6, <3>7
  <2> QED
    BY <2>1, <2>2
<1>8. OverlapsAreNoticed'
  BY <1>1, <1>2, <1>3 DEF OverlapsAreNoticed
<1>9. OnlyCronsAreScheduled'
  <2>1. \A w \in Workflows : rows[w] # NoRow /\ rows[w].trigger \notin Crons => sched'[w] = NoSchedule
    <3> SUFFICES ASSUME NEW w \in Workflows, rows[w] # NoRow, rows[w].trigger \notin Crons
                 PROVE  sched'[w] = NoSchedule
      OBVIOUS
    <3>1. sched[w] = NoSchedule
      BY DEF OnlyCronsAreScheduled
    <3>2. CASE req[c].w # w
      BY <3>1, <3>2
    <3>3. CASE req[c].w = w
      BY <3>1, <3>3 DEF RequestsKnowRows
    <3> QED
      BY <3>2, <3>3
  <2>2. ASSUME NEW d \in Clients, Pending(d)', req'[d].op = "create",
               req'[d].at # "commit" \/ req'[d].row.trigger \notin Crons
        PROVE  sched'[req'[d].w] = NoSchedule
    <3>1. CASE d = c
      BY <1>1, <1>2, <2>2, <3>1 DEF OnlyCronsAreScheduled
    <3>2. CASE d # c
      <4>1. req[d].w # req[c].w /\ req[d].w \in Workflows /\ Pending(d)
        BY <1>2, <1>3, <2>2, <3>2, RequestShape DEF OverlapsAreNoticed
      <4> QED
        BY <1>2, <2>2, <3>2, <4>1 DEF OnlyCronsAreScheduled
    <3> QED
      BY <3>1, <3>2
  <2> QED
    BY <2>1, <2>2 DEF OnlyCronsAreScheduled
<1>10. SoloRequestsAreCurrent'
  <2> SUFFICES ASSUME NEW d \in Clients, Pending(d)', d \notin overlapped', req'[d].op # "add"
               PROVE  /\ Written(req'[d], rows[req'[d].w]) = req'[d].row
                      /\ req'[d].row.deleted <=> req'[d].op = "delete"
                      /\ req'[d].at = "commit" /\ Upserts(req'[d])
                           => sched'[req'[d].w] = Upserted(req'[d])
                      /\ req'[d].at = "commit" /\ Pauses(req'[d])
                           => sched'[req'[d].w] = NoSchedule \/ sched'[req'[d].w].paused
    BY DEF SoloRequestsAreCurrent
  <2>1. CASE d = c
    <3>1. /\ Written(req[c], rows[req[c].w]) = req[c].row
          /\ req[c].row.deleted <=> req[c].op = "delete"
      BY <1>1, <1>2, <2>1 DEF SoloRequestsAreCurrent
    <3>2. /\ Written(r, rows[r.w]) = Written(req[c], rows[req[c].w])
          /\ Upserts(r) = Upserts(req[c]) /\ Pauses(r) = Pauses(req[c])
          /\ Upserted(r) = Upserted(req[c])
      BY <1>1 DEF Written, Upserts, Pauses, Upserted
    <3> QED
      BY <1>1, <1>2, <2>1, <3>1, <3>2
  <2>2. CASE d # c
    <3>1. req[d].w # req[c].w /\ req[d].w \in Workflows /\ Pending(d) /\ req'[d] = req[d]
      BY <1>2, <1>3, <2>2, RequestShape
    <3> QED
      BY <2>2, <3>1 DEF SoloRequestsAreCurrent
  <2> QED
    BY <2>1, <2>2
<1> QED
  BY <1>4, <1>5, <1>6, <1>7, <1>8, <1>9, <1>10

LEMMA FlushKeeps ==
    ASSUME IInv, NEW c \in Clients, Flush(c)
    PROVE  IInv'
<1> USE DEF IInv
<1>1. /\ req[c].at = "flush" /\ ~Blocked(c) /\ Pending(c)
      /\ UNCHANGED <<rows, versions, sched, faults, overlapped>>
  BY RequestShape DEF Flush
<1>2. CASE Taken(req[c])
  <2>1. Goto(c, Idle)
    BY <1>2 DEF Flush
  <2>2. TypeOK'
    BY <1>1, <2>1, GotoRequest DEF TypeOK
  <2> QED
    BY <1>1, <2>1, <2>2, LeavesKeep
<1>3. CASE ~Taken(req[c])
  <2> DEFINE s == IF req[c].op = "add" THEN "commit" ELSE "sync"
  <2>1. Goto(c, [req[c] EXCEPT !.at = s]) /\ s \in {"sync", "commit"}
    BY <1>3 DEF Flush
  <2> HIDE DEF s
  <2>2. [req[c] EXCEPT !.at = s] \in Request
    BY <1>1, <2>1, StageShape
  <2>3. TypeOK'
    BY <1>1, <2>1, <2>2, GotoRequest DEF TypeOK
  <2>4. \A d \in Clients : d # c /\ Pending(d) /\ d \notin overlapped' => req[d].w # req[c].w
    BY <1>1 DEF OverlapsAreNoticed
  <2>5. s = "commit" <=> req[c].op = "add"
    BY DEF s
  <2> QED
    BY <1>1, <1>3, <2>1, <2>3, <2>4, <2>5, StageKeeps
<1> QED
  BY <1>2, <1>3

LEMMA SyncShape ==
    ASSUME IInv, NEW c \in Clients, Sync(c)
    PROVE  /\ sched' \in [Workflows -> Schedule \cup {NoSchedule}]
           /\ \A w \in Workflows : w # req[c].w => sched'[w] = sched[w]
           /\ req[c].row.trigger \notin Crons => sched' = sched
           /\ Upserts(req[c]) => sched'[req[c].w] = Upserted(req[c])
           /\ Pauses(req[c]) => sched'[req[c].w] = NoSchedule \/ sched'[req[c].w].paused
<1> USE DEF IInv
<1> DEFINE r == req[c]
           new == IF Upserts(r) THEN Upserted(r)
                  ELSE IF Pauses(r) THEN Paused(r.w) ELSE sched[r.w]
<1>1. /\ r \in Request /\ Pending(c) /\ r.w \in Workflows /\ r.row \in Row
      /\ sched' = [sched EXCEPT ![r.w] = new]
  BY RequestShape DEF Sync
<1>2. sched[r.w] \in Schedule \cup {NoSchedule}
  BY <1>1 DEF TypeOK
<1>3. Upserts(r) => Upserted(r) \in Schedule
  BY <1>1 DEF Upserts, Upserted, Schedule, Row
<1>4. /\ sched[r.w] = NoSchedule => Paused(r.w) = NoSchedule
      /\ sched[r.w] # NoSchedule => Paused(r.w) \in Schedule /\ Paused(r.w).paused
  BY <1>2 DEF Paused, Schedule
<1>5. r.row.trigger \notin Crons => new = sched[r.w]
  <2> SUFFICES ASSUME r.row.trigger \notin Crons, Pauses(r) PROVE sched[r.w] = NoSchedule
    BY <1>4 DEF Upserts
  <2>1. r.op = "delete"
    BY DEF Pauses
  <2> QED
    BY <1>1, <2>1 DEF RequestsKnowRows, OnlyCronsAreScheduled
<1>6. /\ Upserts(r) => new = Upserted(r)
      /\ Pauses(r) => new = Paused(r.w)
      /\ new \in Schedule \cup {NoSchedule}
  BY <1>2, <1>3, <1>4 DEF Upserts, Pauses
<1> HIDE DEF new
<1> QED
  BY <1>1, <1>2, <1>4, <1>5, <1>6 DEF TypeOK

LEMMA SyncKeeps ==
    ASSUME IInv, NEW c \in Clients, Sync(c)
    PROVE  IInv'
<1> USE DEF IInv
<1>1. /\ req[c].at = "sync" /\ Pending(c) /\ Goto(c, [req[c] EXCEPT !.at = "commit"])
      /\ UNCHANGED <<rows, versions, faults, overlapped>>
  BY RequestShape DEF Sync
<1>2. TypeOK'
  <2>1. [req[c] EXCEPT !.at = "commit"] \in Request
    BY <1>1, StageShape
  <2>2. req' \in [Clients -> Request \cup {Idle}]
    BY <1>1, <2>1, GotoRequest
  <2> QED
    BY <1>1, <2>2, SyncShape DEF TypeOK
<1>3. \A d \in Clients : d # c /\ Pending(d) /\ d \notin overlapped' => req[d].w # req[c].w
  BY <1>1 DEF OverlapsAreNoticed
<1>4. req[c].op # "add"
  BY <1>1 DEF RequestsKnowRows
<1> QED
  BY <1>1, <1>2, <1>3, <1>4, SyncShape, StageKeeps

LEMMA PauseFailsKeeps ==
    ASSUME IInv, NEW c \in Clients, PauseFails(c)
    PROVE  IInv'
<1> USE DEF IInv
<1>1. /\ req[c].at = "sync" /\ Pending(c) /\ Goto(c, [req[c] EXCEPT !.at = "commit"])
      /\ UNCHANGED <<rows, versions, sched>> /\ overlapped' = overlapped \cup {c}
  BY RequestShape DEF PauseFails
<1>2. TypeOK'
  <2>1. [req[c] EXCEPT !.at = "commit"] \in Request
    BY <1>1, StageShape
  <2>2. req' \in [Clients -> Request \cup {Idle}]
    BY <1>1, <2>1, GotoRequest
  <2> QED
    BY <1>1, <2>2, FaultCounted DEF PauseFails, TypeOK
<1>3. \A d \in Clients : d # c /\ Pending(d) /\ d \notin overlapped' => req[d].w # req[c].w
  BY <1>1 DEF OverlapsAreNoticed
<1>4. req[c].op # "add"
  BY <1>1 DEF RequestsKnowRows
<1> QED
  BY <1>1, <1>2, <1>3, <1>4, StageKeeps

-----------------------------------------------------------------------------
(* The commit.                                                             *)

(* The UPDATE of a request touches the attribute its operation is about. *)
LEMMA WrittenShape ==
    ASSUME IInv, NEW c \in Clients, Pending(c), req[c].op # "create"
    PROVE  LET old == rows[req[c].w]
               new == Written(req[c], old)
           IN  /\ old \in Row /\ new \in Row /\ new.trigger = old.trigger
               /\ old.deleted => new.deleted
               /\ new.active = old.active \/ new.active \in NumbersOf(req[c].w)
               /\ req[c].op = "add" => new = old
               /\ \/ \E n \in Numbers : new = [old EXCEPT !.active = n]
                  \/ \E b \in BOOLEAN : new = [old EXCEPT !.enabled = b]
                  \/ new = [old EXCEPT !.deleted = TRUE]
<1> USE DEF IInv
<1> DEFINE r == req[c]
           old == rows[r.w]
           new == Written(r, old)
<1>1. r \in Request /\ r.row \in Row /\ r.op \in Ops /\ r.w \in Workflows
  BY RequestShape
<1>2. old \in Row
  BY <1>1 DEF RequestsKnowRows, TypeOK
<1>3. CASE ~r.dirty
  <2>1. new = old /\ old = [old EXCEPT !.active = old.active] /\ old.active \in Numbers
    BY <1>2, <1>3 DEF Written, Row
  <2> QED
    BY <1>2, <2>1
<1>4. CASE r.dirty /\ r.op = "activate"
  <2>1. new = [old EXCEPT !.active = r.row.active] /\ r.row.active \in Numbers
    BY <1>1, <1>4 DEF Written, Row
  <2>2. r.row.active \in NumbersOf(r.w)
    BY <1>4 DEF RequestsKnowRows
  <2>3. new \in Row /\ new.trigger = old.trigger /\ new.deleted = old.deleted /\ new.active = r.row.active
    BY <1>2, <2>1 DEF Row
  <2> QED
    BY <1>2, <1>4, <2>1, <2>2, <2>3
<1>5. CASE r.dirty /\ r.op = "enable"
  <2>1. new = [old EXCEPT !.enabled = r.row.enabled] /\ r.row.enabled \in BOOLEAN
    BY <1>1, <1>5 DEF Written, Row
  <2>2. new \in Row /\ new.trigger = old.trigger /\ new.deleted = old.deleted /\ new.active = old.active
    BY <1>2, <2>1 DEF Row
  <2> QED
    BY <1>2, <1>5, <2>1, <2>2
<1>6. CASE r.dirty /\ r.op = "delete"
  <2>1. new = [old EXCEPT !.deleted = TRUE]
    BY <1>6 DEF Written
  <2>2. new \in Row /\ new.trigger = old.trigger /\ new.deleted /\ new.active = old.active
    BY <1>2, <2>1 DEF Row
  <2> QED
    BY <1>2, <1>6, <2>1, <2>2
<1>7. r.op = "add" => ~r.dirty
  BY DEF RequestsKnowRows
<1> QED
  BY <1>1, <1>3, <1>4, <1>5, <1>6, <1>7 DEF Ops

(* What the commit of a request does. *)
Commits(c) ==
    /\ Pending(c) /\ Flushed(c) /\ req[c].at = "commit" /\ req[c].w \in Workflows
    /\ \A d \in Clients : req'[d] = IF d = c THEN Idle ELSE req[d]
    /\ \A d \in Clients : Pending(d)' => Pending(d) /\ d # c
    /\ \A d \in Clients : Flushed(d)' => Flushed(d) /\ d # c
    /\ \A w \in Workflows : rows'[w] =
         IF w = req[c].w THEN Written(req[c], rows[w]) ELSE rows[w]
    /\ \A w \in Workflows : versions'[w] =
         IF w = req[c].w /\ req[c].op \in {"create", "add"}
         THEN versions[w] \cup {req[c].version} ELSE versions[w]
    /\ UNCHANGED <<sched, faults, overlapped>>
    /\ req' \in [Clients -> Request \cup {Idle}]
    /\ versions' \in [Workflows -> SUBSET Version]

LEMMA CommitShape ==
    ASSUME IInv, NEW c \in Clients, Commit(c)
    PROVE  Commits(c)
<1> USE DEF IInv
<1>1. Pending(c) /\ Flushed(c) /\ req[c].w \in Workflows /\ req[c].version \in Version
  BY RequestShape DEF Commit, Flushed
<1>2. /\ \A d \in Clients : req'[d] = IF d = c THEN Idle ELSE req[d]
      /\ req' \in [Clients -> Request \cup {Idle}]
  BY GotoRequest DEF Commit
<1>3. /\ \A d \in Clients : Pending(d)' => Pending(d) /\ d # c
      /\ \A d \in Clients : Flushed(d)' => Flushed(d) /\ d # c
  BY <1>2 DEF Pending, Flushed, Idle
<1>4. \A w \in Workflows : rows'[w] =
        IF w = req[c].w THEN Written(req[c], rows[w]) ELSE rows[w]
  BY <1>1 DEF Commit, TypeOK
<1>5. /\ \A w \in Workflows : versions'[w] =
            IF w = req[c].w /\ req[c].op \in {"create", "add"}
            THEN versions[w] \cup {req[c].version} ELSE versions[w]
      /\ versions' \in [Workflows -> SUBSET Version]
  BY <1>1 DEF Commit, TypeOK
<1> QED
  BY <1>1, <1>2, <1>3, <1>4, <1>5 DEF Commit, Commits

(* A creation becomes the only workflow, with its first version. *)
LEMMA CommitCreateKeeps ==
    ASSUME IInv, NEW c \in Clients, Commit(c), req[c].op = "create"
    PROVE  IInv'
<1>0. Commits(c)
  BY CommitShape
<1> USE <1>0 DEF IInv, Commits
<1> DEFINE r == req[c]
           w == r.w
<1>1. /\ \A v \in Workflows : rows[v] = NoRow
      /\ r.dirty /\ r.row.active = 1 /\ r.version.number = 1 /\ r.op = "create"
      /\ w \in Workflows /\ versions[w] = {}
      /\ r.row \in Row /\ r.version \in Version
  BY RequestShape DEF FlushedCreates, RequestsKnowRows, VersionsBelongToRows
<1>2. /\ rows'[w] = r.row /\ rows'[w] # NoRow
      /\ \A v \in Workflows : v # w => rows'[v] = NoRow
      /\ rows' \in [Workflows -> Row \cup {NoRow}]
  <2>1. Written(r, rows[w]) = r.row
    BY <1>1 DEF Written
  <2>2. rows' = [rows EXCEPT ![w] = Written(r, rows[w])]
    BY DEF Commit
  <2> QED
    BY <1>1, <2>1, <2>2, RowsAreNotNoRow DEF TypeOK
<1>3. /\ versions'[w] = {r.version} /\ \A v \in Workflows : v # w => versions'[v] = versions[v]
  <2>1. versions'[w] = versions[w] \cup {r.version}
    BY <1>1
  <2> QED
    BY <1>1, <2>1
<1>4. TypeOK'
  BY <1>2 DEF TypeOK
<1>5. IsFiniteSet({r.version}) /\ Cardinality({r.version}) = 1
  BY FS_Singleton
<1>6. OneRow' /\ VersionsBelongToRows'
  BY <1>2, <1>3, <1>5 DEF OneRow, VersionsBelongToRows
<1>7. VersionsAreGapless'
  <2> SUFFICES ASSUME NEW v \in Workflows
               PROVE  /\ {u.number : u \in versions'[v]} = 1..Cardinality(versions'[v])
                      /\ rows'[v] # NoRow => rows'[v].active \in {u.number : u \in versions'[v]}
    BY DEF VersionsAreGapless, NumbersOf
  <2>1. CASE v = w
    <3>1. {u.number : u \in {r.version}} = {1}
      BY <1>1
    <3>2. versions'[v] = {r.version} /\ rows'[v].active = 1
      BY <1>1, <1>2, <1>3, <2>1
    <3>3. 1..1 = {1}
      OBVIOUS
    <3> QED
      BY <1>5, <3>1, <3>2, <3>3
  <2>2. CASE v # w
    BY <1>2, <1>3, <2>2 DEF VersionsAreGapless, NumbersOf
  <2> QED
    BY <2>1, <2>2
<1>8. \A d \in Clients : Pending(d)' =>
          req'[d] = req[d] /\ req[d].op = "create" /\ req[d].w # w /\ req[d].w \in Workflows
  BY <1>1, RequestShape DEF RequestsKnowRows, OverlapsAreNoticed
<1>9. RequestsKnowRows'
  BY <1>2, <1>8 DEF RequestsKnowRows
<1>10. FlushedCreates'
  BY DEF FlushedCreates
<1>11. FlushedAdds'
  BY <1>8 DEF FlushedAdds
<1>12. OverlapsAreNoticed'
  BY DEF OverlapsAreNoticed
<1>13. OnlyCronsAreScheduled'
  BY <1>1, <1>2, <1>8 DEF OnlyCronsAreScheduled
<1>14. SoloRequestsAreCurrent'
  BY <1>1, <1>2, <1>8 DEF SoloRequestsAreCurrent
<1> QED
  BY <1>4, <1>6, <1>7, <1>9, <1>10, <1>11, <1>12, <1>13, <1>14

(* What a commit leaves to the requests on other workflows. *)
LEMMA CommitAddKeeps ==
    ASSUME IInv, NEW c \in Clients, Commit(c), req[c].op = "add"
    PROVE  IInv'
<1>0. Commits(c)
  BY CommitShape
<1> USE <1>0 DEF IInv, Commits
<1> DEFINE r == req[c]
           w == r.w
<1>1. /\ rows' = rows /\ rows[w] # NoRow /\ w \in Workflows /\ r.version \in Version
      /\ r.op = "add" /\ r.version.number = Cardinality(versions[w]) + 1
  <2>1. w \in Workflows /\ r.version \in Version /\ rows[w] # NoRow
    BY RequestShape DEF RequestsKnowRows
  <2>2. Written(r, rows[w]) = rows[w]
    BY WrittenShape
  <2>3. rows' = [rows EXCEPT ![w] = Written(r, rows[w])]
    BY DEF Commit
  <2> QED
    BY <2>1, <2>2, <2>3 DEF TypeOK, FlushedAdds
<1>2. /\ versions'[w] = versions[w] \cup {r.version}
      /\ \A v \in Workflows : v # w => versions'[v] = versions[v]
  BY <1>1
<1>3. /\ IsFiniteSet(versions'[w]) /\ Cardinality(versions'[w]) = Cardinality(versions[w]) + 1
      /\ {u.number : u \in versions'[w]} = 1..Cardinality(versions'[w])
      /\ Cardinality(versions[w]) \in Nat
  <2>1. /\ versions[w] \in SUBSET Version /\ IsFiniteSet(versions[w])
        /\ {u.number : u \in versions[w]} = 1..Cardinality(versions[w])
    BY <1>1 DEF TypeOK, VersionsBelongToRows, VersionsAreGapless, NumbersOf
  <2>2. /\ IsFiniteSet(versions[w] \cup {r.version})
        /\ Cardinality(versions[w] \cup {r.version}) = Cardinality(versions[w]) + 1
        /\ {u.number : u \in versions[w] \cup {r.version}} = 1..Cardinality(versions[w] \cup {r.version})
    BY <1>1, <2>1, VersionAdded
  <2>3. Cardinality(versions[w]) \in Nat
    BY <2>1, FS_CardinalityType
  <2> QED
    BY <1>2, <2>2, <2>3
<1>4. TypeOK'
  BY <1>1 DEF TypeOK
<1>5. OneRow' /\ VersionsBelongToRows'
  BY <1>1, <1>2, <1>3 DEF OneRow, VersionsBelongToRows
<1>6. \A v \in Workflows : {u.number : u \in versions[v]} \subseteq {u.number : u \in versions'[v]}
  BY <1>2
<1>7. VersionsAreGapless'
  BY <1>1, <1>2, <1>3, <1>6 DEF VersionsAreGapless, NumbersOf
<1>8. RequestsKnowRows'
  <2> SUFFICES ASSUME NEW d \in Clients, Pending(d)'
               PROVE  /\ req[d].op = "create" =>
                            /\ rows[req[d].w] = NoRow
                            /\ req[d].dirty /\ ~req[d].row.deleted
                            /\ req[d].row.active = 1 /\ req[d].version.number = 1
                      /\ req[d].op # "create" =>
                            /\ rows[req[d].w] # NoRow
                            /\ req[d].row.trigger = rows[req[d].w].trigger
                      /\ req[d].op = "add" => ~req[d].dirty /\ req[d].at # "sync"
                      /\ req[d].op = "activate" =>
                            req[d].row.active \in {u.number : u \in versions'[req[d].w]}
    BY <1>1 DEF RequestsKnowRows, NumbersOf
  <2>1. req[d].w \in Workflows /\ Pending(d)
    BY RequestShape
  <2> QED
    BY <1>6, <2>1 DEF RequestsKnowRows, NumbersOf
<1>9. FlushedCreates'
  BY <1>1 DEF FlushedCreates
<1>10. FlushedAdds'
  <2> SUFFICES ASSUME NEW d \in Clients, Pending(d)', req[d].op = "add"
               PROVE  /\ req[d].version.number <= Cardinality(versions'[req[d].w]) + 1
                      /\ req[d].at = "commit" =>
                          /\ req[d].version.number = Cardinality(versions'[req[d].w]) + 1
                          /\ \A e \in Clients : req'[e].at = "commit" /\ req'[e].op = "add"
                                                /\ req'[e].w = req[d].w => e = d
    BY DEF FlushedAdds
  <2>1. Pending(d) /\ d # c /\ req[d].w \in Workflows /\ req[d].version.number \in Nat
    <3>1. Pending(d) /\ d # c /\ req[d].w \in Workflows /\ req[d].version \in Version
      BY RequestShape
    <3> QED
      BY <3>1, MaxVersionsAssumption DEF Version, Numbers
  <2>2. CASE req[d].w = w
    BY <1>1, <1>3, <2>1, <2>2 DEF FlushedAdds
  <2>3. CASE req[d].w # w
    BY <1>2, <2>1, <2>3 DEF FlushedAdds, Idle
  <2> QED
    BY <2>2, <2>3
<1>11. OverlapsAreNoticed'
  BY DEF OverlapsAreNoticed
<1>12. OnlyCronsAreScheduled' /\ SoloRequestsAreCurrent'
  BY <1>1 DEF OnlyCronsAreScheduled, SoloRequestsAreCurrent
<1> QED
  BY <1>4, <1>5, <1>7, <1>8, <1>9, <1>10, <1>11, <1>12

LEMMA CommitChangeKeeps ==
    ASSUME IInv, NEW c \in Clients, Commit(c), req[c].op \notin {"create", "add"}
    PROVE  IInv'
<1>0. Commits(c)
  BY CommitShape
<1> USE <1>0 DEF IInv, Commits
<1> DEFINE r == req[c]
           w == r.w
<1>1. /\ w \in Workflows /\ rows[w] # NoRow /\ rows[w] \in Row
      /\ rows'[w] \in Row /\ rows'[w].trigger = rows[w].trigger
      /\ rows'[w].active = rows[w].active \/ rows'[w].active \in NumbersOf(w)
      /\ \A v \in Workflows : v # w => rows'[v] = rows[v]
      /\ rows' \in [Workflows -> Row \cup {NoRow}]
  <2>1. w \in Workflows /\ rows[w] # NoRow
    BY DEF RequestsKnowRows
  <2>2. rows' = [rows EXCEPT ![w] = Written(r, rows[w])]
    BY DEF Commit
  <2> QED
    <3> DEFINE new == Written(r, rows[w])
    <3>1. /\ rows[w] \in Row /\ new \in Row /\ new.trigger = rows[w].trigger
          /\ new.active = rows[w].active \/ new.active \in NumbersOf(w)
      BY WrittenShape
    <3> HIDE DEF new
    <3> QED
      BY <2>1, <2>2, <3>1 DEF TypeOK, new
<1>2. /\ \A v \in Workflows : rows'[v] = NoRow <=> rows[v] = NoRow
      /\ \A v \in Workflows : rows[v] # NoRow => rows'[v].trigger = rows[v].trigger
  <2> SUFFICES ASSUME NEW v \in Workflows
               PROVE  /\ rows'[v] = NoRow <=> rows[v] = NoRow
                      /\ rows[v] # NoRow => rows'[v].trigger = rows[v].trigger
    OBVIOUS
  <2> QED
    BY <1>1, RowsAreNotNoRow
<1>3. versions' = versions
  BY DEF TypeOK
<1>4. TypeOK'
  BY <1>1 DEF TypeOK
<1>5. OneRow' /\ VersionsBelongToRows'
  BY <1>2, <1>3 DEF OneRow, VersionsBelongToRows
<1>6. VersionsAreGapless'
  BY <1>1, <1>2, <1>3 DEF VersionsAreGapless, NumbersOf
<1>7. \A d \in Clients : Pending(d)' => req'[d] = req[d] /\ Pending(d) /\ req[d].w \in Workflows
  BY RequestShape
<1>8. RequestsKnowRows'
  BY <1>2, <1>3, <1>7 DEF RequestsKnowRows, NumbersOf
<1>9. FlushedCreates'
  BY <1>2 DEF FlushedCreates
<1>10. FlushedAdds'
  BY <1>3, <1>7 DEF FlushedAdds, Idle
<1>11. OverlapsAreNoticed'
  BY DEF OverlapsAreNoticed
<1>12. OnlyCronsAreScheduled'
  BY <1>2, <1>7 DEF OnlyCronsAreScheduled
<1>13. \A d \in Clients : Pending(d)' /\ d \notin overlapped => req[d].w # w
  BY DEF OverlapsAreNoticed
<1>14. SoloRequestsAreCurrent'
  BY <1>1, <1>7, <1>13 DEF SoloRequestsAreCurrent
<1> QED
  BY <1>4, <1>5, <1>6, <1>8, <1>9, <1>10, <1>11, <1>12, <1>14

LEMMA CommitKeeps ==
    ASSUME IInv, NEW c \in Clients, Commit(c)
    PROVE  IInv'
BY CommitCreateKeeps, CommitAddKeeps, CommitChangeKeeps

-----------------------------------------------------------------------------

LEMMA InitInv == Init => IInv
<1> SUFFICES ASSUME Init PROVE IInv
  OBVIOUS
<1>1. TypeOK
  BY MaxFaultsAssumption DEF Init, TypeOK
<1>2. \A c \in Clients : ~Pending(c) /\ ~Flushed(c) /\ req[c].at # "commit"
  BY DEF Init, Pending, Flushed, Idle
<1>3. \A w \in Workflows : rows[w] = NoRow /\ versions[w] = {} /\ sched[w] = NoSchedule
  BY DEF Init
<1>4. OneRow /\ RequestsKnowRows /\ FlushedCreates /\ FlushedAdds
  BY <1>2, <1>3 DEF OneRow, RequestsKnowRows, FlushedCreates, FlushedAdds
<1>5. OverlapsAreNoticed /\ OnlyCronsAreScheduled /\ SoloRequestsAreCurrent
  BY <1>2, <1>3 DEF OverlapsAreNoticed, OnlyCronsAreScheduled, SoloRequestsAreCurrent
<1>6. VersionsBelongToRows /\ VersionsAreGapless
  <2>1. IsFiniteSet({}) /\ Cardinality({}) = 0
    BY FS_EmptySet
  <2>2. 1..0 = {}
    OBVIOUS
  <2> QED
    BY <1>3, <2>1, <2>2 DEF VersionsBelongToRows, VersionsAreGapless, NumbersOf
<1> QED
  BY <1>1, <1>4, <1>5, <1>6 DEF IInv

LEMMA StutterKeeps == IInv /\ UNCHANGED vars => IInv'
<1> SUFFICES ASSUME IInv, UNCHANGED vars PROVE IInv'
  OBVIOUS
<1> USE DEF vars, IInv
<1>1. TypeOK' /\ OneRow'
  BY DEF TypeOK, OneRow
<1>2. RequestsKnowRows' /\ FlushedCreates' /\ FlushedAdds'
  BY DEF RequestsKnowRows, FlushedCreates, FlushedAdds, Pending, Flushed, NumbersOf
<1>3. VersionsBelongToRows' /\ VersionsAreGapless'
  BY DEF VersionsBelongToRows, VersionsAreGapless, NumbersOf
<1>4. OverlapsAreNoticed' /\ OnlyCronsAreScheduled' /\ SoloRequestsAreCurrent'
  BY DEF OverlapsAreNoticed, OnlyCronsAreScheduled, SoloRequestsAreCurrent, Pending
<1> QED
  BY <1>1, <1>2, <1>3, <1>4

LEMMA StepInvariant == IInv /\ [Next]_vars => IInv'
<1> SUFFICES ASSUME IInv, [Next]_vars PROVE IInv'
  OBVIOUS
<1>1. CASE UNCHANGED vars
  BY <1>1, StutterKeeps
<1>2. ASSUME NEW c \in Clients, NEW w \in Workflows,
             \/ \E t \in Triggers : BeginCreate(c, w, t) \/ BeginAdd(c, w, t)
             \/ \E n \in Numbers : BeginActivate(c, w, n)
             \/ \E enabled \in BOOLEAN : BeginSetEnabled(c, w, enabled)
             \/ BeginDelete(c, w)
      PROVE  IInv'
  BY <1>2, BeginsKeep
<1>3. ASSUME NEW c \in Clients, NEW w \in Workflows, NotFound(c, w) PROVE IInv'
  BY <1>1, <1>3 DEF NotFound
<1>4. ASSUME NEW c \in Clients, Flush(c) \/ Sync(c) \/ PauseFails(c) \/ Commit(c) \/ RollBack(c)
      PROVE  IInv'
  BY <1>4, FlushKeeps, SyncKeeps, PauseFailsKeeps, CommitKeeps, RollBackKeeps
<1> QED
  BY <1>1, <1>2, <1>3, <1>4 DEF Next

LEMMA Invariant == Spec => []IInv
BY InitInv, StepInvariant, PTL DEF Spec

-----------------------------------------------------------------------------

(* Requests keep every table, schedule and request in its type, whatever   *)
(* was changed between a request's reading and its commit.                 *)
THEOREM TypeCorrect == Spec => []TypeOK
<1>1. IInv => TypeOK
  BY DEF IInv
<1> QED
  BY <1>1, Invariant, PTL

(* create_workflow's check and insert are separate, yet the unique name    *)
(* never lets concurrent creations leave two live workflows.               *)
THEOREM NamesAreUnique == Spec => []OneLiveWorkflowPerName
<1>1. IInv => OneLiveWorkflowPerName
  BY DEF IInv, OneRow, OneLiveWorkflowPerName, Live
<1> QED
  BY <1>1, Invariant, PTL

(* Versions are numbered from 1 without gap or repetition, and the active  *)
(* one is among them, however additions race, fail and roll back: the      *)
(* unique key on the number is enough for _next_version_number.            *)
THEOREM NumberingIsGapless == Spec => []VersionsAreGapless
<1>1. IInv => VersionsAreGapless
  BY DEF IInv
<1> QED
  BY <1>1, Invariant, PTL

(* Steps other than a commit leave the rows alone. *)
LEMMA OnlyCommitsWrite ==
    ASSUME [Next]_vars, rows' # rows
    PROVE  \E c \in Clients : Commit(c)
<1>1. CASE UNCHANGED vars
  BY <1>1 DEF vars
<1>2. ASSUME NEW c \in Clients, NEW w \in Workflows,
             \/ \E t \in Triggers : BeginCreate(c, w, t) \/ BeginAdd(c, w, t)
             \/ \E n \in Numbers : BeginActivate(c, w, n)
             \/ \E enabled \in BOOLEAN : BeginSetEnabled(c, w, enabled)
             \/ BeginDelete(c, w) \/ NotFound(c, w)
      PROVE  FALSE
  <2>1. rows' = rows
    BY <1>2 DEF BeginCreate, BeginAdd, BeginActivate, BeginSetEnabled, BeginDelete, Change, Begin,
       NotFound, vars
  <2> QED
    BY <2>1
<1>3. ASSUME NEW c \in Clients, Flush(c) \/ Sync(c) \/ PauseFails(c) \/ RollBack(c)
      PROVE  FALSE
  <2>1. rows' = rows
    BY <1>3 DEF Flush, Sync, PauseFails, RollBack
  <2> QED
    BY <2>1
<1> QED
  BY <1>1, <1>2, <1>3 DEF Next

(* No commit undoes another request's change: in one step the row of a     *)
(* workflow changes at most in the attribute that the request is about,    *)
(* and a deleted workflow stays deleted, although requests write from      *)
(* objects read before.                                                    *)
THEOREM CommitsKeepOthersChanges == Spec => CommitsChangeOneAttribute
<1>1. ASSUME IInv, [Next]_vars, NEW w \in Workflows, rows[w] # NoRow
      PROVE  /\ rows[w].deleted => rows'[w].deleted
             /\ rows'[w] \in UNION {
                    {[rows[w] EXCEPT !.active = n] : n \in Numbers},
                    {[rows[w] EXCEPT !.enabled = b] : b \in BOOLEAN},
                    {[rows[w] EXCEPT !.deleted = TRUE]}}
  <2>1. rows[w] \in Row
    BY <1>1 DEF IInv, TypeOK
  <2>2. CASE rows'[w] = rows[w]
    <3>1. rows[w] = [rows[w] EXCEPT !.active = rows[w].active] /\ rows[w].active \in Numbers
      BY <2>1 DEF Row
    <3> QED
      BY <2>2, <3>1
  <2>3. CASE rows'[w] # rows[w]
    <3>1. PICK c \in Clients : Commit(c)
      BY <1>1, <2>3, OnlyCommitsWrite
    <3>2. Commits(c)
      BY <1>1, <3>1, CommitShape
    <3>3. req[c].w = w /\ rows'[w] = Written(req[c], rows[w])
      BY <2>3, <3>2 DEF Commits
    <3>4. req[c].op # "create"
      BY <1>1, <3>2, <3>3 DEF IInv, FlushedCreates, Commits
    <3> DEFINE new == Written(req[c], rows[w])
    <3>5. /\ rows[w].deleted => new.deleted
          /\ \/ \E n \in Numbers : new = [rows[w] EXCEPT !.active = n]
             \/ \E b \in BOOLEAN : new = [rows[w] EXCEPT !.enabled = b]
             \/ new = [rows[w] EXCEPT !.deleted = TRUE]
      BY <1>1, <3>2, <3>3, <3>4, WrittenShape DEF Commits
    <3> HIDE DEF new
    <3>6. rows'[w] = new
      BY <3>3 DEF new
    <3> QED
      BY <3>5, <3>6
  <2> QED
    BY <2>2, <2>3
<1>2. IInv /\ [Next]_vars =>
        [\A w \in Workflows : rows[w] # NoRow =>
            /\ rows[w].deleted => rows'[w].deleted
            /\ rows'[w] \in UNION {
                {[rows[w] EXCEPT !.active = n] : n \in Numbers},
                {[rows[w] EXCEPT !.enabled = b] : b \in BOOLEAN},
                {[rows[w] EXCEPT !.deleted = TRUE]}}]_vars
  BY <1>1
<1> QED
  BY <1>2, Invariant, PTL DEF Spec, CommitsChangeOneAttribute

(* A request that ends without a new fault, and past its commit, committed. *)
LEMMA EndsByCommit ==
    ASSUME IInv, [Next]_vars, NEW c \in Clients, req[c].at = "commit",
           req'[c] = Idle, faults' = faults
    PROVE  Commit(c)
<1> USE DEF IInv
<1>0. Pending(c) /\ req[c] # Idle
  BY RequestShape DEF Pending
<1>1. CASE UNCHANGED vars
  BY <1>0, <1>1 DEF vars
<1>2. ASSUME NEW d \in Clients, NEW w \in Workflows,
             \/ \E t \in Triggers : BeginCreate(d, w, t) \/ BeginAdd(d, w, t)
             \/ \E n \in Numbers : BeginActivate(d, w, n)
             \/ \E enabled \in BOOLEAN : BeginSetEnabled(d, w, enabled)
             \/ BeginDelete(d, w)
      PROVE  FALSE
  <2>1. PICK r : req[d] = Idle /\ Goto(d, r)
    BY <1>2 DEF BeginCreate, BeginAdd, BeginActivate, BeginSetEnabled, BeginDelete, Change, Begin
  <2> QED
    BY <1>0, <2>1, GotoRequest
<1>3. ASSUME NEW d \in Clients, NEW w \in Workflows, NotFound(d, w) PROVE FALSE
  BY <1>0, <1>3 DEF NotFound, vars
<1>4. ASSUME NEW d \in Clients, Flush(d) \/ Sync(d) \/ PauseFails(d) PROVE FALSE
  <2>1. PICK r : Goto(d, r) /\ req[d].at # "commit"
    BY <1>4 DEF Flush, Sync, PauseFails
  <2> QED
    BY <1>0, <2>1, GotoRequest
<1>5. ASSUME NEW d \in Clients, RollBack(d) PROVE FALSE
  BY <1>5, FaultCounted DEF RollBack
<1>6. ASSUME NEW d \in Clients, Commit(d) PROVE d = c
  <2>1. Goto(d, Idle)
    BY <1>6 DEF Commit
  <2> QED
    BY <1>0, <2>1, GotoRequest
<1> QED
  BY <1>1, <1>2, <1>3, <1>4, <1>5, <1>6 DEF Next

(* _sync_schedule repairs: whatever crashes, lost calls and races left     *)
(* behind, a request that ran alone on its workflow and lost no call       *)
(* commits a row that the schedule agrees with.                            *)
THEOREM SoloRequestsRepair == Spec => SoloRequestRepairsSchedule
<1>1. ASSUME IInv, [Next]_vars, NEW c \in Clients, NEW w \in Workflows,
             req[c].at = "commit", req[c].w = w, req[c].op # "add",
             c \notin overlapped, req'[c] = Idle, faults' = faults
      PROVE  Agrees(w)'
  <2> USE DEF IInv
  <2>1. Commit(c)
    BY <1>1, EndsByCommit
  <2>2. Commits(c)
    BY <1>1, <2>1, CommitShape
  <2> DEFINE r == req[c]
  <2>3. /\ r.row \in Row /\ rows'[w] = r.row /\ sched' = sched
        /\ r.row.deleted <=> r.op = "delete"
        /\ Upserts(r) => sched[w] = Upserted(r)
        /\ Pauses(r) => sched[w] = NoSchedule \/ sched[w].paused
    BY <1>1, <2>2, RequestShape DEF Commits, SoloRequestsAreCurrent
  <2>4. r.row.trigger \notin Crons => sched[w] = NoSchedule
    BY <1>1, <2>2 DEF Commits, RequestsKnowRows, OnlyCronsAreScheduled
  <2>5. rows'[w] # NoRow
    BY <2>3, RowsAreNotNoRow
  <2>6. Live(w)' <=> r.op # "delete"
    BY <2>3, <2>5 DEF Live
  <2>7. CASE r.op # "delete" /\ r.row.enabled /\ r.row.trigger \in Crons
    BY <2>3, <2>6, <2>7 DEF Agrees, Upserts, Upserted
  <2>8. CASE r.op = "delete" \/ ~r.row.enabled \/ r.row.trigger \notin Crons
    BY <2>3, <2>4, <2>6, <2>8 DEF Agrees, Pauses
  <2> QED
    BY <2>7, <2>8
<1>2. IInv /\ [Next]_vars =>
        [\A c \in Clients, w \in Workflows :
            /\ req[c].at = "commit" /\ req[c].w = w /\ req[c].op # "add"
            /\ c \notin overlapped /\ req'[c] = Idle /\ faults' = faults
            => Agrees(w)']_vars
  BY <1>1
<1> QED
  BY <1>2, Invariant, PTL DEF Spec, SoloRequestRepairsSchedule
=============================================================================
