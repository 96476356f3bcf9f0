------------------------ MODULE JobProjection_proofs ------------------------
(***************************************************************************)
(* Theorems about JobProjection.  For any jobs, attempts, replicas and     *)
(* faults: the types, and that a final row stays as it is.  For one        *)
(* replica: the rows are exact once every message was handled.             *)
(*                                                                         *)
(* The first follow from what each event, result and row says being true   *)
(* of the run; a result handled again or too late then writes what is      *)
(* there.  The second adds that one replica handles the stream in order,   *)
(* so that the rows are always those of a prefix of it.                    *)
(***************************************************************************)
EXTENDS JobProjection, FiniteSetTheorems, TLAPS

Starts == {"job_started", "job_skipped"}
Ends   == {"job_succeeded", "job_failed"}

-----------------------------------------------------------------------------
(* What holds for any number of replicas.                                  *)

(* A task sees a result exactly when the activity has ended, and only jobs *)
(* that the run does not skip come that far.                               *)
StageIsTrue(j, state) ==
    /\ state.stage \in {"ended", "told"} <=> state.result # NoResult
    /\ state.stage = "skipped" => j \in skips
    /\ state.stage \in {"started", "ended", "told"} => j \notin skips

StagesAreTrue ==
    \A j \in Jobs :
        /\ job[j].result = recorded[j].result
        /\ StageIsTrue(j, job[j]) /\ StageIsTrue(j, recorded[j])

(* An event says what the run decided, for good.                           *)
EventIsTrue(e) ==
    /\ e.type = "job_skipped" => e.job \in skips
    /\ e.type # "job_skipped" => e.job \notin skips
    /\ e.type \in Ends => job[e.job].result = [type |-> e.type, attempt |-> e.attempt]

EventsAreTrue ==
    /\ \A e \in late : EventIsTrue(e)
    /\ \A k \in DOMAIN stream : EventIsTrue(stream[k])

(* So does a row.                                                          *)
RowIsTrue(row) ==
    /\ row.status = "success" =>
        job[row.job].result = [type |-> "job_succeeded", attempt |-> row.attempt]
    /\ row.status = "failed" => job[row.job].result.type = "job_failed"
    /\ row.status = "skipped" => row.job \in skips
    /\ row.status # "success" => row.attempt = 1

RowsAreTrue == \A row \in rows : RowIsTrue(row)

(* A job has a second row only beside one that succeeded later than on the *)
(* first attempt.                                                          *)
RowIsNumbered(row) ==
    /\ row.id \in {1, 2}
    /\ row.id = 2 => \E other \in rows :
                         other.job = row.job /\ other.id = 1 /\ other.attempt # 1
    /\ \A other \in rows :
           other.job = row.job /\ (other.id = row.id \/ other.attempt = row.attempt)
               => other = row

RowsAreNumbered == \A row \in rows : RowIsNumbered(row)

(* A row that a replica has selected is still there.                       *)
HandsAreFull ==
    \A r \in Replicas :
        /\ replica[r].at \in {"loaded", "stored"} => replica[r].hand # {}
        /\ replica[r].at = "loaded" =>
            replica[r].seen \subseteq {row.id : row \in RowsOf(InHand(r).job)}

IInv ==
    /\ TypeOK
    /\ StagesAreTrue
    /\ EventsAreTrue
    /\ RowsAreTrue
    /\ RowsAreNumbered
    /\ HandsAreFull

-----------------------------------------------------------------------------
(* What holds for one.                                                     *)

AnnouncedIn(S, j, types) == \E k \in S : stream[k].job = j /\ stream[k].type \in types

(* If no publication is lost, a job starts before it ends in the stream.   *)
StartsComeFirst ==
    losses = 0 =>
        /\ \A j \in Jobs : job[j].stage # "pending" \/ recorded[j].stage # "pending"
               => AnnouncedIn(DOMAIN stream, j, Starts)
        /\ \A k \in DOMAIN stream : stream[k].type \in Ends
               => AnnouncedIn(1..(k - 1), stream[k].job, Starts)

(* And if none is late, it does not start again after it ended.            *)
EndsComeLast ==
    timeouts = 0 =>
        /\ late = {}
        /\ \A k, m \in DOMAIN stream :
               /\ stream[k].job = stream[m].job
               /\ stream[k].type \in Starts /\ stream[m].type \in Ends
               => k < m

(* The group's messages are acknowledged in order ...                      *)
Acked == (1..(next - 1)) \ pending

AcksAreInOrder == \A k \in Acked, m \in pending : k < m

(* ... since the replica holds all that are not, once it has asked.        *)
HandIsPending ==
    \A r \in Replicas : replica[r].at # "off" =>
        IF replica[r].draining /\ replica[r].cursor = 0
        THEN replica[r].hand = {} ELSE replica[r].hand = pending

SeenIsCurrent ==
    \A r \in Replicas : replica[r].at = "loaded" =>
        replica[r].seen = {row.id : row \in RowsOf(InHand(r).job)}

(* The rows after the messages of S, as HandledRowsAreExact has them after *)
(* all.                                                                    *)
RowAfter(S, j) ==
    LET succeeded == AnnouncedIn(S, j, {"job_succeeded"}) IN
    [id |-> 1, job |-> j,
     attempt |-> IF succeeded THEN job[j].result.attempt ELSE 1,
     status |-> IF j \in skips THEN "skipped"
                ELSE IF succeeded THEN "success"
                ELSE IF AnnouncedIn(S, j, {"job_failed"}) THEN "failed" ELSE "running"]

Exempt(j) == timeouts # 0 /\ job[j].result.attempt > 1

JobFollows(S, j) ==
    /\ RowsOf(j) = IF AnnouncedIn(S, j, Starts) THEN {RowAfter(S, j)} ELSE {}
    /\ AnnouncedIn(S, j, {"job_succeeded"}) => artifacts[j] > 0

RowsFollow(S) == \A j \in Jobs : Exempt(j) \/ JobFollows(S, j)

(* The rows are those after the acknowledged messages, or those after one  *)
(* more, which was stored and not acknowledged.                            *)
RowsFollowEvents ==
    losses = 0 =>
        \/ RowsFollow(Acked) /\ \A r \in Replicas : replica[r].at # "stored"
        \/ pending # {} /\ RowsFollow(Acked \cup {Min(pending)})

SoloInv ==
    /\ StartsComeFirst
    /\ EndsComeLast
    /\ AcksAreInOrder
    /\ HandIsPending
    /\ SeenIsCurrent
    /\ RowsFollowEvents

-----------------------------------------------------------------------------
(* Sets of messages.                                                       *)

LEMMA MinIsLeast ==
    ASSUME NEW S \in SUBSET Nat, S # {}
    PROVE  Min(S) \in S /\ \A k \in S : Min(S) <= k
<1> DEFINE R == OpToRel(<, Nat)
<1>1. \A k, m \in Nat : k < m => <<k, m>> \in R
  BY DEF OpToRel
<1>2. IsWellFoundedOn(R, Nat)
  BY NatLessThanWellFounded
<1> HIDE DEF R
<1>3. PICK m \in S : \A k \in S : ~(<<k, m>> \in R)
  BY <1>2, WFMin
<1>4. \A k \in S : m <= k
  <2> SUFFICES ASSUME NEW k \in S PROVE m <= k
    OBVIOUS
  <2>1. k \in Nat /\ m \in Nat /\ ~(k < m)
    BY <1>1, <1>3
  <2> QED
    BY <2>1
<1> QED
  BY <1>4 DEF Min

LEMMA MaxIsGreatest ==
    ASSUME NEW n \in Nat, NEW S \in SUBSET (0..n), S # {}
    PROVE  Max(S) \in S /\ \A k \in S : k <= Max(S)
<1> DEFINE T == {n - k : k \in S}
<1>1. T \in SUBSET Nat /\ T # {}
  <2>1. \A k \in S : k \in Nat /\ n - k \in Nat
    OBVIOUS
  <2> QED
    BY <2>1
<1>2. Min(T) \in T /\ \A t \in T : Min(T) <= t
  BY <1>1, MinIsLeast
<1>3. PICK m \in S : Min(T) = n - m
  BY <1>2
<1>4. \A k \in S : k <= m
  <2> SUFFICES ASSUME NEW k \in S PROVE k <= m
    OBVIOUS
  <2>1. n - m <= n - k
    BY <1>2, <1>3
  <2> QED
    BY <2>1
<1> QED
  BY <1>4 DEF Max

-----------------------------------------------------------------------------
(* The shapes of events and states.                                        *)

ReplicaState == [at: {"off", "idle", "loaded", "stored"},
                 hand: SUBSET DOMAIN stream, draining: BOOLEAN,
                 cursor: 0..Len(stream),
                 seen: SUBSET (1..Cardinality(Attempts))]

LEMMA EventShape ==
    ASSUME NEW e \in Event
    PROVE  /\ e.type \in Starts \cup Ends /\ e.job \in Jobs
           /\ e.type = "job_succeeded" => e.attempt \in Attempts
           /\ e.type = "job_failed" => e.attempt = 0
BY DEF Event, Starts, Ends

LEMMA ResultShape ==
    ASSUME NEW x \in Results
    PROVE  x # NoResult /\ x.type \in Ends /\ x = [type |-> x.type, attempt |-> x.attempt]
           /\ (x.type = "job_succeeded" => x.attempt \in Attempts)
           /\ (x.type = "job_failed" => x.attempt = 0)
BY DEF Results, NoResult, Ends

LEMMA StreamShape ==
    ASSUME TypeOK
    PROVE  /\ stream \in Seq(Event) /\ Len(stream) \in Nat /\ DOMAIN stream = 1..Len(stream)
           /\ \A k \in DOMAIN stream : stream[k] \in Event
BY DEF TypeOK

(* Appending an event leaves the earlier ones where they are.              *)
Grows ==
    /\ stream' \in Seq(Event)
    /\ Len(stream') \in Nat /\ Len(stream) <= Len(stream')
    /\ DOMAIN stream' = 1..Len(stream') /\ DOMAIN stream \subseteq DOMAIN stream'
    /\ \A k \in DOMAIN stream : stream'[k] = stream[k]

LEMMA Appended ==
    ASSUME TypeOK, NEW e \in Event, stream' = Append(stream, e)
    PROVE  /\ Grows /\ Len(stream') = Len(stream) + 1 /\ stream'[Len(stream) + 1] = e
           /\ \A k \in DOMAIN stream' : k \in DOMAIN stream \/ k = Len(stream) + 1
<1>1. stream \in Seq(Event) /\ Len(stream) \in Nat /\ DOMAIN stream = 1..Len(stream)
  BY StreamShape
<1>2. /\ stream' \in Seq(Event) /\ Len(stream') = Len(stream) + 1
      /\ DOMAIN stream' = 1..Len(stream')
  BY <1>1
<1>3. (\A k \in 1..Len(stream) : stream'[k] = stream[k]) /\ stream'[Len(stream) + 1] = e
  BY <1>1
<1> QED
  BY <1>1, <1>2, <1>3 DEF Grows

LEMMA NotAppended ==
    ASSUME TypeOK, UNCHANGED stream PROVE Grows
BY StreamShape DEF Grows

(* The message that a replica has in hand.                                 *)
LEMMA HandShape ==
    ASSUME TypeOK, NEW r \in Replicas, replica[r].hand # {}
    PROVE  /\ Min(replica[r].hand) \in replica[r].hand
           /\ \A k \in replica[r].hand : Min(replica[r].hand) <= k
           /\ Min(replica[r].hand) \in DOMAIN stream
           /\ InHand(r) \in Event
<1>1. replica[r].hand \subseteq DOMAIN stream
  BY DEF TypeOK
<1>2. replica[r].hand \in SUBSET Nat
  BY <1>1, StreamShape
<1> QED
  BY <1>1, <1>2, MinIsLeast, StreamShape DEF InHand

-----------------------------------------------------------------------------
(* The worker.                                                             *)

(* A result does not change.                                               *)
ResultsStay == \A j \in Jobs : job[j].result # NoResult => job'[j].result = job[j].result

(* What every step of the worker keeps.                                    *)
WorkerStepIsTrue ==
    /\ UNCHANGED <<skips, next, pending, replica, rows, artifacts>>
    /\ Grows /\ ResultsStay
    /\ job' \in [Jobs -> JobState] /\ recorded' \in [Jobs -> JobState] /\ late' \subseteq Event
    /\ restarts' \in 0..MaxRestarts /\ losses' \in 0..MaxLosses /\ timeouts' \in 0..MaxTimeouts
    /\ StagesAreTrue' /\ EventsAreTrue'

LEMMA WorkerKeeps ==
    ASSUME IInv, WorkerStepIsTrue
    PROVE  IInv'
<1> USE DEF IInv, WorkerStepIsTrue
<1>1. TypeOK'
  <2>1. replica' \in [Replicas -> ReplicaState']
    <3>1. replica \in [Replicas -> ReplicaState]
      BY DEF TypeOK, ReplicaState
    <3>2. SUBSET (DOMAIN stream) \subseteq SUBSET (DOMAIN stream')
      BY DEF Grows
    <3>3. 0..Len(stream) \subseteq 0..Len(stream')
      BY StreamShape DEF Grows
    <3>4. ReplicaState \subseteq ReplicaState'
      BY <3>2, <3>3 DEF ReplicaState
    <3> QED
      BY <3>1, <3>4
  <2>2. next' \in 1..(Len(stream') + 1)
    BY StreamShape DEF Grows, TypeOK
  <2> QED
    BY <2>1, <2>2 DEF TypeOK, ReplicaState, Grows
<1>2. RowsAreTrue'
  <2> SUFFICES ASSUME NEW row \in rows PROVE RowIsTrue(row)'
    BY DEF RowsAreTrue
  <2>1. RowIsTrue(row) /\ row.job \in Jobs
    BY DEF RowsAreTrue, TypeOK, Row
  <2>2. ResultsStay /\ skips' = skips
    OBVIOUS
  <2>3. row.status \in {"success", "failed"} => job[row.job].result # NoResult
    BY <2>1 DEF RowIsTrue, NoResult
  <2> QED
    BY <2>1, <2>2, <2>3 DEF RowIsTrue, ResultsStay
<1>3. RowsAreNumbered'
  BY DEF RowsAreNumbered, RowIsNumbered
<1>4. HandsAreFull'
  <2> SUFFICES ASSUME NEW r \in Replicas
               PROVE  /\ replica[r].at \in {"loaded", "stored"} => replica[r].hand # {}
                      /\ replica[r].at = "loaded" =>
                          replica[r].seen \subseteq {row.id : row \in RowsOf(InHand(r)'.job)}
    BY DEF HandsAreFull, RowsOf
  <2>1. replica[r].hand # {} => InHand(r)' = InHand(r)
    BY HandShape DEF InHand, Grows
  <2> QED
    BY <2>1 DEF HandsAreFull
<1> QED
  BY <1>1, <1>2, <1>3, <1>4

(* What is said next is true, and stays so.                                *)
LEMMA EmissionIsTrue ==
    ASSUME IInv, NEW j \in Jobs, Saying(j)
    PROVE  /\ Emission(j) \in Event /\ EventIsTrue(Emission(j)) /\ Emission(j).job = j
           /\ Emission(j).type \in Ends <=> job[j].stage = "ended"
<1>1. job[j] \in JobState /\ StageIsTrue(j, job[j])
  BY DEF IInv, TypeOK, StagesAreTrue
<1>2. CASE job[j].stage = "ended"
  <2>1. job[j].result \in Results /\ j \notin skips
    BY <1>1, <1>2 DEF StageIsTrue, JobState
  <2>2. Emission(j) = [type |-> job[j].result.type, job |-> j, attempt |-> job[j].result.attempt]
    BY <1>2 DEF Emission
  <2>3. Emission(j) \in Event
    BY <2>1, <2>2, ResultShape DEF Event, Ends, Results
  <2> QED
    BY <1>2, <2>1, <2>2, <2>3, ResultShape DEF EventIsTrue, Ends
<1>3. CASE job[j].stage # "ended"
  <2>1. Emission(j) = [type |-> IF j \in skips THEN "job_skipped" ELSE "job_started",
                       job |-> j, attempt |-> 0]
    BY <1>3 DEF Emission
  <2> QED
    BY <1>3, <2>1 DEF EventIsTrue, Ends, Event
<1> QED
  BY <1>2, <1>3

LEMMA EventsStayTrue ==
    ASSUME IInv, ResultsStay, UNCHANGED skips, NEW e \in Event, EventIsTrue(e)
    PROVE  EventIsTrue(e)'
<1>1. e.type \in Ends => job[e.job].result # NoResult
  BY DEF EventIsTrue, NoResult, Ends
<1> QED
  BY <1>1, EventShape DEF EventIsTrue, ResultsStay

(* The events after a step, if the new ones are true.                      *)
LEMMA EventsKept ==
    ASSUME IInv, ResultsStay, Grows, UNCHANGED skips, late' \subseteq Event,
           \A e \in late' : e \in late \/ EventIsTrue(e)',
           \A k \in DOMAIN stream', e \in Event :
               e = stream'[k] => k \in DOMAIN stream \/ EventIsTrue(e)'
    PROVE  EventsAreTrue'
<1>1. ASSUME NEW e \in late' PROVE EventIsTrue(e)'
  <2>1. CASE e \in late
    <3>1. EventIsTrue(e) /\ e \in Event
      BY <2>1 DEF IInv, EventsAreTrue, TypeOK
    <3> QED
      BY <3>1, EventsStayTrue
  <2> QED
    BY <2>1
<1>2. ASSUME NEW k \in DOMAIN stream' PROVE EventIsTrue(stream[k])'
  <2>1. PICK e \in Event : e = stream'[k]
    BY DEF Grows
  <2>2. EventIsTrue(e)'
    <3>1. CASE k \in DOMAIN stream
      <4>1. EventIsTrue(e)
        BY <2>1, <3>1 DEF IInv, EventsAreTrue, Grows
      <4> QED
        BY <4>1, EventsStayTrue
    <3> QED
      BY <2>1, <3>1
  <2> QED
    BY <2>1, <2>2 DEF EventIsTrue
<1> QED
  BY <1>1, <1>2 DEF EventsAreTrue

LEMMA FaultShape ==
    ASSUME TypeOK
    PROVE  /\ UNCHANGED faults \/ Loss \/ Timeout \/ Restart =>
               /\ restarts' \in 0..MaxRestarts /\ losses' \in 0..MaxLosses
               /\ timeouts' \in 0..MaxTimeouts
               /\ restarts <= restarts' /\ losses <= losses' /\ timeouts <= timeouts'
BY BoundsAssumption DEF TypeOK, faults, Loss, Timeout, Restart

LEMMA EmitKeeps ==
    ASSUME IInv, NEW j \in Jobs, Emit(j)
    PROVE  IInv'
<1> DEFINE e == Emission(j)
<1>1. /\ Saying(j)
      /\ (stream' = Append(stream, e) /\ UNCHANGED faults) \/ (Loss /\ UNCHANGED stream)
      /\ job' = [job EXCEPT ![j].stage = StageAfter(j)]
      /\ UNCHANGED <<skips, recorded, late, next, pending, replica, tables>>
  BY DEF Emit
<1>2. e \in Event /\ EventIsTrue(e)
  BY <1>1, EmissionIsTrue
<1>3. /\ job' \in [Jobs -> JobState]
      /\ \A i \in Jobs : job'[i].result = job[i].result
      /\ \A i \in Jobs : job'[i].stage = IF i = j THEN StageAfter(j) ELSE job[i].stage
  <2>1. job \in [Jobs -> JobState] /\ StageAfter(j) \in Stages
    BY DEF IInv, TypeOK, StageAfter, Stages
  <2> DEFINE said == [job[j] EXCEPT !.stage = StageAfter(j)]
  <2>2. said \in JobState /\ said.stage = StageAfter(j) /\ said.result = job[j].result
    BY <2>1 DEF JobState
  <2>3. job' = [job EXCEPT ![j] = said]
    BY <1>1
  <2> HIDE DEF said
  <2>4. \A i \in Jobs : job'[i] = IF i = j THEN said ELSE job[i]
    BY <2>1, <2>3
  <2> QED
    BY <2>1, <2>2, <2>3, <2>4
<1>4. ResultsStay
  BY <1>3 DEF ResultsStay
<1>5. StagesAreTrue'
  <2> SUFFICES ASSUME NEW i \in Jobs
               PROVE  /\ job'[i].result = recorded[i].result
                      /\ StageIsTrue(i, job[i])' /\ StageIsTrue(i, recorded[i])'
    BY <1>1 DEF StagesAreTrue
  <2>1. /\ job[i].result = recorded[i].result
        /\ StageIsTrue(i, job[i]) /\ StageIsTrue(i, recorded[i])
    BY DEF IInv, StagesAreTrue
  <2> QED
    BY <1>1, <1>3, <2>1 DEF StageIsTrue, StageAfter, Saying
<1>6. /\ Grows
      /\ \A k \in DOMAIN stream' : k \in DOMAIN stream \/ stream'[k] = e
  BY <1>1, <1>2, Appended, NotAppended DEF IInv
<1>7. EventsAreTrue'
  <2>1. \A x \in Event : EventIsTrue(x) => EventIsTrue(x)'
    BY <1>1, <1>4, EventsStayTrue
  <2> HIDE DEF e
  <2>2. \A k \in DOMAIN stream', x \in Event :
            x = stream'[k] => k \in DOMAIN stream \/ EventIsTrue(x)'
    BY <1>2, <1>6, <2>1
  <2> QED
    BY <1>1, <1>4, <1>6, <2>2, EventsKept DEF IInv, TypeOK
<1>8. /\ restarts' \in 0..MaxRestarts /\ losses' \in 0..MaxLosses /\ timeouts' \in 0..MaxTimeouts
  BY <1>1, FaultShape DEF IInv
<1>9. WorkerStepIsTrue
  BY <1>1, <1>3, <1>4, <1>5, <1>6, <1>7, <1>8 DEF WorkerStepIsTrue, IInv, TypeOK, tables
<1> QED
  BY <1>9, WorkerKeeps

LEMMA EmitTimesOutKeeps ==
    ASSUME IInv, NEW j \in Jobs, EmitTimesOut(j)
    PROVE  IInv'
<1> DEFINE e == Emission(j)
<1>1. /\ Saying(j) /\ Timeout
      /\ late' = late \cup {e}
      /\ UNCHANGED <<skips, job, recorded, stream, next, pending, replica, rows, artifacts>>
  BY DEF EmitTimesOut, redis, tables
<1>2. e \in Event /\ EventIsTrue(e) /\ late' \subseteq Event
  BY <1>1, EmissionIsTrue DEF IInv, TypeOK
<1>3. ResultsStay /\ StagesAreTrue' /\ Grows
  BY <1>1, NotAppended DEF ResultsStay, IInv, StagesAreTrue, StageIsTrue
<1>4. EventsAreTrue'
  <2>1. \A x \in Event : EventIsTrue(x) => EventIsTrue(x)'
    BY <1>1, <1>3, EventsStayTrue
  <2> HIDE DEF e
  <2>2. \A x \in late' : x \in late \/ EventIsTrue(x)'
    BY <1>1, <1>2, <2>1
  <2> QED
    BY <1>1, <1>2, <1>3, <2>2, EventsKept
<1>5. WorkerStepIsTrue
  BY <1>1, <1>2, <1>3, <1>4, FaultShape DEF WorkerStepIsTrue, IInv, TypeOK
<1> QED
  BY <1>5, WorkerKeeps

LEMMA PublishLateKeeps ==
    ASSUME IInv, NEW e \in late, PublishLate(e)
    PROVE  IInv'
<1>1. /\ late' = late \ {e} /\ stream' = Append(stream, e)
      /\ UNCHANGED <<skips, job, recorded, next, pending, replica, rows, artifacts>>
      /\ UNCHANGED faults
  BY DEF PublishLate, tables
<1>2. e \in Event /\ EventIsTrue(e) /\ late' \subseteq Event
  BY <1>1 DEF IInv, TypeOK, EventsAreTrue
<1>3. ResultsStay /\ StagesAreTrue'
  BY <1>1 DEF ResultsStay, IInv, StagesAreTrue, StageIsTrue
<1>4. /\ Grows
      /\ \A k \in DOMAIN stream' : k \in DOMAIN stream \/ stream'[k] = e
  BY <1>1, <1>2, Appended DEF IInv
<1>5. EventsAreTrue'
  <2>1. \A x \in Event : EventIsTrue(x) => EventIsTrue(x)'
    BY <1>1, <1>3, EventsStayTrue
  <2>2. \A k \in DOMAIN stream', x \in Event :
            x = stream'[k] => k \in DOMAIN stream \/ EventIsTrue(x)'
    BY <1>2, <1>4, <2>1
  <2> QED
    BY <1>1, <1>2, <1>3, <1>4, <2>2, EventsKept
<1>6. WorkerStepIsTrue
  BY <1>1, <1>2, <1>3, <1>4, <1>5, FaultShape DEF WorkerStepIsTrue, IInv, TypeOK
<1> QED
  BY <1>6, WorkerKeeps

(* Steps that say nothing.                                                 *)
LEMMA SilentKeeps ==
    ASSUME IInv, UNCHANGED <<skips, late, redis, replica, tables>>,
           UNCHANGED faults \/ Restart,
           job' \in [Jobs -> JobState], recorded' \in [Jobs -> JobState],
           ResultsStay, StagesAreTrue'
    PROVE  IInv'
<1>1. Grows
  BY NotAppended DEF IInv, redis
<1>2. EventsAreTrue'
  <2>1. late' \subseteq Event /\ late' = late /\ DOMAIN stream' = DOMAIN stream
    BY DEF IInv, TypeOK, redis
  <2> QED
    BY <1>1, <2>1, EventsKept
<1>3. WorkerStepIsTrue
  BY <1>1, <1>2, FaultShape DEF WorkerStepIsTrue, IInv, TypeOK, redis, tables
<1> QED
  BY <1>3, WorkerKeeps

LEMMA TaskRecordedKeeps == IInv /\ TaskRecorded => IInv'
<1> SUFFICES ASSUME IInv, TaskRecorded PROVE IInv'
  OBVIOUS
<1>1. /\ recorded' = job /\ job' = job /\ UNCHANGED skips
      /\ UNCHANGED <<skips, late, redis, replica, tables>> /\ UNCHANGED faults
  BY DEF TaskRecorded
<1>2. ResultsStay /\ StagesAreTrue' /\ job' \in [Jobs -> JobState] /\ recorded' \in [Jobs -> JobState]
  BY <1>1 DEF ResultsStay, IInv, StagesAreTrue, StageIsTrue, TypeOK
<1> QED
  BY <1>1, <1>2, SilentKeeps

LEMMA WorkerCrashesKeeps == IInv /\ WorkerCrashes => IInv'
<1> SUFFICES ASSUME IInv, WorkerCrashes PROVE IInv'
  OBVIOUS
<1>1. /\ recorded' = recorded /\ job' = recorded /\ UNCHANGED skips
      /\ UNCHANGED <<skips, late, redis, replica, tables>> /\ Restart
  BY DEF WorkerCrashes
<1>2. ResultsStay /\ StagesAreTrue' /\ job' \in [Jobs -> JobState] /\ recorded' \in [Jobs -> JobState]
  BY <1>1 DEF ResultsStay, IInv, StagesAreTrue, StageIsTrue, TypeOK
<1> QED
  BY <1>1, <1>2, SilentKeeps

LEMMA ActivityEndsKeeps ==
    ASSUME IInv, NEW j \in Jobs, NEW result \in Results, ActivityEnds(j, result)
    PROVE  IInv'
<1> DEFINE ended == [stage |-> "ended", result |-> result]
<1>1. /\ recorded[j].stage = "started" /\ job[j].stage = "started"
      /\ job' = [job EXCEPT ![j] = ended] /\ recorded' = [recorded EXCEPT ![j] = ended]
      /\ UNCHANGED <<skips, late, redis, replica, tables>> /\ UNCHANGED faults /\ skips' = skips
  BY DEF ActivityEnds
<1>2. ended \in JobState /\ ended.stage = "ended" /\ ended.result = result /\ result # NoResult
  BY ResultShape DEF JobState, Stages
<1> HIDE DEF ended
<1>3. /\ job' \in [Jobs -> JobState] /\ recorded' \in [Jobs -> JobState]
      /\ \A i \in Jobs : job'[i] = IF i = j THEN ended ELSE job[i]
      /\ \A i \in Jobs : recorded'[i] = IF i = j THEN ended ELSE recorded[i]
  BY <1>1, <1>2 DEF IInv, TypeOK
<1>4. StageIsTrue(j, job[j]) /\ StagesAreTrue
  BY DEF IInv, StagesAreTrue
<1>5. job[j].result = NoResult /\ j \notin skips
  BY <1>1, <1>4 DEF StageIsTrue
<1>6. ResultsStay
  BY <1>3, <1>5 DEF ResultsStay
<1>7. StagesAreTrue'
  BY <1>1, <1>2, <1>3, <1>4, <1>5 DEF StagesAreTrue, StageIsTrue
<1> QED
  BY <1>1, <1>3, <1>6, <1>7, SilentKeeps

-----------------------------------------------------------------------------
(* The replicas.                                                           *)

(* What every step of a replica keeps that does not write to a table.      *)
LEMMA ReplicaKeeps ==
    ASSUME IInv, NEW r \in Replicas, NEW state \in ReplicaState,
           Update(r, state), UNCHANGED <<skips, job, recorded, late, stream, tables>>,
           UNCHANGED faults \/ Loss \/ Restart,
           next' \in 1..(Len(stream) + 1), pending' \subseteq 1..(next' - 1),
           state.at \in {"loaded", "stored"} => state.hand # {},
           state.at = "loaded" =>
               state.seen \subseteq {row.id : row \in RowsOf(stream[Min(state.hand)].job)}
    PROVE  IInv'
<1>1. /\ replica' \in [Replicas -> ReplicaState]
      /\ \A s \in Replicas : replica'[s] = IF s = r THEN state ELSE replica[s]
  BY DEF Update, IInv, TypeOK, ReplicaState
<1>2. TypeOK'
  BY <1>1, FaultShape DEF IInv, TypeOK, ReplicaState, tables
<1>3. StagesAreTrue' /\ EventsAreTrue' /\ RowsAreTrue' /\ RowsAreNumbered'
  BY DEF IInv, StagesAreTrue, StageIsTrue, EventsAreTrue, EventIsTrue, RowsAreTrue, RowIsTrue,
         RowsAreNumbered, RowIsNumbered, tables
<1>4. HandsAreFull'
  <2> SUFFICES ASSUME NEW s \in Replicas
               PROVE  /\ replica'[s].at \in {"loaded", "stored"} => replica'[s].hand # {}
                      /\ replica'[s].at = "loaded" => replica'[s].seen
                          \subseteq {row.id : row \in RowsOf(stream[Min(replica'[s].hand)].job)}
    BY DEF HandsAreFull, RowsOf, InHand, tables
  <2> QED
    BY <1>1 DEF IInv, HandsAreFull, InHand
<1> QED
  BY <1>2, <1>3, <1>4 DEF IInv

LEMMA ConnectKeeps ==
    ASSUME IInv, NEW r \in Replicas, Connect(r)
    PROVE  IInv'
<1> DEFINE state == [Off EXCEPT !.at = "idle", !.draining = TRUE]
<1>1. /\ Update(r, state) /\ UNCHANGED <<skips, job, recorded, late, stream, tables>>
      /\ UNCHANGED <<next, pending>> /\ UNCHANGED faults
  BY DEF Connect, workerVars, redis
<1>2. state \in ReplicaState /\ state.at = "idle"
  <2>1. Off \in ReplicaState
    BY StreamShape DEF Off, ReplicaState, IInv
  <2> QED
    BY <2>1 DEF ReplicaState
<1> HIDE DEF state
<1> QED
  BY <1>1, <1>2, ReplicaKeeps DEF IInv, TypeOK

LEMMA DisconnectKeeps ==
    ASSUME IInv, NEW r \in Replicas, Disconnect(r)
    PROVE  IInv'
<1>1. /\ Update(r, Off) /\ UNCHANGED <<skips, job, recorded, late, stream, tables>>
      /\ UNCHANGED <<next, pending>> /\ Restart
  BY DEF Disconnect, workerVars, redis
<1>2. Off \in ReplicaState /\ Off.at = "off"
  BY StreamShape DEF Off, ReplicaState, IInv
<1> QED
  BY <1>1, <1>2, ReplicaKeeps DEF IInv, TypeOK

LEMMA ReplicaShape ==
    ASSUME IInv, NEW r \in Replicas
    PROVE  /\ replica[r] \in ReplicaState
           /\ replica[r].hand \subseteq DOMAIN stream /\ replica[r].cursor \in 0..Len(stream)
           /\ next \in 1..(Len(stream) + 1) /\ pending \subseteq 1..(next - 1)
           /\ pending \subseteq DOMAIN stream
<1>1. replica[r] \in ReplicaState /\ next \in 1..(Len(stream) + 1) /\ pending \subseteq 1..(next - 1)
  BY DEF IInv, TypeOK, ReplicaState
<1>2. pending \subseteq 1..Len(stream)
  BY <1>1, StreamShape DEF IInv
<1> QED
  BY <1>1, <1>2, StreamShape DEF IInv, ReplicaState

LEMMA ReadPendingKeeps ==
    ASSUME IInv, NEW r \in Replicas, ReadPending(r)
    PROVE  IInv'
<1> DEFINE todo == {k \in pending : k > replica[r].cursor}
           done == [replica[r] EXCEPT !.draining = FALSE]
           state == [replica[r] EXCEPT !.hand = todo, !.cursor = Max(todo)]
<1>1. /\ replica[r].at = "idle" /\ UNCHANGED <<skips, job, recorded, late, stream, tables>>
      /\ IF todo = {} THEN Update(r, done) ELSE Update(r, state)
      /\ UNCHANGED <<next, pending>> /\ UNCHANGED faults
  BY DEF ReadPending, workerVars, redis
<1>2. done \in ReplicaState /\ done.at = "idle"
  BY <1>1, ReplicaShape DEF ReplicaState
<1>3. ASSUME todo # {} PROVE state \in ReplicaState /\ state.at = "idle"
  <2>1. todo \in SUBSET (0..Len(stream)) /\ Len(stream) \in Nat /\ todo \subseteq DOMAIN stream
    BY ReplicaShape, StreamShape DEF IInv
  <2>2. Max(todo) \in 0..Len(stream)
    BY <1>3, <2>1, MaxIsGreatest
  <2> HIDE DEF todo
  <2> QED
    BY <1>1, <2>1, <2>2, ReplicaShape DEF ReplicaState
<1>4. next' \in 1..(Len(stream) + 1) /\ pending' \subseteq 1..(next' - 1)
  BY <1>1, ReplicaShape
<1> HIDE DEF todo, done, state
<1> QED
  BY <1>1, <1>2, <1>3, <1>4, ReplicaKeeps

LEMMA ReadNewKeeps ==
    ASSUME IInv, NEW r \in Replicas, ReadNew(r)
    PROVE  IInv'
<1> DEFINE state == [replica[r] EXCEPT !.hand = next..Len(stream)]
<1>1. /\ replica[r].at = "idle" /\ UNCHANGED <<skips, job, recorded, late, stream, tables>>
      /\ Update(r, state) /\ UNCHANGED faults
      /\ pending' = pending \cup next..Len(stream) /\ next' = Len(stream) + 1
  BY DEF ReadNew, workerVars
<1>2. next \in 1..(Len(stream) + 1) /\ Len(stream) \in Nat /\ pending \subseteq 1..(next - 1)
  BY ReplicaShape, StreamShape DEF IInv
<1>3. next' \in 1..(Len(stream) + 1) /\ pending' \subseteq 1..(next' - 1)
  <2>1. pending \subseteq 1..Len(stream) /\ next..Len(stream) \subseteq 1..Len(stream)
    BY <1>2
  <2> QED
    BY <1>1, <1>2, <2>1
<1>4. state \in ReplicaState /\ state.at = "idle"
  <2>1. next..Len(stream) \subseteq DOMAIN stream
    BY <1>2, StreamShape DEF IInv
  <2> QED
    BY <1>1, <2>1, ReplicaShape DEF ReplicaState
<1> HIDE DEF state
<1> QED
  BY <1>1, <1>3, <1>4, ReplicaKeeps

(* There are at most two rows of a job, and as many attempts.              *)
LEMMA IdsAreSmall ==
    ASSUME IInv, NEW row \in rows
    PROVE  row.id \in 1..Cardinality(Attempts) /\ row.job \in Jobs /\ row.attempt \in Attempts
BY DEF IInv, TypeOK, Row

LEMMA LoadKeeps ==
    ASSUME IInv, NEW r \in Replicas, Load(r)
    PROVE  IInv'
<1> DEFINE ids == {row.id : row \in RowsOf(InHand(r).job)}
           state == [replica[r] EXCEPT !.at = "loaded", !.seen = ids]
<1>1. /\ replica[r].at = "idle" /\ replica[r].hand # {}
      /\ UNCHANGED <<skips, job, recorded, late, stream, tables>>
      /\ Update(r, state) /\ UNCHANGED faults /\ UNCHANGED <<next, pending>>
  BY DEF Load, workerVars, redis
<1>2. ids \subseteq 1..Cardinality(Attempts)
  BY IdsAreSmall DEF RowsOf
<1>3. next' \in 1..(Len(stream) + 1) /\ pending' \subseteq 1..(next' - 1)
  BY <1>1, ReplicaShape
<1>4. ids = {row.id : row \in RowsOf(stream[Min(replica[r].hand)].job)}
  BY DEF InHand
<1> HIDE DEF ids
<1>5. state \in ReplicaState /\ state.at = "loaded" /\ state.hand = replica[r].hand /\ state.seen = ids
  BY <1>2, ReplicaShape DEF ReplicaState
<1> HIDE DEF state
<1> QED
  BY <1>1, <1>3, <1>4, <1>5, ReplicaKeeps

(* The end of handling a message, whatever came of it.                     *)
Handled(r) == [replica[r] EXCEPT !.at = "stored", !.seen = {}]

LEMMA HandledShape ==
    ASSUME IInv, NEW r \in Replicas
    PROVE  /\ Handled(r) \in ReplicaState /\ Handled(r).at = "stored" /\ Handled(r).seen = {}
           /\ Handled(r).hand = replica[r].hand /\ Handled(r).draining = replica[r].draining
           /\ Handled(r).cursor = replica[r].cursor
BY ReplicaShape DEF Handled, ReplicaState

LEMMA StoreFailsKeeps ==
    ASSUME IInv, NEW r \in Replicas, StoreFails(r)
    PROVE  IInv'
<1>1. /\ replica[r].at = "loaded" /\ UNCHANGED <<skips, job, recorded, late, stream, tables>>
      /\ Update(r, Handled(r)) /\ Loss /\ UNCHANGED <<next, pending>>
  BY DEF StoreFails, workerVars, redis, Handled
<1>2. replica[r].hand # {}
  BY <1>1 DEF IInv, HandsAreFull
<1>3. next' \in 1..(Len(stream) + 1) /\ pending' \subseteq 1..(next' - 1)
  BY <1>1, ReplicaShape
<1> QED
  BY <1>1, <1>2, <1>3, HandledShape, ReplicaKeeps

LEMMA AckKeeps ==
    ASSUME IInv, NEW r \in Replicas, Ack(r)
    PROVE  IInv'
<1> DEFINE hand == replica[r].hand \ {Min(replica[r].hand)}
           state == [replica[r] EXCEPT !.at = "idle", !.hand = hand]
<1>1. /\ UNCHANGED <<skips, job, recorded, late, stream, tables>>
      /\ Update(r, state) /\ UNCHANGED faults /\ next' = next
      /\ pending' \subseteq pending
  BY DEF Ack, workerVars
<1>2. next' \in 1..(Len(stream) + 1) /\ pending' \subseteq 1..(next' - 1)
  BY <1>1, ReplicaShape
<1>3. hand \subseteq DOMAIN stream
  BY ReplicaShape
<1> HIDE DEF hand
<1>4. state \in ReplicaState /\ state.at = "idle"
  BY <1>3, ReplicaShape DEF ReplicaState
<1> HIDE DEF state
<1> QED
  BY <1>1, <1>2, <1>4, ReplicaKeeps

-----------------------------------------------------------------------------
(* Storing what a message says.                                            *)

LEMMA RowShape ==
    ASSUME IInv, NEW row \in rows
    PROVE  /\ row \in Row /\ row.job \in Jobs /\ row.attempt \in Attempts
           /\ RowIsTrue(row) /\ RowIsNumbered(row)
BY DEF IInv, TypeOK, Row, RowsAreTrue, RowsAreNumbered

(* Without a row for the first attempt there is at most one, of a later    *)
(* attempt that succeeded.                                                 *)
LEMMA OnlyOneLater ==
    ASSUME IInv, NEW j \in Jobs, \A row \in RowsOf(j) : row.attempt # 1, RowsOf(j) # {}
    PROVE  \E x \in rows : RowsOf(j) = {x} /\ x.id = 1 /\ x.attempt # 1
<1>1. PICK x \in rows : x.job = j
  BY DEF RowsOf
<1>2. ASSUME NEW y \in rows, y.job = j PROVE y = x /\ x.attempt = job[j].result.attempt
  <2>1. x.attempt # 1 /\ y.attempt # 1
    BY <1>1, <1>2 DEF RowsOf
  <2>2. /\ job[j].result = [type |-> "job_succeeded", attempt |-> x.attempt]
        /\ job[j].result = [type |-> "job_succeeded", attempt |-> y.attempt]
    BY <1>1, <1>2, <2>1, RowShape DEF RowIsTrue
  <2>3. x.attempt = y.attempt /\ x.attempt = job[j].result.attempt
    BY <2>2
  <2> QED
    BY <1>1, <1>2, <2>3, RowShape DEF RowIsNumbered
<1>3. x.id = 1
  BY <1>1, <1>2, RowShape DEF RowIsNumbered
<1> QED
  BY <1>1, <1>2, <1>3 DEF RowsOf

LEMMA SecondAttempt ==
    ASSUME NEW a \in Attempts, a # 1
    PROVE  2 \in 1..Cardinality(Attempts)
<1>1. {1, a} \subseteq Attempts /\ IsFiniteSet(Attempts)
  BY AttemptsAssumption
<1>2. Cardinality({1, a}) = 2
  <2>1. Cardinality({1}) = 1 /\ IsFiniteSet({1})
    BY FS_Singleton
  <2>2. Cardinality({1} \cup {a}) = 2
    BY <2>1, FS_AddElement
  <2>3. {1} \cup {a} = {1, a}
    OBVIOUS
  <2> QED
    BY <2>2, <2>3
<1>3. Cardinality({1, a}) <= Cardinality(Attempts) /\ Cardinality(Attempts) \in Nat
  BY <1>1, FS_Subset, FS_CardinalityType
<1> QED
  BY <1>2, <1>3

LEMMA StoreStartShape ==
    ASSUME IInv, NEW e \in Event, e.type \in Starts, StoreStart(e)
    PROVE  /\ UNCHANGED artifacts
           /\ \/ UNCHANGED rows /\ \E row \in RowsOf(e.job) : row.attempt = 1
              \/ rows' = rows \cup {Started(e, 1)} /\ RowsOf(e.job) = {}
              \/ \E x \in rows : /\ RowsOf(e.job) = {x} /\ x.id = 1 /\ x.attempt # 1
                                 /\ rows' = rows \cup {Started(e, 2)}
<1>1. CASE \E row \in RowsOf(e.job) : row.attempt = 1
  BY <1>1 DEF StoreStart
<1>2. CASE ~\E row \in RowsOf(e.job) : row.attempt = 1
  <2>1. rows' = rows \cup {Started(e, Cardinality(RowsOf(e.job)) + 1)} /\ UNCHANGED artifacts
    BY <1>2 DEF StoreStart
  <2>2. CASE RowsOf(e.job) = {}
    <3>1. Cardinality(RowsOf(e.job)) = 0
      BY <2>2, FS_EmptySet
    <3>2. Cardinality(RowsOf(e.job)) + 1 = 1
      BY <3>1
    <3> QED
      BY <2>1, <2>2, <3>2
  <2>3. CASE RowsOf(e.job) # {}
    <3>1. PICK x \in rows : RowsOf(e.job) = {x} /\ x.id = 1 /\ x.attempt # 1
      BY <1>2, <2>3, OnlyOneLater, EventShape
    <3>2. Cardinality(RowsOf(e.job)) = 1
      BY <3>1, FS_Singleton
    <3>3. Cardinality(RowsOf(e.job)) + 1 = 2
      BY <3>2
    <3> QED
      BY <2>1, <3>1, <3>3
  <2> QED
    BY <2>2, <2>3
<1> QED
  BY <1>1, <1>2

(* The row after a result.                                                 *)
Updated(old, e) ==
    [id |-> old.id, job |-> old.job,
     attempt |-> IF e.type = "job_succeeded" THEN e.attempt ELSE old.attempt,
     status |-> IF e.type = "job_succeeded" THEN "success" ELSE "failed"]

LEMMA StoreResultShape ==
    ASSUME IInv, NEW e \in Event, e.type \in Ends, NEW id,
           \E row \in RowsOf(e.job) : row.id = id, StoreResult(e, id)
    PROVE  \E old \in RowsOf(e.job) :
               /\ old.id = id
               /\ \/ UNCHANGED tables
                       /\ \E row \in RowsOf(e.job) \ {old} : row.attempt = Updated(old, e).attempt
                  \/ /\ rows' = (rows \ {old}) \cup {Updated(old, e)}
                     /\ artifacts' = [artifacts EXCEPT ![e.job] =
                                          IF e.type = "job_succeeded" THEN @ + 1 ELSE @]
                     /\ \A row \in RowsOf(e.job) \ {old} : row.attempt # Updated(old, e).attempt
<1> DEFINE old == CHOOSE row \in RowsOf(e.job) : row.id = id
           new == [id |-> id, job |-> e.job,
                   attempt |-> IF e.type = "job_succeeded" THEN e.attempt ELSE old.attempt,
                   status |-> IF e.type = "job_succeeded" THEN "success" ELSE "failed"]
<1>1. old \in RowsOf(e.job) /\ old.id = id
  OBVIOUS
<1>2. IF \E row \in RowsOf(e.job) \ {old} : row.attempt = new.attempt
      THEN UNCHANGED tables
      ELSE /\ rows' = (rows \ {old}) \cup {new}
           /\ artifacts' = [artifacts EXCEPT ![e.job] =
                                IF e.type = "job_succeeded" THEN @ + 1 ELSE @]
  BY DEF StoreResult
<1> HIDE DEF old
<1>3. new = Updated(old, e)
  BY <1>1 DEF RowsOf, Updated
<1> HIDE DEF new
<1> QED
  BY <1>1, <1>2, <1>3

LEMMA StoreShape ==
    ASSUME IInv, NEW r \in Replicas, Store(r)
    PROVE  /\ replica[r].at = "loaded" /\ replica[r].hand # {} /\ InHand(r) \in Event
           /\ EventIsTrue(InHand(r))
           /\ replica[r].seen \subseteq {row.id : row \in RowsOf(InHand(r).job)}
           /\ Update(r, Handled(r)) /\ UNCHANGED <<skips, job, recorded, late, stream, next, pending>>
           /\ UNCHANGED faults
           /\ \/ InHand(r).type \in Starts /\ StoreStart(InHand(r))
              \/ InHand(r).type \in Ends /\ replica[r].seen = {} /\ UNCHANGED tables
              \/ /\ InHand(r).type \in Ends
                 /\ \E id \in replica[r].seen : StoreResult(InHand(r), id)
<1>1. /\ replica[r].at = "loaded"
      /\ Update(r, Handled(r)) /\ UNCHANGED <<skips, job, recorded, late, stream, next, pending>>
      /\ UNCHANGED faults
      /\ IF InHand(r).type \in Starts THEN StoreStart(InHand(r))
         ELSE IF replica[r].seen = {} THEN UNCHANGED tables
         ELSE \E id \in replica[r].seen : StoreResult(InHand(r), id)
  BY DEF Store, workerVars, redis, Handled, Starts
<1>2. /\ replica[r].hand # {}
      /\ replica[r].seen \subseteq {row.id : row \in RowsOf(InHand(r).job)}
  BY <1>1 DEF IInv, HandsAreFull
<1>3. InHand(r) \in Event /\ EventIsTrue(InHand(r))
  BY <1>2, HandShape DEF IInv, EventsAreTrue, InHand
<1>4. InHand(r).type \in Starts \/ InHand(r).type \in Ends
  BY <1>3, EventShape
<1> QED
  BY <1>1, <1>2, <1>3, <1>4

(* A row that was stored is true and numbered, final rows and ids stay.    *)
StoredRowsAreTrue ==
    /\ rows' \subseteq Row /\ artifacts' \in [Jobs -> Nat]
    /\ \A row \in rows' : RowIsTrue(row) /\ RowIsNumbered(row)'
    /\ \A row \in rows : row.status # "running" => row \in rows'
    /\ \A row \in rows : \E new \in rows' : new.job = row.job /\ new.id = row.id

LEMMA StartedIsTrue ==
    ASSUME IInv, NEW e \in Event, e.type \in Starts, EventIsTrue(e), StoreStart(e)
    PROVE  StoredRowsAreTrue
<1>1. e.job \in Jobs /\ UNCHANGED artifacts /\ artifacts \in [Jobs -> Nat] /\ rows \subseteq Row
  BY EventShape, StoreStartShape DEF IInv, TypeOK
<1>2. CASE UNCHANGED rows
  BY <1>2, StoreStartShape, RowShape DEF StoredRowsAreTrue, RowIsNumbered, IInv, TypeOK
<1>3. ASSUME NEW new \in Row, rows' = rows \cup {new}, new.job = e.job, new.attempt = 1,
             RowIsTrue(new), new.id \in {1, 2}, \A row \in RowsOf(e.job) : row.attempt # 1,
             IF new.id = 1 THEN RowsOf(e.job) = {}
             ELSE \E x \in rows : RowsOf(e.job) = {x} /\ x.id = 1 /\ x.attempt # 1
      PROVE  StoredRowsAreTrue
  <2>1. \A row \in rows : row.job = e.job => new.id = 2 /\ row.id = 1 /\ row.attempt # 1
    BY <1>3 DEF RowsOf
  <2>2. new.id = 2 => \E x \in rows : x.job = e.job /\ x.id = 1 /\ x.attempt # 1
    BY <1>3 DEF RowsOf
  <2>3. RowIsNumbered(new)'
    BY <1>3, <2>1, <2>2 DEF RowIsNumbered
  <2>4. ASSUME NEW row \in rows PROVE RowIsNumbered(row)'
    BY <1>3, <2>1, RowShape DEF RowIsNumbered
  <2> QED
    BY <1>1, <1>3, <2>3, <2>4, RowShape DEF StoredRowsAreTrue
<1>4. ASSUME NEW id \in {1, 2}, id \in 1..Cardinality(Attempts)
      PROVE  /\ Started(e, id) \in Row /\ Started(e, id).job = e.job
             /\ Started(e, id).attempt = 1 /\ Started(e, id).id = id
             /\ RowIsTrue(Started(e, id))
  <2>1. e.type \in {"job_started", "job_skipped"} /\ 1 \in Attempts
    BY AttemptsAssumption DEF Starts
  <2> QED
    BY <1>1, <1>4, <2>1 DEF Started, Row, RowIsTrue, EventIsTrue
<1>5. CASE rows' = rows \cup {Started(e, 1)} /\ RowsOf(e.job) = {}
  <2>1. 1 \in 1..Cardinality(Attempts)
    BY AttemptsAssumption, FS_CardinalityType, FS_EmptySet
  <2> QED
    BY <1>3, <1>4, <1>5, <2>1
<1>6. ASSUME NEW x \in rows, RowsOf(e.job) = {x}, x.id = 1, x.attempt # 1,
             rows' = rows \cup {Started(e, 2)}
      PROVE  StoredRowsAreTrue
  <2>1. 2 \in 1..Cardinality(Attempts)
    BY <1>6, RowShape, SecondAttempt
  <2> QED
    BY <1>3, <1>4, <1>6, <2>1
<1> QED
  BY <1>2, <1>5, <1>6, StoreStartShape

LEMMA ResultIsTrue ==
    ASSUME IInv, NEW e \in Event, e.type \in Ends, EventIsTrue(e), NEW id,
           \E row \in RowsOf(e.job) : row.id = id, StoreResult(e, id)
    PROVE  StoredRowsAreTrue
<1>1. /\ e.job \in Jobs /\ e.job \notin skips
      /\ artifacts \in [Jobs -> Nat] /\ rows \subseteq Row
      /\ job[e.job].result = [type |-> e.type, attempt |-> e.attempt]
      /\ e.type \in {"job_succeeded", "job_failed"}
      /\ e.type = "job_succeeded" => e.attempt \in Attempts
  BY EventShape DEF IInv, TypeOK, EventIsTrue, Ends
<1>2. CASE UNCHANGED tables
  BY <1>1, <1>2, RowShape DEF StoredRowsAreTrue, RowIsNumbered, tables
<1>3. ASSUME NEW old \in RowsOf(e.job), rows' = (rows \ {old}) \cup {Updated(old, e)},
             artifacts' = [artifacts EXCEPT ![e.job] =
                               IF e.type = "job_succeeded" THEN @ + 1 ELSE @],
             \A row \in RowsOf(e.job) \ {old} : row.attempt # Updated(old, e).attempt
      PROVE  StoredRowsAreTrue
  <2>1. /\ old \in rows /\ old.job = e.job /\ old \in Row
        /\ RowIsTrue(old) /\ RowIsNumbered(old)
    BY <1>3, RowShape DEF RowsOf
  <2>0. PICK new : new = Updated(old, e)
    OBVIOUS
  <2>2. /\ new.job = e.job /\ new.id = old.id /\ new \in Row /\ RowIsTrue(new)
        /\ old.status # "running" => new = old
    <3>1. new = [id |-> old.id, job |-> e.job,
                 attempt |-> IF e.type = "job_succeeded" THEN e.attempt ELSE old.attempt,
                 status |-> IF e.type = "job_succeeded" THEN "success" ELSE "failed"]
      BY <2>0, <2>1 DEF Updated
    <3>2. /\ old.id \in 1..Cardinality(Attempts) /\ old.attempt \in Attempts
          /\ old.status \in {"running", "success", "failed", "skipped"}
          /\ old = [id |-> old.id, job |-> e.job, attempt |-> old.attempt, status |-> old.status]
      BY <2>1 DEF Row
    <3>3. new \in Row
      BY <1>1, <3>1, <3>2 DEF Row
    <3>4. e.type = "job_failed" => old.attempt = 1
      BY <1>1, <2>1 DEF RowIsTrue
    <3>5. RowIsTrue(new)
      BY <1>1, <3>1, <3>4 DEF RowIsTrue
    <3>6. ASSUME old.status # "running" PROVE new = old
      <4>1. old.status \in {"success", "failed"}
        BY <1>1, <2>1, <3>2, <3>6 DEF RowIsTrue
      <4>2. CASE e.type = "job_succeeded"
        BY <1>1, <2>1, <3>1, <3>2, <4>1, <4>2 DEF RowIsTrue
      <4>3. CASE e.type = "job_failed"
        BY <1>1, <2>1, <3>1, <3>2, <4>1, <4>3 DEF RowIsTrue
      <4> QED
        BY <1>1, <4>2, <4>3
    <3> QED
      BY <3>1, <3>3, <3>5, <3>6
  <2>3. rows' = (rows \ {old}) \cup {new} /\ \A row \in rows \ {old} :
            row.job = e.job => row.attempt # new.attempt /\ row.id # new.id
    BY <1>3, <2>0, <2>1, <2>2 DEF RowsOf, RowIsNumbered
  <2>4. RowIsNumbered(new)'
    <3>1. new.id \in {1, 2}
      BY <2>1, <2>2 DEF RowIsNumbered
    <3>2. ASSUME new.id = 2
          PROVE  \E other \in rows' : other.job = new.job /\ other.id = 1 /\ other.attempt # 1
      <4>1. PICK other \in rows : other.job = old.job /\ other.id = 1 /\ other.attempt # 1
        BY <2>1, <2>2, <3>2 DEF RowIsNumbered
      <4>2. old.id = 2
        BY <2>2, <3>2
      <4>3. other # old
        BY <4>1, <4>2
      <4>4. other \in rows'
        BY <2>3, <4>3
      <4> QED
        BY <2>1, <2>2, <4>1, <4>4
    <3>3. \A other \in rows' :
              other.job = new.job /\ (other.id = new.id \/ other.attempt = new.attempt)
                  => other = new
      BY <2>2, <2>3
    <3> QED
      BY <3>1, <3>2, <3>3 DEF RowIsNumbered
  <2>5. ASSUME NEW row \in rows \ {old} PROVE RowIsNumbered(row)'
    <3>1. RowIsNumbered(row)
      BY RowShape
    <3>2. ASSUME row.id = 2
          PROVE  \E other \in rows' : other.job = row.job /\ other.id = 1 /\ other.attempt # 1
      <4>1. PICK other \in rows : other.job = row.job /\ other.id = 1 /\ other.attempt # 1
        BY <3>1, <3>2 DEF RowIsNumbered
      <4>2. CASE other = old
        <5>1. old.status # "running"
          BY <2>1, <4>1, <4>2 DEF RowIsTrue
        <5> QED
          BY <2>2, <2>3, <4>1, <4>2, <5>1
      <4>3. CASE other # old
        BY <2>3, <4>1, <4>3
      <4> QED
        BY <4>2, <4>3
    <3>3. \A other \in rows' :
              other.job = row.job /\ (other.id = row.id \/ other.attempt = row.attempt)
                  => other = row
      BY <2>2, <2>3, <3>1 DEF RowIsNumbered
    <3> QED
      BY <3>1, <3>2, <3>3 DEF RowIsNumbered
  <2>6. artifacts' \in [Jobs -> Nat]
    BY <1>1, <1>3
  <2>7. \A row \in rows : \E x \in rows' : x.job = row.job /\ x.id = row.id
    BY <2>1, <2>2, <2>3
  <2>8. \A row \in rows : row.status # "running" => row \in rows'
    BY <2>1, <2>2, <2>3
  <2> QED
    BY <1>1, <2>2, <2>3, <2>4, <2>5, <2>6, <2>7, <2>8, RowShape DEF StoredRowsAreTrue
<1> QED
  BY <1>2, <1>3, StoreResultShape

LEMMA StoreIsTrue ==
    ASSUME IInv, NEW r \in Replicas, Store(r)
    PROVE  StoredRowsAreTrue
<1>1. CASE UNCHANGED tables
  BY <1>1, RowShape DEF StoredRowsAreTrue, RowIsNumbered, tables, IInv, TypeOK
<1>2. ASSUME InHand(r).type \in Starts, StoreStart(InHand(r)) PROVE StoredRowsAreTrue
  BY <1>2, StoreShape, StartedIsTrue
<1>3. ASSUME InHand(r).type \in Ends, NEW id \in replica[r].seen, StoreResult(InHand(r), id)
      PROVE  StoredRowsAreTrue
  <2>1. \E row \in RowsOf(InHand(r).job) : row.id = id
    BY <1>3, StoreShape
  <2> QED
    BY <1>3, <2>1, StoreShape, ResultIsTrue
<1> QED
  BY <1>1, <1>2, <1>3, StoreShape

LEMMA StoreKeeps ==
    ASSUME IInv, NEW r \in Replicas, Store(r)
    PROVE  IInv'
<1>1. StoredRowsAreTrue
  BY StoreIsTrue
<1>2. /\ Update(r, Handled(r)) /\ UNCHANGED <<skips, job, recorded, late, stream, next, pending>>
      /\ UNCHANGED faults /\ replica[r].hand # {}
  BY StoreShape
<1>3. /\ replica' \in [Replicas -> ReplicaState]
      /\ \A s \in Replicas : replica'[s] = IF s = r THEN Handled(r) ELSE replica[s]
  BY <1>2, HandledShape DEF Update, IInv, TypeOK, ReplicaState
<1>4. TypeOK'
  BY <1>1, <1>2, <1>3, FaultShape DEF IInv, TypeOK, ReplicaState, StoredRowsAreTrue
<1>5. StagesAreTrue' /\ EventsAreTrue'
  BY <1>2 DEF IInv, StagesAreTrue, StageIsTrue, EventsAreTrue, EventIsTrue
<1>6. RowsAreTrue' /\ RowsAreNumbered'
  BY <1>1, <1>2 DEF StoredRowsAreTrue, RowsAreTrue, RowIsTrue, RowsAreNumbered
<1>7. HandsAreFull'
  <2> SUFFICES ASSUME NEW s \in Replicas
               PROVE  /\ replica'[s].at \in {"loaded", "stored"} => replica'[s].hand # {}
                      /\ replica'[s].at = "loaded" => \A id \in replica'[s].seen :
                          \E row \in rows' : row.job = stream[Min(replica'[s].hand)].job /\ row.id = id
    BY <1>2 DEF HandsAreFull, RowsOf, InHand
  <2>1. CASE s = r
    BY <1>2, <1>3, <2>1, HandledShape
  <2>2. CASE s # r
    <3>1. replica'[s] = replica[s]
      BY <1>3, <2>2
    <3>2. replica[s].at = "loaded" => \A id \in replica[s].seen :
              \E row \in rows : row.job = stream[Min(replica[s].hand)].job /\ row.id = id
      BY DEF IInv, HandsAreFull, RowsOf, InHand
    <3>3. replica[s].at = "loaded" => \A id \in replica[s].seen :
              \E row \in rows' : row.job = stream[Min(replica[s].hand)].job /\ row.id = id
      BY <1>1, <3>2 DEF StoredRowsAreTrue
    <3> QED
      BY <3>1, <3>3 DEF IInv, HandsAreFull
  <2> QED
    BY <2>1, <2>2
<1> QED
  BY <1>4, <1>5, <1>6, <1>7 DEF IInv

LEMMA InitInv == Init => IInv
<1> SUFFICES ASSUME Init PROVE IInv
  OBVIOUS
<1>1. stream = <<>> /\ DOMAIN stream = {} /\ Len(stream) = 0 /\ rows = {} /\ late = {}
  BY DEF Init
<1>2. \A r \in Replicas : replica[r] = Off
  BY DEF Init
<1>3. Off \in ReplicaState /\ Off.at = "off"
  BY <1>1 DEF Off, ReplicaState
<1>4. Fresh \in JobState /\ Fresh.stage = "pending" /\ Fresh.result = NoResult
  BY DEF Fresh, JobState, Stages
<1>5. TypeOK
  <2>1. job \in [Jobs -> JobState] /\ recorded \in [Jobs -> JobState]
    BY <1>4 DEF Init
  <2>2. replica \in [Replicas -> ReplicaState]
    BY <1>3 DEF Init
  <2>3. stream \in Seq(Event) /\ next \in 1..(Len(stream) + 1) /\ pending \subseteq 1..(next - 1)
    BY <1>1 DEF Init
  <2> QED
    BY <1>1, <2>1, <2>2, <2>3, BoundsAssumption DEF Init, TypeOK, ReplicaState
<1>6. StagesAreTrue
  <2> SUFFICES ASSUME NEW j \in Jobs
               PROVE  /\ job[j].result = recorded[j].result
                      /\ StageIsTrue(j, job[j]) /\ StageIsTrue(j, recorded[j])
    BY DEF StagesAreTrue
  <2>1. job[j] = Fresh /\ recorded[j] = Fresh
    BY DEF Init
  <2> QED
    BY <1>4, <2>1 DEF StageIsTrue
<1>7. EventsAreTrue /\ RowsAreTrue /\ RowsAreNumbered
  BY <1>1 DEF EventsAreTrue, RowsAreTrue, RowsAreNumbered
<1>8. HandsAreFull
  BY <1>2, <1>3 DEF HandsAreFull
<1> QED
  BY <1>5, <1>6, <1>7, <1>8 DEF IInv

LEMMA StepInvariant == IInv /\ [Next]_vars => IInv'
<1> SUFFICES ASSUME IInv, [Next]_vars PROVE IInv'
  OBVIOUS
<1>1. CASE UNCHANGED vars
  BY <1>1, SilentKeeps DEF vars, redis, tables, faults, ResultsStay, IInv, TypeOK, StagesAreTrue, StageIsTrue
<1>2. CASE WorkerStep
  BY <1>2, EmitKeeps, EmitTimesOutKeeps, ActivityEndsKeeps, TaskRecordedKeeps, PublishLateKeeps
     DEF WorkerStep
<1>3. CASE WorkerCrashes
  BY <1>3, WorkerCrashesKeeps
<1>4. ASSUME NEW r \in Replicas, SubscriberStep(r) \/ StoreFails(r) \/ Disconnect(r) PROVE IInv'
  BY <1>4, ConnectKeeps, ReadPendingKeeps, ReadNewKeeps, LoadKeeps, StoreKeeps, AckKeeps,
     StoreFailsKeeps, DisconnectKeeps DEF SubscriberStep
<1> QED
  BY <1>1, <1>2, <1>3, <1>4 DEF Next

LEMMA Invariant == Spec => []IInv
BY InitInv, StepInvariant, PTL DEF Spec

(* The types are correct: a job never has more rows than it has attempts,  *)
(* and no replica holds a message that is not in the stream.               *)
THEOREM TypeCorrect == Spec => []TypeOK
<1>1. IInv => TypeOK
  BY DEF IInv
<1> QED
  BY <1>1, Invariant, PTL

(* Whatever is repeated, late, lost or refused, and however many replicas  *)
(* work on the events of one execution, a row that says how a job ended    *)
(* stays as it is (_project_job).                                          *)
THEOREM FinalRowsAreFinal == Spec => FinalRowsStay
<1>1. ASSUME IInv, [Next]_vars
      PROVE  [\A row \in rows : row.status # "running" => row \in rows']_vars
  <2>1. CASE rows' = rows
    BY <2>1
  <2>2. ASSUME NEW r \in Replicas, Store(r)
        PROVE  \A row \in rows : row.status # "running" => row \in rows'
    BY <1>1, <2>2, StoreIsTrue DEF StoredRowsAreTrue
  <2>3. rows' = rows \/ \E r \in Replicas : Store(r)
    BY <1>1 DEF Next, vars, WorkerStep, Emit, EmitTimesOut, ActivityEnds, TaskRecorded, PublishLate,
                WorkerCrashes, SubscriberStep, Connect, ReadPending, ReadNew, Load, StoreFails, Ack,
                Disconnect, tables
  <2> QED
    BY <2>1, <2>2, <2>3
<1> QED
  BY <1>1, Invariant, PTL DEF Spec, FinalRowsStay

-----------------------------------------------------------------------------
(* One replica: the stream.                                                *)

LEMMA AnnouncedStays ==
    ASSUME Grows, NEW S \in SUBSET DOMAIN stream, NEW j, NEW types
    PROVE  AnnouncedIn(S, j, types)' <=> AnnouncedIn(S, j, types)
BY DEF AnnouncedIn, Grows


LEMMA StartsStayFirst ==
    ASSUME IInv, StartsComeFirst, Grows, losses' = 0 => losses = 0,
           losses' = 0 => \A j \in Jobs :
               job'[j].stage # "pending" \/ recorded'[j].stage # "pending"
                   => \/ job[j].stage # "pending" \/ recorded[j].stage # "pending"
                      \/ AnnouncedIn(DOMAIN stream, j, Starts)',
           losses' = 0 => \A k \in DOMAIN stream' : k \notin DOMAIN stream =>
               /\ k = Len(stream) + 1 /\ stream'[k].job \in Jobs
               /\ stream'[k].type \in Ends => job[stream'[k].job].stage # "pending"
    PROVE  StartsComeFirst'
<1> SUFFICES ASSUME losses' = 0
             PROVE  /\ \A j \in Jobs : job'[j].stage # "pending" \/ recorded'[j].stage # "pending"
                           => \E k \in DOMAIN stream' : stream'[k].job = j /\ stream'[k].type \in Starts
                    /\ \A k \in DOMAIN stream' : stream'[k].type \in Ends
                           => \E m \in 1..(k - 1) : stream'[m].job = stream'[k].job
                                                    /\ stream'[m].type \in Starts
  BY DEF StartsComeFirst, AnnouncedIn
<1>1. losses = 0 /\ Len(stream) \in Nat /\ DOMAIN stream = 1..Len(stream)
  BY StreamShape DEF IInv
<1>2. \A j \in Jobs : job[j].stage # "pending" \/ recorded[j].stage # "pending"
          => \E k \in DOMAIN stream : stream[k].job = j /\ stream[k].type \in Starts
  BY <1>1 DEF StartsComeFirst, AnnouncedIn
<1>3. ASSUME NEW j \in Jobs, job'[j].stage # "pending" \/ recorded'[j].stage # "pending"
      PROVE  \E k \in DOMAIN stream' : stream'[k].job = j /\ stream'[k].type \in Starts
  BY <1>2, <1>3 DEF Grows, AnnouncedIn
<1>4. ASSUME NEW k \in DOMAIN stream', stream'[k].type \in Ends
      PROVE  \E m \in 1..(k - 1) : stream'[m].job = stream'[k].job /\ stream'[m].type \in Starts
  <2>1. CASE k \in DOMAIN stream
    <3>1. stream[k].type \in Ends /\ stream'[k] = stream[k]
      BY <1>4, <2>1 DEF Grows
    <3>2. PICK m \in 1..(k - 1) : stream[m].job = stream[k].job /\ stream[m].type \in Starts
      BY <1>1, <2>1, <3>1 DEF StartsComeFirst, AnnouncedIn
    <3>3. m \in DOMAIN stream
      BY <1>1, <2>1
    <3> QED
      BY <3>1, <3>2, <3>3 DEF Grows
  <2>2. CASE k \notin DOMAIN stream
    <3>1. k = Len(stream) + 1 /\ stream'[k].job \in Jobs /\ job[stream'[k].job].stage # "pending"
      BY <1>4, <2>2
    <3>2. PICK m \in DOMAIN stream : stream[m].job = stream'[k].job /\ stream[m].type \in Starts
      BY <1>2, <3>1
    <3>3. m \in 1..(k - 1)
      BY <1>1, <3>1
    <3> QED
      BY <3>2, <3>3 DEF Grows
  <2> QED
    BY <2>1, <2>2
<1> QED
  BY <1>3, <1>4

LEMMA EndsStayLast ==
    ASSUME IInv, EndsComeLast, Grows, timeouts' = 0 => timeouts = 0,
           timeouts' = 0 /\ late = {} => late' = {},
           timeouts' = 0 => \A k \in DOMAIN stream' : k \notin DOMAIN stream =>
               /\ k = Len(stream) + 1 /\ stream'[k].job \in Jobs
               /\ stream'[k].type \in Starts => job[stream'[k].job].result = NoResult
    PROVE  EndsComeLast'
<1> SUFFICES ASSUME timeouts' = 0, NEW k \in DOMAIN stream', NEW m \in DOMAIN stream',
                    stream'[k].job = stream'[m].job,
                    stream'[k].type \in Starts, stream'[m].type \in Ends
             PROVE  k < m
  BY DEF EndsComeLast
<1>1. Len(stream) \in Nat /\ DOMAIN stream = 1..Len(stream) /\ timeouts = 0
  BY StreamShape DEF IInv
<1>2. \A x : ~(x \in Starts /\ x \in Ends)
  BY DEF Starts, Ends
<1>3. CASE k \in DOMAIN stream /\ m \in DOMAIN stream
  <2>1. stream'[k] = stream[k] /\ stream'[m] = stream[m]
    BY <1>3 DEF Grows
  <2> QED
    BY <1>1, <1>3, <2>1 DEF EndsComeLast
<1>4. CASE k \in DOMAIN stream /\ m \notin DOMAIN stream
  BY <1>1, <1>4
<1>5. CASE k \notin DOMAIN stream /\ m \in DOMAIN stream
  <2>1. stream[m] \in Event /\ EventIsTrue(stream[m]) /\ stream'[m] = stream[m]
    BY <1>5, StreamShape DEF IInv, EventsAreTrue, Grows
  <2>2. job[stream[m].job].result # NoResult
    BY <2>1 DEF EventIsTrue, NoResult, Ends
  <2> QED
    BY <1>5, <2>1, <2>2
<1>6. CASE k \notin DOMAIN stream /\ m \notin DOMAIN stream
  BY <1>2, <1>6
<1> QED
  BY <1>3, <1>4, <1>5, <1>6

StreamInOrder == StartsComeFirst /\ EndsComeLast

LEMMA FaultsGrow ==
    ASSUME TypeOK, UNCHANGED faults \/ Loss \/ Timeout \/ Restart
    PROVE  /\ losses' = 0 => losses = 0 /\ ~Loss
           /\ timeouts' = 0 => timeouts = 0 /\ ~Timeout
BY BoundsAssumption DEF TypeOK, faults, Loss, Timeout, Restart

(* An event that comes to the stream.                                      *)
LEMMA AppendInOrder ==
    ASSUME IInv, StreamInOrder, NEW e \in Event, stream' = Append(stream, e),
           losses' = 0 => losses = 0, timeouts' = 0 => timeouts = 0,
           timeouts' = 0 /\ late = {} => late' = {},
           \A i \in Jobs :
               job'[i].stage # "pending" \/ recorded'[i].stage # "pending"
                   => \/ job[i].stage # "pending" \/ recorded[i].stage # "pending"
                      \/ i = e.job /\ e.type \in Starts,
           e.type \in Ends => job[e.job].stage # "pending",
           timeouts' = 0 /\ e.type \in Starts => job[e.job].result = NoResult
    PROVE  StreamInOrder'
<1>1. /\ Grows /\ stream'[Len(stream) + 1] = e
      /\ \A k \in DOMAIN stream' : k \in DOMAIN stream \/ k = Len(stream) + 1
      /\ Len(stream) + 1 \in DOMAIN stream'
  <2>1. Len(stream') = Len(stream) + 1 /\ DOMAIN stream' = 1..Len(stream') /\ Len(stream) \in Nat
    BY Appended, StreamShape DEF IInv, Grows
  <2> QED
    BY <2>1, Appended DEF IInv
<1>2. e.type \in Starts => AnnouncedIn(DOMAIN stream, e.job, Starts)'
  BY <1>1 DEF AnnouncedIn
<1>3. StartsComeFirst'
  <2>1. \A i \in Jobs :
            job'[i].stage # "pending" \/ recorded'[i].stage # "pending"
                => \/ job[i].stage # "pending" \/ recorded[i].stage # "pending"
                   \/ AnnouncedIn(DOMAIN stream, i, Starts)'
    BY <1>2
  <2>2. \A k \in DOMAIN stream' : k \notin DOMAIN stream =>
            /\ k = Len(stream) + 1 /\ stream'[k].job \in Jobs
            /\ stream'[k].type \in Ends => job[stream'[k].job].stage # "pending"
    BY <1>1, EventShape
  <2> QED
    BY <1>1, <2>1, <2>2, StartsStayFirst DEF StreamInOrder
<1>4. EndsComeLast'
  <2>1. timeouts' = 0 => \A k \in DOMAIN stream' : k \notin DOMAIN stream =>
            /\ k = Len(stream) + 1 /\ stream'[k].job \in Jobs
            /\ stream'[k].type \in Starts => job[stream'[k].job].result = NoResult
    BY <1>1, EventShape
  <2> QED
    BY <1>1, <2>1, EndsStayLast DEF StreamInOrder
<1> QED
  BY <1>3, <1>4 DEF StreamInOrder

LEMMA QuietInOrder ==
    ASSUME IInv, StreamInOrder, UNCHANGED stream,
           losses' = 0 => losses = 0, timeouts' = 0 => timeouts = 0,
           timeouts' = 0 /\ late = {} => late' = {},
           losses' = 0 => \A i \in Jobs :
               job'[i].stage # "pending" \/ recorded'[i].stage # "pending"
                   => job[i].stage # "pending" \/ recorded[i].stage # "pending"
    PROVE  StreamInOrder'
<1>1. Grows /\ DOMAIN stream' = DOMAIN stream
  BY NotAppended DEF IInv
<1>2. StartsComeFirst'
  BY <1>1, StartsStayFirst DEF StreamInOrder
<1>3. EndsComeLast'
  BY <1>1, EndsStayLast DEF StreamInOrder
<1> QED
  BY <1>2, <1>3 DEF StreamInOrder

LEMMA StepInOrder ==
    ASSUME IInv, StreamInOrder, [Next]_vars
    PROVE  StreamInOrder'
<1>0. TypeOK /\ StagesAreTrue /\ EventsAreTrue
  BY DEF IInv
<1>1. ASSUME NEW j \in Jobs, Emit(j) PROVE StreamInOrder'
  <2>1. /\ Saying(j)
        /\ (stream' = Append(stream, Emission(j)) /\ UNCHANGED faults) \/ (Loss /\ UNCHANGED stream)
        /\ job' = [job EXCEPT ![j].stage = StageAfter(j)]
        /\ UNCHANGED <<recorded, late>>
    BY <1>1 DEF Emit
  <2>2. /\ Emission(j) \in Event /\ Emission(j).job = j
        /\ Emission(j).type \in Ends <=> job[j].stage = "ended"
    BY <2>1, EmissionIsTrue
  <2>3. \A i \in Jobs : i # j => job'[i].stage = job[i].stage
    BY <2>1, <1>0 DEF TypeOK
  <2>4. losses' = 0 => losses = 0 /\ ~Loss
    BY <2>1, <1>0, FaultsGrow
  <2>5. timeouts' = 0 => timeouts = 0
    BY <2>1, <1>0, FaultsGrow
  <2>6. CASE stream' = Append(stream, Emission(j))
    <3>1. Emission(j).type \in Starts => job[j].stage = "pending" /\ job[j].result = NoResult
      <4>1. job[j].stage = "pending" => job[j].result = NoResult
        BY <1>0 DEF StagesAreTrue, StageIsTrue
      <4>2. Emission(j).type \in Starts => Emission(j).type \notin Ends
        BY DEF Starts, Ends
      <4> QED
        BY <2>1, <2>2, <4>1, <4>2 DEF Saying
    <3>2. \A i \in Jobs :
              job'[i].stage # "pending" \/ recorded'[i].stage # "pending"
                  => \/ job[i].stage # "pending" \/ recorded[i].stage # "pending"
                     \/ i = Emission(j).job /\ Emission(j).type \in Starts
      <4>1. job[j].stage = "pending" => Emission(j).type \in Starts
        BY <2>2, EventShape
      <4> QED
        BY <2>1, <2>2, <2>3, <4>1
    <3> QED
      BY <2>1, <2>2, <2>4, <2>5, <2>6, <3>1, <3>2, AppendInOrder
  <2>7. CASE Loss /\ UNCHANGED stream
    BY <2>1, <2>4, <2>5, <2>7, QuietInOrder
  <2> QED
    BY <2>1, <2>6, <2>7
<1>2. ASSUME NEW j \in Jobs, EmitTimesOut(j) PROVE StreamInOrder'
  <2>1. UNCHANGED <<job, recorded, stream>> /\ Timeout
    BY <1>2 DEF EmitTimesOut, redis
  <2> QED
    BY <2>1, <1>0, FaultsGrow, QuietInOrder
<1>3. ASSUME NEW j \in Jobs, NEW result \in Results, ActivityEnds(j, result) PROVE StreamInOrder'
  <2>1. /\ recorded[j].stage = "started" /\ job[j].stage = "started"
        /\ job' = [job EXCEPT ![j] = [stage |-> "ended", result |-> result]]
        /\ recorded' = [recorded EXCEPT ![j] = [stage |-> "ended", result |-> result]]
        /\ UNCHANGED <<late, stream>> /\ UNCHANGED faults
    BY <1>3 DEF ActivityEnds, redis
  <2>2. \A i \in Jobs : i # j => job'[i] = job[i] /\ recorded'[i] = recorded[i]
    BY <2>1, <1>0 DEF TypeOK
  <2>3. \A i \in Jobs :
            job'[i].stage # "pending" \/ recorded'[i].stage # "pending"
                => job[i].stage # "pending" \/ recorded[i].stage # "pending"
    BY <2>1, <2>2
  <2> QED
    BY <2>1, <2>3, <1>0, FaultsGrow, QuietInOrder
<1>4. CASE TaskRecorded
  <2>1. recorded' = job /\ UNCHANGED <<job, late, stream>> /\ UNCHANGED faults
    BY <1>4 DEF TaskRecorded, redis
  <2> QED
    BY <2>1, <1>0, FaultsGrow, QuietInOrder
<1>5. CASE WorkerCrashes
  <2>1. job' = recorded /\ UNCHANGED <<recorded, late, stream>> /\ Restart
    BY <1>5 DEF WorkerCrashes, redis
  <2> QED
    BY <2>1, <1>0, FaultsGrow, QuietInOrder
<1>6. ASSUME NEW e \in late, PublishLate(e) PROVE StreamInOrder'
  <2>1. /\ stream' = Append(stream, e) /\ UNCHANGED <<job, recorded>> /\ UNCHANGED faults
        /\ late # {}
    BY <1>6 DEF PublishLate
  <2>2. timeouts # 0 /\ timeouts' = timeouts /\ losses' = losses
    BY <2>1 DEF StreamInOrder, EndsComeLast, TypeOK, faults
  <2>3. e \in Event /\ EventIsTrue(e) /\ e.job \in Jobs
    BY <1>0, EventShape DEF TypeOK, EventsAreTrue
  <2>4. e.type \in Ends => job[e.job].stage # "pending"
    <3>1. e.type \in Ends => job[e.job].result # NoResult
      BY <2>3 DEF EventIsTrue, NoResult, Ends
    <3> QED
      BY <1>0, <2>3, <3>1 DEF StagesAreTrue, StageIsTrue
  <2> QED
    BY <2>1, <2>2, <2>3, <2>4, AppendInOrder
<1>7. ASSUME NEW r \in Replicas, SubscriberStep(r) \/ StoreFails(r) \/ Disconnect(r)
      PROVE  StreamInOrder'
  <2>1. UNCHANGED <<job, recorded, late, stream>>
    BY <1>7 DEF SubscriberStep, Connect, ReadPending, ReadNew, Load, Store, Ack, StoreFails, Disconnect,
                workerVars, redis
  <2>2. UNCHANGED faults \/ Loss \/ Restart
    BY <1>7 DEF SubscriberStep, Connect, ReadPending, ReadNew, Load, Store, Ack, StoreFails, Disconnect
  <2> QED
    BY <2>1, <2>2, <1>0, FaultsGrow, QuietInOrder
<1>8. CASE UNCHANGED vars
  <2>1. UNCHANGED <<job, recorded, late, stream>> /\ UNCHANGED faults
    BY <1>8 DEF vars, faults
  <2> QED
    BY <2>1, <1>0, FaultsGrow, QuietInOrder
<1> QED
  BY <1>1, <1>2, <1>3, <1>4, <1>5, <1>6, <1>7, <1>8 DEF Next, WorkerStep

-----------------------------------------------------------------------------
(* One replica: the consumer group.                                        *)

OneReplica == \A r, s \in Replicas : r = s

DeliveryInOrder == AcksAreInOrder /\ HandIsPending /\ SeenIsCurrent

LEMMA DeliveryKeeps ==
    ASSUME OneReplica, IInv, NEW r \in Replicas, NEW state \in ReplicaState, Update(r, state),
           state.at # "off" =>
               IF state.draining /\ state.cursor = 0 THEN state.hand = {} ELSE state.hand = pending',
           state.at = "loaded" =>
               /\ UNCHANGED <<rows, stream>>
               /\ state.seen = {row.id : row \in RowsOf(stream[Min(state.hand)].job)},
           AcksAreInOrder'
    PROVE  DeliveryInOrder'
<1>1. \A s \in Replicas : s = r /\ replica'[s] = state
  BY DEF OneReplica, Update, IInv, TypeOK
<1>2. HandIsPending'
  BY <1>1 DEF HandIsPending
<1>3. SeenIsCurrent'
  <2> SUFFICES ASSUME state.at = "loaded"
               PROVE  state.seen = {row.id : row \in RowsOf(stream[Min(state.hand)].job)'}
    BY <1>1 DEF SeenIsCurrent, InHand, RowsOf
  <2> QED
    BY DEF RowsOf
<1> QED
  BY <1>2, <1>3 DEF DeliveryInOrder

(* The replica holds all that is pending once it has something in hand.    *)
LEMMA HandHoldsPending ==
    ASSUME IInv, DeliveryInOrder, NEW r \in Replicas
    PROVE  /\ replica[r].at # "off" =>
                  IF replica[r].draining /\ replica[r].cursor = 0
                  THEN replica[r].hand = {} ELSE replica[r].hand = pending
           /\ replica[r].at # "off" /\ replica[r].hand # {} => replica[r].hand = pending
           /\ replica[r].at \in {"loaded", "stored"} => replica[r].hand # {}
           /\ replica[r].at = "loaded" =>
                  replica[r].seen = {row.id : row \in RowsOf(InHand(r).job)}
BY DEF IInv, HandsAreFull, DeliveryInOrder, HandIsPending, SeenIsCurrent

(* The acknowledged messages come before the first pending one.            *)
LEMMA AckedShape ==
    ASSUME IInv, AcksAreInOrder
    PROVE  /\ Acked \subseteq DOMAIN stream
           /\ pending = {} => Acked = 1..(next - 1)
           /\ pending # {} => /\ Min(pending) \in pending /\ Min(pending) \in DOMAIN stream
                              /\ Acked = 1..(Min(pending) - 1)
                              /\ Acked \cup {Min(pending)} = 1..Min(pending)
<1>1. /\ next \in Nat /\ next <= Len(stream) + 1 /\ Len(stream) \in Nat
      /\ DOMAIN stream = 1..Len(stream) /\ pending \subseteq 1..(next - 1)
  BY StreamShape DEF IInv, TypeOK
<1>2. Acked \subseteq 1..(next - 1) /\ 1..(next - 1) \subseteq 1..Len(stream)
  BY <1>1 DEF Acked
<1>3. ASSUME pending # {}
      PROVE  /\ Min(pending) \in pending /\ Min(pending) \in DOMAIN stream
             /\ Acked = 1..(Min(pending) - 1)
             /\ Acked \cup {Min(pending)} = 1..Min(pending)
  <2>1. pending \in SUBSET Nat
    BY <1>1
  <2>2. Min(pending) \in pending /\ \A k \in pending : Min(pending) <= k
    BY <1>3, <2>1, MinIsLeast
  <2>3. PICK m \in pending : m = Min(pending)
    BY <2>2
  <2>4. m \in 1..(next - 1) /\ m \in DOMAIN stream
    BY <1>1, <1>2
  <2>5. ASSUME NEW k \in 1..(m - 1) PROVE k \in Acked
    <3>1. k \in 1..(next - 1) /\ ~(m <= k)
      BY <1>1, <2>4
    <3> QED
      BY <2>2, <2>3, <3>1 DEF Acked
  <2>6. ASSUME NEW k \in Acked PROVE k \in 1..(m - 1)
    <3>1. k < m /\ k \in 1..(next - 1)
      BY <1>2 DEF AcksAreInOrder
    <3> QED
      BY <1>1, <2>4, <3>1
  <2>7. Acked = 1..(m - 1)
    BY <2>5, <2>6
  <2>8. 1..(m - 1) \cup {m} = 1..m
    BY <1>1, <2>4
  <2> QED
    BY <2>2, <2>3, <2>4, <2>7, <2>8
<1> QED
  BY <1>1, <1>2, <1>3 DEF Acked

LEMMA StepDelivers ==
    ASSUME OneReplica, IInv, DeliveryInOrder, [Next]_vars
    PROVE  DeliveryInOrder'
<1>0. TypeOK /\ AcksAreInOrder
  BY DEF IInv, DeliveryInOrder
<1>1. ASSUME UNCHANGED <<next, pending>> PROVE AcksAreInOrder'
  BY <1>0, <1>1 DEF AcksAreInOrder, Acked
<1>2. ASSUME UNCHANGED <<next, pending, replica, rows>>, Grows PROVE DeliveryInOrder'
  <2>1. HandIsPending'
    BY <1>2 DEF DeliveryInOrder, HandIsPending
  <2>2. SeenIsCurrent'
    <3> SUFFICES ASSUME NEW r \in Replicas, replica[r].at = "loaded"
                 PROVE  replica[r].seen = {row.id : row \in RowsOf(InHand(r).job)'}
      BY <1>2 DEF SeenIsCurrent
    <3>1. Min(replica[r].hand) \in DOMAIN stream
      BY HandShape DEF IInv, HandsAreFull
    <3>2. InHand(r)' = InHand(r)
      BY <1>2, <3>1 DEF InHand, Grows
    <3> QED
      BY <1>2, <3>2 DEF DeliveryInOrder, SeenIsCurrent, RowsOf
  <2> QED
    BY <1>1, <1>2, <2>1, <2>2 DEF DeliveryInOrder
<1>3. CASE WorkerStep \/ WorkerCrashes \/ UNCHANGED vars
  <2>1. UNCHANGED <<next, pending, replica, rows>>
    BY <1>3 DEF WorkerStep, WorkerCrashes, vars, Emit, EmitTimesOut, ActivityEnds, TaskRecorded,
                PublishLate, redis, tables
  <2>2. UNCHANGED stream \/ \E e \in Event : stream' = Append(stream, e)
    <3>1. ASSUME NEW j \in Jobs, Emit(j)
          PROVE  UNCHANGED stream \/ \E e \in Event : stream' = Append(stream, e)
      BY <3>1, EmissionIsTrue DEF Emit
    <3>2. ASSUME NEW e \in late, PublishLate(e) PROVE \E x \in Event : stream' = Append(stream, x)
      BY <3>2, <1>0 DEF PublishLate, TypeOK
    <3>3. UNCHANGED stream \/ (\E j \in Jobs : Emit(j)) \/ (\E e \in late : PublishLate(e))
      BY <1>3 DEF WorkerStep, WorkerCrashes, vars, EmitTimesOut, ActivityEnds, TaskRecorded, redis
    <3> QED
      BY <3>1, <3>2, <3>3
  <2> QED
    BY <1>0, <1>2, <2>1, <2>2, Appended, NotAppended
<1>4. ASSUME NEW r \in Replicas, Connect(r) PROVE DeliveryInOrder'
  <2> DEFINE state == [Off EXCEPT !.at = "idle", !.draining = TRUE]
  <2>1. Update(r, state) /\ UNCHANGED <<next, pending>>
    BY <1>4 DEF Connect, redis
  <2>2. Off \in ReplicaState /\ Off.hand = {} /\ Off.cursor = 0
    BY StreamShape, <1>0 DEF Off, ReplicaState
  <2>3. state \in ReplicaState /\ state.at = "idle" /\ state.hand = {} /\ state.draining /\ state.cursor = 0
    BY <2>2 DEF ReplicaState
  <2> HIDE DEF state
  <2> QED
    BY <1>1, <2>1, <2>3, DeliveryKeeps
<1>5. ASSUME NEW r \in Replicas, Disconnect(r) PROVE DeliveryInOrder'
  <2>1. Update(r, Off) /\ UNCHANGED <<next, pending>>
    BY <1>5 DEF Disconnect, redis
  <2>2. Off \in ReplicaState /\ Off.at = "off"
    BY StreamShape, <1>0 DEF Off, ReplicaState
  <2> QED
    BY <1>1, <2>1, <2>2, DeliveryKeeps
<1>6. ASSUME NEW r \in Replicas, ReadPending(r) PROVE DeliveryInOrder'
  <2> DEFINE todo == {k \in pending : k > replica[r].cursor}
             done == [replica[r] EXCEPT !.draining = FALSE]
             state == [replica[r] EXCEPT !.hand = todo, !.cursor = Max(todo)]
  <2>1. /\ replica[r].at = "idle" /\ replica[r].hand = {} /\ replica[r].draining
        /\ IF todo = {} THEN Update(r, done) ELSE Update(r, state)
        /\ UNCHANGED <<next, pending>>
    BY <1>6 DEF ReadPending, redis
  <2>2. /\ replica[r] \in ReplicaState /\ pending \subseteq 1..Len(stream)
        /\ pending \subseteq DOMAIN stream /\ replica[r].cursor \in Nat /\ Len(stream) \in Nat
    BY ReplicaShape, StreamShape, <1>0
  <2>3. replica[r].cursor = 0 \/ pending = {}
    BY <2>1, HandHoldsPending
  <2>4. todo = pending
    BY <2>2, <2>3
  <2> HIDE DEF todo
  <2>5. CASE todo = {}
    <3>1. done \in ReplicaState /\ done.at = "idle" /\ done.hand = {} /\ ~done.draining
      BY <2>1, <2>2 DEF ReplicaState
    <3> HIDE DEF done
    <3> QED
      BY <1>1, <2>1, <2>4, <2>5, <3>1, DeliveryKeeps
  <2>6. CASE todo # {}
    <3>1. Max(todo) \in todo
      <4>1. todo \in SUBSET (0..Len(stream))
        BY <2>2, <2>4
      <4> QED
        BY <2>2, <2>6, <4>1, MaxIsGreatest
    <3>2. Max(todo) \in 0..Len(stream) /\ Max(todo) # 0
      BY <2>2, <2>4, <3>1
    <3>3. state \in ReplicaState /\ state.at = "idle" /\ state.hand = pending /\ state.cursor # 0
      BY <2>1, <2>2, <2>4, <3>2 DEF ReplicaState
    <3> HIDE DEF state
    <3> QED
      BY <1>1, <2>1, <2>6, <3>3, DeliveryKeeps
  <2> QED
    BY <2>5, <2>6
<1>7. ASSUME NEW r \in Replicas, ReadNew(r) PROVE DeliveryInOrder'
  <2> DEFINE state == [replica[r] EXCEPT !.hand = next..Len(stream)]
  <2>1. /\ replica[r].at = "idle" /\ replica[r].hand = {} /\ ~replica[r].draining
        /\ Update(r, state) /\ next' = Len(stream) + 1
        /\ pending' = pending \cup next..Len(stream)
    BY <1>7 DEF ReadNew
  <2>2. pending = {}
    BY <2>1, HandHoldsPending
  <2>3. /\ replica[r] \in ReplicaState /\ Len(stream) \in Nat /\ next \in 1..(Len(stream) + 1)
        /\ DOMAIN stream = 1..Len(stream)
    BY ReplicaShape, StreamShape, <1>0
  <2>4. next..Len(stream) \subseteq DOMAIN stream /\ pending' = next..Len(stream)
    BY <2>1, <2>2, <2>3
  <2>5. state \in ReplicaState /\ state.at = "idle" /\ state.hand = pending' /\ ~state.draining
    BY <2>1, <2>3, <2>4 DEF ReplicaState
  <2> HIDE DEF state
  <2>6. AcksAreInOrder'
    <3>1. \A k \in (1..Len(stream)) \ (next..Len(stream)), m \in next..Len(stream) : k < m
      BY <2>3
    <3>2. 1..(next' - 1) = 1..Len(stream)
      BY <2>1, <2>3
    <3> QED
      BY <2>4, <3>1, <3>2 DEF AcksAreInOrder, Acked
  <2> QED
    BY <2>1, <2>5, <2>6, DeliveryKeeps
<1>8. ASSUME NEW r \in Replicas, Load(r) PROVE DeliveryInOrder'
  <2> DEFINE ids == {row.id : row \in RowsOf(InHand(r).job)}
             state == [replica[r] EXCEPT !.at = "loaded", !.seen = ids]
  <2>1. /\ replica[r].at = "idle" /\ replica[r].hand # {} /\ Update(r, state)
        /\ UNCHANGED <<next, pending, rows, stream>>
    BY <1>8 DEF Load, redis, tables
  <2>2. ids = {row.id : row \in RowsOf(stream[Min(replica[r].hand)].job)}
    BY DEF InHand
  <2>3. ids \subseteq 1..Cardinality(Attempts)
    BY IdsAreSmall DEF RowsOf
  <2> HIDE DEF ids
  <2>4. /\ state \in ReplicaState /\ state.at = "loaded" /\ state.hand = replica[r].hand
        /\ state.seen = ids /\ state.draining = replica[r].draining /\ state.cursor = replica[r].cursor
    BY <2>3, ReplicaShape DEF ReplicaState
  <2> HIDE DEF state
  <2>5. replica[r].hand = pending /\ ~(replica[r].draining /\ replica[r].cursor = 0)
    BY <2>1, HandHoldsPending
  <2> QED
    BY <1>1, <2>1, <2>2, <2>4, <2>5, DeliveryKeeps
<1>9. ASSUME NEW r \in Replicas, Store(r) \/ StoreFails(r) PROVE DeliveryInOrder'
  <2>1. replica[r].at = "loaded" /\ Update(r, Handled(r)) /\ UNCHANGED <<next, pending>>
    BY <1>9 DEF Store, StoreFails, Handled, redis
  <2>2. replica[r].hand = pending /\ ~(replica[r].draining /\ replica[r].cursor = 0)
    BY <2>1, HandHoldsPending
  <2> QED
    BY <1>1, <2>1, <2>2, HandledShape, DeliveryKeeps
<1>10. ASSUME NEW r \in Replicas, Ack(r) PROVE DeliveryInOrder'
  <2> DEFINE hand == replica[r].hand \ {Min(replica[r].hand)}
             state == [replica[r] EXCEPT !.at = "idle", !.hand = hand]
  <2>1. /\ replica[r].at = "stored" /\ Update(r, state) /\ next' = next
        /\ pending' = pending \ {Min(replica[r].hand)}
    BY <1>10 DEF Ack
  <2>2. /\ replica[r].hand = pending /\ pending # {}
        /\ ~(replica[r].draining /\ replica[r].cursor = 0)
    BY <2>1, HandHoldsPending
  <2>3. hand \subseteq DOMAIN stream /\ hand = pending'
    BY <2>1, <2>2, ReplicaShape
  <2> HIDE DEF hand
  <2>4. /\ state \in ReplicaState /\ state.at = "idle" /\ state.hand = hand
        /\ state.draining = replica[r].draining /\ state.cursor = replica[r].cursor
    BY <2>3, ReplicaShape DEF ReplicaState
  <2> HIDE DEF state
  <2>5. AcksAreInOrder'
    <3> SUFFICES ASSUME NEW k \in 1..(next - 1), k \notin pending', NEW m \in pending'
                 PROVE  k < m
      BY <2>1 DEF AcksAreInOrder, Acked
    <3>1. m \in pending /\ m # Min(pending) /\ m \in Nat /\ next \in Nat
      BY <2>1, <2>2, <1>0 DEF TypeOK
    <3>2. CASE k = Min(pending)
      <4>1. pending \in SUBSET Nat
        BY <1>0 DEF TypeOK
      <4>2. k <= m /\ k \in Nat
        BY <2>2, <3>1, <3>2, <4>1, MinIsLeast
      <4> QED
        BY <3>1, <3>2, <4>2
    <3>3. CASE k # Min(pending)
      BY <1>0, <2>1, <2>2, <3>1, <3>3 DEF AcksAreInOrder, Acked
    <3> QED
      BY <3>2, <3>3
  <2> QED
    BY <2>1, <2>2, <2>3, <2>4, <2>5, DeliveryKeeps
<1> QED
  BY <1>3, <1>4, <1>5, <1>6, <1>7, <1>8, <1>9, <1>10 DEF Next, SubscriberStep

-----------------------------------------------------------------------------
(* One replica: the rows.                                                  *)

(* What the worker does leaves the rows of a prefix as they should be.     *)
LEMMA WorkerFollows ==
    ASSUME IInv, Grows, ResultsStay, UNCHANGED <<skips, rows, artifacts>>, timeouts' = 0 => timeouts = 0,
           job' \in [Jobs -> JobState], NEW S \in SUBSET DOMAIN stream, RowsFollow(S)
    PROVE  RowsFollow(S)'
<1> SUFFICES ASSUME NEW j \in Jobs, ~Exempt(j)' PROVE JobFollows(S, j)'
  BY DEF RowsFollow
<1>1. /\ job[j].result.attempt \in Nat
      /\ job[j].result # NoResult => job'[j].result = job[j].result
      /\ job[j].result.attempt > 1 => job[j].result # NoResult
  <2>1. job[j].result \in Results \cup {NoResult}
    BY DEF IInv, TypeOK, JobState
  <2>2. job[j].result.attempt \in Nat
    <3>1. NoResult.attempt = 0
      BY DEF NoResult
    <3> QED
      BY <2>1, <3>1, ResultShape, AttemptsAssumption DEF Ends
  <2> QED
    BY <2>2 DEF NoResult, ResultsStay
<1>2. ~Exempt(j)
  BY <1>1 DEF Exempt
<1>3. JobFollows(S, j)
  BY <1>2 DEF RowsFollow
<1>4. AnnouncedIn(S, j, {"job_succeeded"}) => job'[j].result = job[j].result
  <2> SUFFICES ASSUME NEW k \in S, stream[k].job = j, stream[k].type = "job_succeeded"
               PROVE  job'[j].result = job[j].result
    BY DEF AnnouncedIn
  <2>1. EventIsTrue(stream[k])
    BY DEF IInv, EventsAreTrue
  <2> QED
    BY <1>1, <2>1 DEF EventIsTrue, NoResult, Ends
<1>5. \A types : AnnouncedIn(S, j, types)' <=> AnnouncedIn(S, j, types)
  BY AnnouncedStays
<1>6. RowAfter(S, j)' = RowAfter(S, j)
  BY <1>4, <1>5 DEF RowAfter
<1>7. RowsOf(j)' = RowsOf(j)
  BY DEF RowsOf
<1> QED
  BY <1>3, <1>5, <1>6, <1>7 DEF JobFollows

(* Handling message k of the stream after those of S, which are the ones   *)
(* before it, or those and k itself.                                       *)
Handling(k, S) ==
    /\ k \in DOMAIN stream
    /\ S = 1..(k - 1) \/ S = 1..k
    /\ RowsFollow(S)
    /\ losses = 0
    /\ UNCHANGED <<skips, job, stream, timeouts>>

LEMMA HandlingShape ==
    ASSUME IInv, StreamInOrder, NEW k, NEW S, Handling(k, S)
    PROVE  /\ k \in Nat /\ stream[k] \in Event /\ EventIsTrue(stream[k])
           /\ S \subseteq 1..k /\ 1..k \subseteq DOMAIN stream /\ 1..(k - 1) \subseteq S
           /\ 1..k = S \cup {k}
           /\ \A j, types : AnnouncedIn(1..k, j, types)' <=>
                  AnnouncedIn(S, j, types) \/ (stream[k].job = j /\ stream[k].type \in types)
           /\ \A j : AnnouncedIn(S, j, Ends) => AnnouncedIn(S, j, Starts)
           /\ stream[k].type \in Ends => AnnouncedIn(S, stream[k].job, Starts)
<1>1. /\ DOMAIN stream = 1..Len(stream) /\ Len(stream) \in Nat /\ k \in 1..Len(stream)
      /\ S = 1..(k - 1) \/ S = 1..k
  BY StreamShape DEF IInv, Handling
<1>2. /\ k \in Nat /\ S \subseteq 1..k /\ 1..k \subseteq DOMAIN stream /\ 1..(k - 1) \subseteq S
      /\ 1..k = S \cup {k}
  BY <1>1
<1>3. stream[k] \in Event /\ EventIsTrue(stream[k])
  BY <1>1, StreamShape DEF IInv, EventsAreTrue
<1>4. ASSUME NEW j, NEW types
      PROVE  AnnouncedIn(1..k, j, types)' <=>
                 AnnouncedIn(S, j, types) \/ (stream[k].job = j /\ stream[k].type \in types)
  <2>1. stream' = stream
    BY DEF Handling
  <2> QED
    BY <1>2, <2>1 DEF AnnouncedIn
<1>5. \A m \in DOMAIN stream : stream[m].type \in Ends => AnnouncedIn(1..(m - 1), stream[m].job, Starts)
  BY DEF StreamInOrder, StartsComeFirst, Handling
<1>6. ASSUME NEW j, AnnouncedIn(S, j, Ends) PROVE AnnouncedIn(S, j, Starts)
  <2>1. PICK m \in S : stream[m].job = j /\ stream[m].type \in Ends
    BY <1>6 DEF AnnouncedIn
  <2>2. AnnouncedIn(1..(m - 1), j, Starts)
    BY <1>2, <1>5, <2>1
  <2>3. 1..(m - 1) \subseteq S
    <3>1. m \in 1..k
      BY <1>2
    <3>2. 1..(m - 1) \subseteq 1..(k - 1)
      BY <1>2, <3>1
    <3> QED
      BY <1>2, <3>2
  <2> QED
    BY <2>2, <2>3 DEF AnnouncedIn
<1>7. stream[k].type \in Ends => AnnouncedIn(S, stream[k].job, Starts)
  BY <1>1, <1>2, <1>5 DEF AnnouncedIn
<1> QED
  BY <1>2, <1>3, <1>4, <1>6, <1>7

(* The other jobs' rows.                                                   *)
LEMMA OthersFollow ==
    ASSUME IInv, StreamInOrder, NEW k, NEW S, Handling(k, S),
           NEW j \in Jobs, ~Exempt(j)',
           stream[k].job # j, RowsOf(j)' = RowsOf(j), artifacts'[j] = artifacts[j]
    PROVE  JobFollows(1..k, j)'
<1>1. JobFollows(S, j) /\ job' = job /\ skips' = skips
  BY DEF Handling, RowsFollow, Exempt
<1>2. \A types : AnnouncedIn(1..k, j, types)' <=> AnnouncedIn(S, j, types)
  BY HandlingShape
<1>3. RowAfter(1..k, j)' = RowAfter(S, j)
  BY <1>1, <1>2 DEF RowAfter
<1> QED
  BY <1>1, <1>2, <1>3 DEF JobFollows

LEMMA StartFollows ==
    ASSUME IInv, StreamInOrder, NEW k, NEW S, Handling(k, S), stream[k].type \in Starts,
           StoreStart(stream[k]), NEW j \in Jobs, ~Exempt(j)', stream[k].job = j
    PROVE  JobFollows(1..k, j)'
<1>1. JobFollows(S, j) /\ job' = job /\ skips' = skips /\ stream' = stream /\ ~Exempt(j)
  BY DEF Handling, RowsFollow, Exempt
<1>2. /\ stream[k] \in Event /\ EventIsTrue(stream[k]) /\ S \subseteq 1..k /\ 1..k \subseteq DOMAIN stream
      /\ k \in Nat
  BY HandlingShape
<1>3. /\ AnnouncedIn(1..k, j, Starts)'
      /\ AnnouncedIn(1..k, j, {"job_succeeded"})' <=> AnnouncedIn(S, j, {"job_succeeded"})
      /\ AnnouncedIn(1..k, j, {"job_failed"})' <=> AnnouncedIn(S, j, {"job_failed"})
  <2>1. stream[k].type \notin {"job_succeeded"} /\ stream[k].type \notin {"job_failed"}
    BY DEF Starts
  <2> QED
    BY <2>1, HandlingShape
<1>4. RowAfter(1..k, j)' = RowAfter(S, j)
  BY <1>1, <1>3 DEF RowAfter
<1>5. UNCHANGED artifacts
  BY <1>2, StoreStartShape
<1>6. RowAfter(S, j).attempt = 1
  <2>1. CASE AnnouncedIn(S, j, {"job_succeeded"})
    <3>1. PICK m \in S : stream[m].job = j /\ stream[m].type = "job_succeeded"
      BY <2>1 DEF AnnouncedIn
    <3>2. m \in DOMAIN stream /\ m <= k /\ m \in Nat
      BY <1>2, <3>1
    <3>3. timeouts # 0
      BY <1>2, <3>1, <3>2 DEF StreamInOrder, EndsComeLast, Ends
    <3>4. stream[m] \in Event /\ EventIsTrue(stream[m])
      BY <3>2, StreamShape DEF IInv, EventsAreTrue
    <3>5. job[j].result.attempt = stream[m].attempt /\ stream[m].attempt \in Attempts
      BY <3>1, <3>4, EventShape DEF EventIsTrue, Ends
    <3>6. job[j].result.attempt = 1
      BY <1>1, <3>3, <3>5, AttemptsAssumption DEF Exempt
    <3> QED
      BY <2>1, <3>6 DEF RowAfter
  <2>2. CASE ~AnnouncedIn(S, j, {"job_succeeded"})
    BY <2>2 DEF RowAfter
  <2> QED
    BY <2>1, <2>2
<1>7. CASE AnnouncedIn(S, j, Starts)
  <2>1. RowsOf(j) = {RowAfter(S, j)}
    BY <1>1, <1>7 DEF JobFollows
  <2>2. UNCHANGED rows
    BY <1>2, <1>6, <2>1, StoreStartShape
  <2> QED
    BY <1>1, <1>3, <1>4, <1>5, <2>1, <2>2 DEF JobFollows, RowsOf
<1>8. CASE ~AnnouncedIn(S, j, Starts)
  <2>1. RowsOf(j) = {}
    BY <1>1, <1>8 DEF JobFollows
  <2>2. rows' = rows \cup {Started(stream[k], 1)}
    BY <1>2, <2>1, StoreStartShape
  <2>3. ~AnnouncedIn(S, j, {"job_succeeded"}) /\ ~AnnouncedIn(S, j, {"job_failed"})
    <3>1. ~AnnouncedIn(S, j, Ends)
      BY <1>8, HandlingShape
    <3> QED
      BY <3>1 DEF AnnouncedIn, Ends
  <2>4. Started(stream[k], 1) = RowAfter(S, j)
    <3>1. stream[k].type = "job_started" <=> j \notin skips
      BY <1>2 DEF EventIsTrue, Starts
    <3> QED
      BY <2>3, <3>1 DEF Started, RowAfter
  <2>5. RowsOf(j)' = {RowAfter(S, j)}
    <3>1. RowAfter(S, j).job = j
      BY DEF RowAfter
    <3> QED
      BY <2>1, <2>2, <2>4, <3>1 DEF RowsOf
  <2> QED
    BY <1>3, <1>4, <2>3, <2>5 DEF JobFollows
<1> QED
  BY <1>7, <1>8

LEMMA ResultFollows ==
    ASSUME IInv, StreamInOrder, NEW k, NEW S, Handling(k, S), stream[k].type \in Ends,
           NEW id, StoreResult(stream[k], id), \E row \in RowsOf(stream[k].job) : row.id = id,
           NEW j \in Jobs, ~Exempt(j)', stream[k].job = j
    PROVE  JobFollows(1..k, j)'
<1>1. JobFollows(S, j) /\ job' = job /\ skips' = skips /\ stream' = stream
  BY DEF Handling, RowsFollow, Exempt
<1>2. /\ stream[k] \in Event /\ EventIsTrue(stream[k]) /\ S \subseteq DOMAIN stream
      /\ AnnouncedIn(S, j, Starts)
  BY HandlingShape
<1>3. /\ AnnouncedIn(1..k, j, Starts)'
      /\ \A types : AnnouncedIn(1..k, j, types)'
             <=> AnnouncedIn(S, j, types) \/ stream[k].type \in types
  BY <1>2, HandlingShape
<1>4. /\ j \notin skips /\ stream[k].type \in {"job_succeeded", "job_failed"}
      /\ job[j].result = [type |-> stream[k].type, attempt |-> stream[k].attempt]
  BY <1>2 DEF EventIsTrue, Ends
<1>5. stream[k].type = "job_failed" => ~AnnouncedIn(S, j, {"job_succeeded"})
  <2> SUFFICES ASSUME NEW m \in S, stream[m].job = j, stream[m].type = "job_succeeded"
               PROVE  stream[k].type # "job_failed"
    BY DEF AnnouncedIn
  <2>1. EventIsTrue(stream[m])
    BY <1>2 DEF IInv, EventsAreTrue
  <2> QED
    BY <1>4, <2>1 DEF EventIsTrue, Ends
<1>6. RowsOf(j) = {RowAfter(S, j)}
  BY <1>1, <1>2 DEF JobFollows
<1>7. PICK e \in Event : e = stream[k]
  BY <1>2
<1>8. PICK old \in rows : old = RowAfter(S, j)
  BY <1>6 DEF RowsOf
<1>9. /\ rows' = (rows \ {old}) \cup {Updated(old, e)}
      /\ artifacts' = [artifacts EXCEPT ![j] = IF e.type = "job_succeeded" THEN @ + 1 ELSE @]
  BY <1>2, <1>6, <1>7, <1>8, StoreResultShape
<1>10. Updated(old, e) = RowAfter(1..k, j)'
  <2>1. /\ old.id = 1 /\ old.job = j
        /\ e.type = "job_failed" => old.attempt = 1
    BY <1>5, <1>7, <1>8 DEF RowAfter
  <2>2. /\ e.type = "job_succeeded" => AnnouncedIn(1..k, j, {"job_succeeded"})'
        /\ e.type = "job_failed" => /\ ~AnnouncedIn(1..k, j, {"job_succeeded"})'
                                    /\ AnnouncedIn(1..k, j, {"job_failed"})'
    BY <1>3, <1>5, <1>7
  <2>3. job'[j].result.attempt = e.attempt /\ j \notin skips'
    BY <1>1, <1>4, <1>7
  <2>4. e.type = "job_succeeded" \/ e.type = "job_failed"
    BY <1>4, <1>7
  <2> QED
    BY <2>1, <2>2, <2>3, <2>4 DEF Updated, RowAfter
<1>11. RowsOf(j)' = {RowAfter(1..k, j)'}
  <2>1. Updated(old, e).job = j /\ RowsOf(j) = {old}
    BY <1>6, <1>8 DEF Updated, RowAfter
  <2> QED
    BY <1>9, <1>10, <2>1 DEF RowsOf
<1>12. AnnouncedIn(1..k, j, {"job_succeeded"})' => artifacts'[j] > 0
  <2>1. artifacts \in [Jobs -> Nat]
    BY DEF IInv, TypeOK
  <2>2. artifacts'[j] = IF e.type = "job_succeeded" THEN artifacts[j] + 1 ELSE artifacts[j]
    BY <1>9, <2>1
  <2>3. AnnouncedIn(S, j, {"job_succeeded"}) => artifacts[j] > 0
    BY <1>1 DEF JobFollows
  <2> QED
    BY <1>3, <1>7, <2>1, <2>2, <2>3
<1> QED
  BY <1>3, <1>11, <1>12 DEF JobFollows

LEMMA StoreFollows ==
    ASSUME IInv, StreamInOrder, NEW r \in Replicas, Store(r),
           replica[r].seen = {row.id : row \in RowsOf(InHand(r).job)},
           NEW k, NEW S, Handling(k, S), stream[k] = InHand(r)
    PROVE  RowsFollow(1..k)'
<1> DEFINE e == stream[k]
<1> SUFFICES ASSUME NEW j \in Jobs, ~Exempt(j)' PROVE JobFollows(1..k, j)'
  BY DEF RowsFollow
<1>1. CASE e.type \in Starts
  <2>1. e \in Event /\ StoreStart(e) /\ UNCHANGED artifacts
    <3>1. \A x : ~(x \in Starts /\ x \in Ends)
      BY DEF Starts, Ends
    <3> QED
      BY <1>1, <3>1, StoreShape, StoreStartShape
  <2>2. CASE e.job = j
    BY <1>1, <2>1, <2>2, StartFollows
  <2>3. CASE e.job # j
    <3>1. RowsOf(j)' = RowsOf(j)
      <4>1. \A id : Started(e, id).job = e.job
        BY DEF Started
      <4> QED
        BY <1>1, <2>1, <2>3, <4>1, StoreStartShape DEF RowsOf
    <3> QED
      BY <2>1, <2>3, <3>1, OthersFollow
  <2> QED
    BY <2>2, <2>3
<1>2. CASE e.type \in Ends
  <2>1. e \in Event /\ \A x : ~(x \in Starts /\ x \in Ends)
    BY HandlingShape DEF Starts, Ends
  <2>2. CASE replica[r].seen = {} /\ UNCHANGED tables
    <3>1. RowsOf(j)' = RowsOf(j) /\ artifacts' = artifacts
      BY <2>2 DEF RowsOf, tables
    <3>2. e.job # j
      <4>1. SUFFICES ASSUME e.job = j PROVE FALSE
        OBVIOUS
      <4>2. RowsOf(j) = {}
        BY <2>2, <4>1
      <4>3. AnnouncedIn(S, j, Starts) /\ JobFollows(S, j)
        BY <1>2, <4>1, HandlingShape DEF Handling, RowsFollow, Exempt
      <4> QED
        BY <4>2, <4>3 DEF JobFollows
    <3> QED
      BY <3>1, <3>2, OthersFollow
  <2>3. ASSUME NEW id \in replica[r].seen, StoreResult(e, id) PROVE JobFollows(1..k, j)'
    <3>1. \E row \in RowsOf(e.job) : row.id = id
      BY <2>3
    <3>2. CASE e.job = j
      BY <1>2, <2>3, <3>1, <3>2, ResultFollows
    <3>3. CASE e.job # j
      <4>1. PICK x \in Event : x = e
        BY <2>1
      <4>2. UNCHANGED tables \/ \E old \in RowsOf(x.job) :
                /\ rows' = (rows \ {old}) \cup {Updated(old, x)}
                /\ artifacts' = [artifacts EXCEPT ![x.job] =
                                     IF x.type = "job_succeeded" THEN @ + 1 ELSE @]
        BY <1>2, <2>3, <3>1, <4>1, StoreResultShape
      <4>3. CASE UNCHANGED tables
        <5>1. RowsOf(j)' = RowsOf(j) /\ artifacts' = artifacts
          BY <4>3 DEF RowsOf, tables
        <5> QED
          BY <3>3, <5>1, OthersFollow
      <4>4. ASSUME NEW old \in RowsOf(x.job), rows' = (rows \ {old}) \cup {Updated(old, x)},
                   artifacts' = [artifacts EXCEPT ![x.job] =
                                     IF x.type = "job_succeeded" THEN @ + 1 ELSE @]
            PROVE  JobFollows(1..k, j)'
        <5>1. RowsOf(j)' = RowsOf(j)
          <6>1. old.job # j /\ Updated(old, x).job # j
            BY <3>3, <4>1, <4>4 DEF RowsOf, Updated
          <6> QED
            BY <4>4, <6>1 DEF RowsOf
        <5>2. artifacts'[j] = artifacts[j]
          BY <3>3, <4>1, <4>4 DEF IInv, TypeOK
        <5> QED
          BY <3>3, <5>1, <5>2, OthersFollow
      <4> QED
        BY <4>2, <4>3, <4>4
    <3> QED
      BY <3>2, <3>3
  <2> QED
    BY <1>2, <2>1, <2>2, <2>3, StoreShape
<1> QED
  BY <1>1, <1>2, HandlingShape, EventShape

(* The worker only adds to the stream, and results stay.                   *)
LEMMA WorkerShape ==
    ASSUME IInv, WorkerStep \/ WorkerCrashes \/ UNCHANGED vars
    PROVE  Grows /\ ResultsStay /\ job' \in [Jobs -> JobState]
<1>0. TypeOK /\ StagesAreTrue /\ IInv'
  <2>1. [Next]_vars
    BY DEF Next
  <2> QED
    BY <2>1, StepInvariant DEF IInv
<1>1. UNCHANGED stream \/ \E e \in Event : stream' = Append(stream, e)
  <2>1. ASSUME NEW j \in Jobs, Emit(j)
        PROVE  UNCHANGED stream \/ \E e \in Event : stream' = Append(stream, e)
    BY <2>1, EmissionIsTrue DEF Emit
  <2>2. ASSUME NEW e \in late, PublishLate(e) PROVE \E x \in Event : stream' = Append(stream, x)
    BY <2>2, <1>0 DEF PublishLate, TypeOK
  <2>3. UNCHANGED stream \/ (\E j \in Jobs : Emit(j)) \/ (\E e \in late : PublishLate(e))
    BY DEF WorkerStep, WorkerCrashes, vars, EmitTimesOut, ActivityEnds, TaskRecorded, redis
  <2> QED
    BY <2>1, <2>2, <2>3
<1>2. ResultsStay
  <2>1. ASSUME NEW j \in Jobs, Emit(j) PROVE ResultsStay
    <3>1. job' = [job EXCEPT ![j].stage = StageAfter(j)] /\ job \in [Jobs -> JobState]
      BY <1>0, <2>1 DEF Emit, TypeOK
    <3>2. \A i \in Jobs : job'[i].result = job[i].result
      BY <3>1 DEF JobState
    <3> QED
      BY <3>2 DEF ResultsStay
  <2>2. ASSUME NEW j \in Jobs, NEW result \in Results, ActivityEnds(j, result) PROVE ResultsStay
    <3>1. job[j].result = NoResult
      BY <1>0, <2>2 DEF ActivityEnds, StagesAreTrue, StageIsTrue
    <3>2. \A i \in Jobs : i # j => job'[i] = job[i]
      BY <1>0, <2>2 DEF ActivityEnds, TypeOK
    <3> QED
      BY <3>1, <3>2 DEF ResultsStay
  <2>3. CASE WorkerCrashes
    BY <1>0, <2>3 DEF WorkerCrashes, StagesAreTrue, ResultsStay
  <2>4. CASE UNCHANGED job
    BY <2>4 DEF ResultsStay
  <2>5. \/ UNCHANGED job \/ WorkerCrashes \/ \E j \in Jobs : Emit(j)
        \/ \E j \in Jobs, result \in Results : ActivityEnds(j, result)
    BY DEF WorkerStep, EmitTimesOut, TaskRecorded, PublishLate, vars
  <2> QED
    BY <2>1, <2>2, <2>3, <2>4, <2>5
<1> QED
  BY <1>0, <1>1, <1>2, Appended, NotAppended DEF IInv, TypeOK

LEMMA StepFollows ==
    ASSUME OneReplica, IInv, StreamInOrder, DeliveryInOrder, RowsFollowEvents, [Next]_vars
    PROVE  RowsFollowEvents'
<1>0. TypeOK /\ AcksAreInOrder
  BY DEF IInv, DeliveryInOrder
<1>1. CASE losses' # 0
  BY <1>1 DEF RowsFollowEvents
<1> SUFFICES ASSUME losses' = 0 PROVE RowsFollowEvents'
  BY <1>1
<1>2. /\ Acked \in SUBSET DOMAIN stream
      /\ pending # {} => Acked \cup {Min(pending)} \in SUBSET DOMAIN stream
  BY <1>0, AckedShape
<1>3. ASSUME losses = 0 PROVE
          \/ RowsFollow(Acked) /\ \A r \in Replicas : replica[r].at # "stored"
          \/ pending # {} /\ RowsFollow(Acked \cup {Min(pending)})
  BY <1>3 DEF RowsFollowEvents
<1>4. ASSUME UNCHANGED <<next, pending>>, losses = 0,
             \A S \in SUBSET DOMAIN stream : RowsFollow(S) => RowsFollow(S)',
             \A r \in Replicas : replica'[r].at = "stored" => replica[r].at = "stored"
      PROVE  RowsFollowEvents'
  <2>1. PICK A \in SUBSET DOMAIN stream : A = Acked
    BY <1>2
  <2>2. A = Acked'
    BY <1>4, <2>1 DEF Acked
  <2>3. CASE RowsFollow(Acked) /\ \A r \in Replicas : replica[r].at # "stored"
    <3>1. RowsFollow(A)
      BY <2>1, <2>3
    <3>2. RowsFollow(A)'
      BY <1>4, <3>1
    <3> QED
      BY <1>4, <2>2, <2>3, <3>2 DEF RowsFollowEvents, RowsFollow
  <2>4. CASE pending # {} /\ RowsFollow(Acked \cup {Min(pending)})
    <3>1. PICK S \in SUBSET DOMAIN stream : S = Acked \cup {Min(pending)}
      BY <1>2, <2>4
    <3>2. RowsFollow(S)'
      BY <1>4, <2>4, <3>1
    <3>3. S = (Acked \cup {Min(pending)})'
      BY <1>4, <2>1, <2>2, <3>1
    <3> QED
      BY <1>4, <2>4, <3>2, <3>3 DEF RowsFollowEvents
  <2> QED
    BY <1>3, <1>4, <2>3, <2>4
<1>5. ASSUME UNCHANGED <<skips, job, stream, rows, artifacts, timeouts>>, NEW S \in SUBSET DOMAIN stream
      PROVE  RowsFollow(S)' <=> RowsFollow(S)
  BY <1>5 DEF RowsFollow, Exempt, JobFollows, RowAfter, RowsOf, AnnouncedIn
<1>6. CASE WorkerStep \/ WorkerCrashes \/ UNCHANGED vars
  <2>1. /\ UNCHANGED <<skips, next, pending, replica, rows, artifacts>>
        /\ UNCHANGED faults \/ Loss \/ Timeout \/ Restart
    BY <1>6 DEF WorkerStep, WorkerCrashes, vars, Emit, EmitTimesOut, ActivityEnds, TaskRecorded,
                PublishLate, redis, tables, faults
  <2>2. Grows /\ ResultsStay /\ job' \in [Jobs -> JobState]
    BY <1>6, WorkerShape
  <2>3. losses = 0 /\ (timeouts' = 0 => timeouts = 0)
    BY <1>0, <2>1, FaultsGrow
  <2>4. \A S \in SUBSET DOMAIN stream : RowsFollow(S) => RowsFollow(S)'
    BY <2>1, <2>2, <2>3, WorkerFollows
  <2> QED
    BY <1>4, <2>1, <2>3, <2>4
<1>7. ASSUME NEW r \in Replicas, Connect(r) \/ ReadPending(r) \/ Load(r) \/ Disconnect(r)
      PROVE  RowsFollowEvents'
  <2>1. /\ UNCHANGED <<skips, job, stream, rows, artifacts, next, pending, timeouts>>
        /\ losses' = losses
    BY <1>7 DEF Connect, ReadPending, Load, Disconnect, Restart, workerVars, redis, tables, faults
  <2>2. \A s \in Replicas : replica'[s].at = "stored" => replica[s].at = "stored"
    <3> SUFFICES replica'[r].at # "stored"
      BY DEF OneReplica
    <3>1. \A state : state.at = "idle" /\ replica' = [replica EXCEPT ![r] = state]
              => replica'[r].at # "stored"
      BY <1>0 DEF TypeOK
    <3>2. CASE Connect(r)
      <4>1. [Off EXCEPT !.at = "idle", !.draining = TRUE].at = "idle"
        BY DEF Off
      <4> QED
        BY <1>0, <3>2, <4>1 DEF Connect, Update, TypeOK
    <3>3. CASE ReadPending(r)
      <4>1. replica[r] \in ReplicaState /\ replica[r].at = "idle"
        BY <3>3, ReplicaShape DEF ReadPending
      <4> DEFINE todo == {k \in pending : k > replica[r].cursor}
                 done == [replica[r] EXCEPT !.draining = FALSE]
                 state == [replica[r] EXCEPT !.hand = todo, !.cursor = Max(todo)]
      <4>2. done.at = "idle" /\ state.at = "idle"
        BY <4>1 DEF ReplicaState
      <4>3. replica' = [replica EXCEPT ![r] = done] \/ replica' = [replica EXCEPT ![r] = state]
        BY <3>3 DEF ReadPending, Update
      <4> HIDE DEF done, state
      <4> QED
        BY <3>1, <4>2, <4>3
    <3>4. CASE Load(r)
      <4>1. replica[r] \in ReplicaState
        BY ReplicaShape
      <4>2. \A x : [replica[r] EXCEPT !.at = "loaded", !.seen = x].at = "loaded"
        BY <4>1 DEF ReplicaState
      <4> QED
        BY <1>0, <3>4, <4>2 DEF Load, Update, TypeOK
    <3>5. CASE Disconnect(r)
      BY <1>0, <3>5 DEF Disconnect, Update, TypeOK, Off
    <3> QED
      BY <1>7, <3>2, <3>3, <3>4, <3>5
  <2>3. losses = 0
    BY <2>1
  <2> QED
    BY <1>4, <1>5, <2>1, <2>2, <2>3
<1>8. ASSUME NEW r \in Replicas, ReadNew(r) PROVE RowsFollowEvents'
  <2>1. /\ UNCHANGED <<skips, job, stream, rows, artifacts, timeouts>> /\ losses = 0
        /\ replica[r].at = "idle" /\ replica[r].hand = {} /\ ~replica[r].draining
        /\ Update(r, [replica[r] EXCEPT !.hand = next..Len(stream)])
        /\ pending' = pending \cup next..Len(stream) /\ next' = Len(stream) + 1
    BY <1>8 DEF ReadNew, workerVars, tables, faults
  <2>2. pending = {}
    BY <2>1, HandHoldsPending
  <2>3. RowsFollow(Acked)
    BY <1>3, <2>1, <2>2
  <2>4. PICK A \in SUBSET DOMAIN stream : A = Acked
    BY <1>2
  <2>5. A = Acked'
    <3>1. next \in 1..(Len(stream) + 1) /\ Len(stream) \in Nat
      BY <1>0, StreamShape DEF TypeOK
    <3>2. 1..(next - 1) = (1..Len(stream)) \ (next..Len(stream))
      BY <3>1
    <3>3. 1..(next' - 1) = 1..Len(stream)
      BY <2>1, <3>1
    <3> QED
      BY <2>1, <2>2, <2>4, <3>2, <3>3 DEF Acked
  <2>6. RowsFollow(A)'
    BY <1>5, <2>1, <2>3, <2>4
  <2>7. replica'[r].at # "stored"
    <3>1. [replica[r] EXCEPT !.hand = next..Len(stream)].at = "idle"
      BY <2>1, ReplicaShape DEF ReplicaState
    <3> QED
      BY <1>0, <2>1, <3>1 DEF Update, TypeOK
  <2> QED
    BY <2>5, <2>6, <2>7 DEF RowsFollowEvents, OneReplica
<1>9. ASSUME NEW r \in Replicas, Store(r) PROVE RowsFollowEvents'
  <2>1. /\ replica[r].at = "loaded" /\ UNCHANGED <<skips, job, stream, next, pending>>
        /\ UNCHANGED faults
    BY <1>9, StoreShape
  <2>2. /\ replica[r].hand = pending /\ pending # {}
        /\ replica[r].seen = {row.id : row \in RowsOf(InHand(r).job)}
    BY <2>1, HandHoldsPending
  <2>3. PICK k \in DOMAIN stream : k = Min(pending)
    BY <1>0, <2>2, AckedShape
  <2>4. Acked = 1..(k - 1) /\ Acked \cup {k} = 1..k /\ stream[k] = InHand(r)
    BY <1>0, <2>2, <2>3, AckedShape DEF InHand
  <2>5. PICK S \in SUBSET DOMAIN stream : (S = 1..(k - 1) \/ S = 1..k) /\ RowsFollow(S)
    BY <1>2, <1>3, <2>1, <2>2, <2>3, <2>4 DEF faults
  <2>6. Handling(k, S)
    BY <2>1, <2>5 DEF Handling, faults
  <2>7. RowsFollow(1..k)'
    BY <1>9, <2>2, <2>4, <2>6, StoreFollows
  <2>8. (Acked \cup {Min(pending)})' = 1..k /\ pending' # {}
    BY <2>1, <2>2, <2>3, <2>4 DEF Acked
  <2> QED
    BY <2>7, <2>8 DEF RowsFollowEvents
<1>10. ASSUME NEW r \in Replicas, StoreFails(r) PROVE RowsFollowEvents'
  BY <1>0, <1>10, FaultsGrow DEF StoreFails
<1>11. ASSUME NEW r \in Replicas, Ack(r) PROVE RowsFollowEvents'
  <2>1. /\ UNCHANGED <<skips, job, stream, rows, artifacts, timeouts>> /\ losses = 0 /\ next' = next
        /\ replica[r].at = "stored" /\ pending' = pending \ {Min(replica[r].hand)}
        /\ Update(r, [replica[r] EXCEPT !.at = "idle", !.hand = @ \ {Min(@)}])
    BY <1>11 DEF Ack, workerVars, tables, faults
  <2>2. replica[r].hand = pending /\ pending # {}
    BY <2>1, HandHoldsPending
  <2>3. PICK S \in SUBSET DOMAIN stream : S = Acked \cup {Min(pending)} /\ RowsFollow(S)
    BY <1>2, <1>3, <2>1, <2>2
  <2>4. S = Acked'
    <3>1. Min(pending) \in 1..(next - 1)
      BY <1>0, <2>2, AckedShape DEF TypeOK
    <3> QED
      BY <2>1, <2>2, <2>3, <3>1 DEF Acked
  <2>5. RowsFollow(S)'
    BY <1>5, <2>1, <2>3
  <2>6. replica'[r].at # "stored"
    <3>1. \A x : [replica[r] EXCEPT !.at = "idle", !.hand = x].at = "idle"
      BY ReplicaShape DEF ReplicaState
    <3> QED
      BY <1>0, <2>1, <3>1 DEF Update, TypeOK
  <2> QED
    BY <2>4, <2>5, <2>6 DEF RowsFollowEvents, OneReplica
<1> QED
  BY <1>6, <1>7, <1>8, <1>9, <1>10, <1>11 DEF Next, SubscriberStep

-----------------------------------------------------------------------------

LEMMA SoloInit == Init => SoloInv
<1> SUFFICES ASSUME Init PROVE SoloInv
  OBVIOUS
<1>1. /\ stream = <<>> /\ DOMAIN stream = {} /\ pending = {} /\ rows = {} /\ late = {} /\ next = 1
      /\ \A j \in Jobs : job[j].stage = "pending" /\ recorded[j].stage = "pending"
      /\ \A r \in Replicas : replica[r].at = "off"
  BY DEF Init, Fresh, Off
<1>2. StartsComeFirst /\ EndsComeLast
  BY <1>1 DEF StartsComeFirst, EndsComeLast
<1>3. AcksAreInOrder /\ HandIsPending /\ SeenIsCurrent
  BY <1>1 DEF AcksAreInOrder, HandIsPending, SeenIsCurrent
<1>4. Acked = {}
  BY <1>1 DEF Acked
<1>5. RowsFollowEvents
  <2>1. RowsFollow({})
    BY <1>1 DEF RowsFollow, JobFollows, RowsOf, AnnouncedIn
  <2> QED
    BY <1>1, <1>4, <2>1 DEF RowsFollowEvents
<1> QED
  BY <1>2, <1>3, <1>5 DEF SoloInv

LEMMA SoloStep == OneReplica /\ IInv /\ SoloInv /\ [Next]_vars => SoloInv'
BY StepInOrder, StepDelivers, StepFollows DEF SoloInv, StreamInOrder, DeliveryInOrder

LEMMA SoloInvariant ==
    ASSUME OneReplica
    PROVE  Spec => [](IInv /\ SoloInv)
<1>1. Init => IInv /\ SoloInv
  BY InitInv, SoloInit
<1>2. IInv /\ SoloInv /\ [Next]_vars => (IInv /\ SoloInv)'
  BY StepInvariant, SoloStep
<1> QED
  BY <1>1, <1>2, PTL DEF Spec

(* "Nothing is lost to a restart": with one API process, every handled      *)
(* event is in the rows, once and in order, whatever jobs there are and    *)
(* however often the worker and the subscriber stopped and repeated        *)
(* themselves (run_event_subscriber).                                      *)
THEOREM OneReplicaIsExact ==
    ASSUME OneReplica
    PROVE  Spec => []HandledRowsAreExact
<1>1. ASSUME IInv, SoloInv, AllHandled, losses = 0, NEW j \in Jobs,
             timeouts = 0 \/ job[j].result.attempt <= 1
      PROVE  /\ RowsOf(j) = IF Announced(j, {"job_started", "job_skipped"})
                            THEN {ExpectedRow(j)} ELSE {}
             /\ Announced(j, {"job_succeeded"}) => artifacts[j] > 0
  <2>1. pending = {} /\ Acked = DOMAIN stream
    <3>1. next > Len(stream) /\ pending = {}
      BY <1>1 DEF AllHandled
    <3>2. next = Len(stream) + 1 /\ Len(stream) \in Nat /\ DOMAIN stream = 1..Len(stream)
      BY <1>1, <3>1, StreamShape DEF IInv, TypeOK
    <3> QED
      BY <3>1, <3>2 DEF Acked
  <2>2. RowsFollow(DOMAIN stream)
    BY <1>1, <2>1 DEF SoloInv, RowsFollowEvents
  <2>3. ~Exempt(j)
    <3>1. job[j].result \in Results \cup {NoResult} /\ NoResult.attempt = 0
      BY <1>1 DEF IInv, TypeOK, JobState, NoResult
    <3>2. job[j].result.attempt \in Nat
      BY <3>1, ResultShape, AttemptsAssumption DEF Ends
    <3> QED
      BY <1>1, <3>2 DEF Exempt
  <2>4. JobFollows(DOMAIN stream, j)
    BY <2>2, <2>3 DEF RowsFollow
  <2>5. \A types : AnnouncedIn(DOMAIN stream, j, types) <=> Announced(j, types)
    BY DEF AnnouncedIn, Announced
  <2>6. RowAfter(DOMAIN stream, j) = ExpectedRow(j)
    BY <2>5 DEF RowAfter, ExpectedRow
  <2> QED
    BY <2>4, <2>5, <2>6 DEF JobFollows, Starts
<1>2. IInv /\ SoloInv => HandledRowsAreExact
  BY <1>1 DEF HandledRowsAreExact
<1> QED
  BY <1>2, SoloInvariant, PTL
=============================================================================
