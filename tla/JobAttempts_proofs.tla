------------------------- MODULE JobAttempts_proofs -------------------------
(***************************************************************************)
(* Proofs about JobAttempts, for any jobs, definitions, number of threads  *)
(* and bounds.  What attempts may do outside follows from which of them    *)
(* can still act (Sched), which step a job's kind and defect let them      *)
(* reach (StepInv), and whose product is where (OwnInv).                   *)
(***************************************************************************)
EXTENDS JobAttempts, FiniteSetTheorems, TLAPS

(* TypeOK in two parts: the schedule and the outside world. *)
SchedType ==
    /\ job \in [Jobs -> Profile]
    /\ run \in [Jobs -> {"new", "announcing", "attempting", "reporting", "closed"}]
    /\ act \in [Jobs -> [n: 0..AttemptCap, outcome: Outcomes,
                         phase: {"idle", "scheduled", "started", "closed"}]]
    /\ at \in [Handles -> Steps]
    /\ tries \in [Jobs -> 1..MaxTries]
    /\ queue \in Seq(Items)
    /\ threads \in SUBSET Items
    /\ outlived \in [Jobs -> SUBSET Attempts]
    /\ crashes \in 0..MaxCrashes

OutsideType ==
    /\ did \in [Jobs -> SUBSET Attempts]
    /\ target \in [Jobs -> [by: 0..AttemptCap, whole: BOOLEAN]]
    /\ files \in [Places -> 0..AttemptCap]
    /\ objects \in [Handles -> 0..AttemptCap]

(* Temporal's record: a first attempt once the run asks for it, an outcome *)
(* when it is closed, and only earlier attempts given up.                  *)
RecordInv ==
    \A j \in Jobs :
        /\ act[j].phase # "idle" => act[j].n \in Attempts
        /\ act[j].outcome # "none" => act[j].phase = "closed"
        /\ run[j] \in {"new", "announcing"} => act[j].phase = "idle" /\ outlived[j] = {}
        /\ act[j].phase = "idle" => act[j].n = 0
        /\ \A k \in outlived[j] : k <= act[j].n /\ (act[j].phase # "closed" => k < act[j].n)

(* An attempt that acts, or waits to, is the current one or was given up;  *)
(* later ones have not begun.                                              *)
Acts(a) == at[a] \notin {"none", "ended"}
Later(a) == a[2] > act[a[1]].n \/ (a[2] = act[a[1]].n /\ act[a[1]].phase = "scheduled")
AttemptInv ==
    \A a \in Handles :
        /\ Acts(a) => Current(a) \/ a[2] \in outlived[a[1]]
        /\ Later(a) => at[a] = "none"

(* An attempt is in the executor's queue once, and has not begun.          *)
QueueInv ==
    /\ \A k \in 1..Len(queue) : queue[k].what = "attempt" => at[<<queue[k].job, queue[k].n>>] = "queued"
    /\ \A i, k \in 1..Len(queue) : i # k /\ queue[i].what = "attempt" => queue[i] # queue[k]

(* The steps an attempt may be in, by the kind and the defect of its job.  *)
Allowed(a, s) ==
    /\ s \in {"spawn", "wait", "upload", "orphan"} => Is(a, "command")
    /\ s = "request" => Is(a, "rest")
    /\ s \in {"fetch", "parse"} => Is(a, "transform")
    /\ s = "parse" => ~ Defect(a, "url")
    /\ s = "resolve" => Is(a, "sql") \/ Is(a, "file_transfer")
    /\ s = "execute" => Is(a, "sql") /\ Defect(a, "none")
    /\ s = "read" => Is(a, "file_transfer") /\ ~ Defect(a, "secret") /\ ~ Defect(a, "credentials")
    /\ s \in {"write", "writing"} => Is(a, "file_transfer")
    /\ s = "write" => Defect(a, "none") \/ (Defect(a, "key") /\ job[a[1]].place = "sftp")
    /\ s = "writing" => Defect(a, "none")
StepInv == \A a \in Handles : Allowed(a, at[a])

(* What a relative path names in a fresh directory, and what is under an   *)
(* attempt's key, is the attempt's own.                                    *)
OwnPath(j) == job[j].place = "fresh" /\ job[j].path = "relative"
OwnInv ==
    \A a \in Handles : OwnPath(a[1]) =>
        /\ files[a] \in {0, a[2]} /\ objects[a] \in {0, a[2]}
        /\ act[a[1]].outcome = "stored" /\ act[a[1]].n = a[2] => objects[a] # 0

Sched == SchedType /\ RecordInv /\ AttemptInv /\ QueueInv
IInv == /\ Sched /\ OutsideType /\ StepInv
        /\ OwnInv /\ BrokenJobsDoNothing /\ DestinationHoldsRecorded

(* What a step of an attempt does, whatever its activity.                  *)
Touches(a) ==
    /\ did' = did \/ (Did(a) /\ Defect(a, "none"))
    /\ target' = target \/ ((\E b \in BOOLEAN : Wrote(a, b)) /\ Defect(a, "none"))
    /\ files' = files \/ files' = [files EXCEPT ![ArtifactPath(a)] = a[2]]
    /\ objects' = objects \/ ( /\ files[ArtifactPath(a)] # 0
                               /\ objects' = [objects EXCEPT ![a] = files[ArtifactPath(a)]] )

Moves(a)  == \E s \in Steps \ {"none", "queued"} : Goes(a, s) /\ Allowed(a, s)
Raises(a) == \E how \in {Raised, NonRetryable} :
                /\ Ends(a, how)
                /\ Is(a, "rest") /\ ~ Defect(a, "none") => how = NonRetryable
Succeeds(a) ==
    /\ Defect(a, "none")
    /\ \/ Ends(a, "done") /\ (Is(a, "file_transfer") => Wrote(a, TRUE))
       \/ /\ Ends(a, "stored") /\ Is(a, "command")
          /\ files[ArtifactPath(a)] # 0
          /\ objects' = [objects EXCEPT ![a] = files[ArtifactPath(a)]]

Acting(a) == Acts(a) /\ at[a] # "queued"

-----------------------------------------------------------------------------
LEMMA HandleShape ==
    ASSUME NEW a \in Handles
    PROVE  a[1] \in Jobs /\ a[2] \in Attempts /\ a = <<a[1], a[2]>>
BY DEF Handles

LEMMA DefectsOfKinds ==
    ASSUME SchedType, NEW j \in Jobs
    PROVE  /\ job[j].kind \in Kinds
           /\ job[j].retry \in 0..AttemptCap
           /\ job[j].kind = "command" => job[j].defect = "none"
           /\ job[j].kind = "rest" => job[j].defect \in {"none", "url"}
           /\ job[j].kind = "transform" => job[j].defect \in {"none", "url", "payload"}
           /\ job[j].kind = "sql" => job[j].defect \in {"none", "secret"}
           /\ job[j].kind = "file_transfer" =>
                  job[j].defect \in {"none", "secret", "credentials", "key", "uri", "url", "size"}
<1>1. job[j] \in Profile
  BY DEF SchedType
<1>2. /\ job[j].kind \in Kinds /\ job[j].retry \in 0..AttemptCap
      /\ job[j].defect = "none" \/ job[j].defect \in Meets(job[j].kind)
  BY <1>1 DEF Profile
<1>3. Meets("command") = {} /\ Meets("rest") = {"url"} /\ Meets("transform") = {"url", "payload"}
      /\ Meets("sql") = {"secret"}
      /\ Meets("file_transfer") = {"secret", "credentials", "key", "uri", "url", "size"}
  BY DEF Meets
<1> QED
  BY <1>2, <1>3

(* What becomes of an activity whose current attempt has ended. *)
LEMMA AfterShape ==
    ASSUME SchedType, RecordInv, NEW j \in Jobs, act[j].phase = "started", NEW how
    PROVE  /\ AfterAttempt(j, how) \in [n: Attempts, outcome: Outcomes, phase: {"scheduled", "closed"}]
           /\ how \in {"done", "stored"} =>
                  AfterAttempt(j, how) = [n |-> act[j].n, phase |-> "closed", outcome |-> how]
           /\ how \notin {"done", "stored"} =>
                  \/ AfterAttempt(j, how) = [n |-> act[j].n, phase |-> "closed", outcome |-> "failed"]
                  \/ /\ how # NonRetryable
                     /\ AfterAttempt(j, how) = [n |-> act[j].n + 1, phase |-> "scheduled", outcome |-> "none"]
<1>1. act[j].n \in Attempts
  BY DEF RecordInv
<1>2. build_retry_policy(job[j].retry) \in 0..AttemptCap
  BY DefectsOfKinds, PoolAssumption DEF build_retry_policy, _DEFAULT_MAX_ATTEMPTS, NoRetry
<1>3. CASE how \in {"done", "stored"}
  BY <1>1, <1>3 DEF AfterAttempt, Outcomes
<1>4. CASE how \notin {"done", "stored"} /\ (how = NonRetryable \/ act[j].n >= build_retry_policy(job[j].retry))
  BY <1>1, <1>4 DEF AfterAttempt, Outcomes
<1>5. CASE how \notin {"done", "stored"} /\ ~(how = NonRetryable \/ act[j].n >= build_retry_policy(job[j].retry))
  <2>1. act[j].n + 1 \in Attempts
    BY <1>1, <1>2, <1>5, PoolAssumption DEF Attempts
  <2> QED
    BY <1>5, <2>1 DEF AfterAttempt, Outcomes
<1> QED
  BY <1>3, <1>4, <1>5

(* Every step of every activity is one of these.                           *)
LEMMA ActorShape ==
    ASSUME SchedType, StepInv, NEW a \in Handles, AttemptStep(a) \/ ProcessExits(a)
    PROVE  /\ Acting(a) /\ Touches(a)
           /\ Moves(a) \/ Raises(a) \/ Succeeds(a)
<1> USE DEF Acting, Acts, Touches, Moves, Raises, Succeeds, Fails, outside, Steps
<1>a. a[1] \in Jobs
  BY HandleShape
<1>b. Allowed(a, at[a])
  BY DEF StepInv
<1>1. CASE ProcessExits(a)
  <2>1. Is(a, "command") /\ Defect(a, "none")
    BY <1>1, <1>a, <1>b, DefectsOfKinds DEF ProcessExits, Allowed, Is, Defect
  <2> QED
    BY <1>1, <2>1 DEF ProcessExits, Allowed, Is
<1>2. CASE run_command_job(a)
  <2>1. Is(a, "command") /\ Defect(a, "none")
    BY <1>2, <1>a, <1>b, DefectsOfKinds DEF run_command_job, _stream_command, upload_artifacts, Allowed, Is, Defect
  <2> QED
    BY <1>2, <2>1 DEF run_command_job, _stream_command, upload_artifacts, Allowed, Is, ArtifactKey
<1>3. CASE execute_rest(a)
  <2>1. Is(a, "rest") /\ (Defect(a, "none") \/ Defect(a, "url"))
    BY <1>3, <1>a, <1>b, DefectsOfKinds DEF execute_rest, Allowed, Is, Defect
  <2> QED
    BY <1>3, <2>1 DEF execute_rest, Is, Defect
<1>4. CASE run_transform_job(a)
  <2>1. /\ Is(a, "transform") /\ at[a] \in {"fetch", "parse"}
        /\ Defect(a, "none") \/ Defect(a, "url") \/ Defect(a, "payload")
        /\ at[a] = "parse" => ~ Defect(a, "url")
    BY <1>4, <1>a, <1>b, DefectsOfKinds DEF run_transform_job, extract_path, Allowed, Is, Defect
  <2> QED
    BY <1>4, <2>1 DEF run_transform_job, extract_path, Allowed, Is, Defect
<1>5. CASE run_sql_job(a)
  <2>1. Is(a, "sql") /\ (Defect(a, "none") \/ Defect(a, "secret")) /\ at[a] \in {"resolve", "execute"}
    BY <1>5, <1>a, <1>b, DefectsOfKinds DEF run_sql_job, resolve_reference, Allowed, Is, Defect
  <2>2. at[a] = "execute" => Defect(a, "none")
    BY <1>b DEF Allowed
  <2> QED
    BY <1>5, <2>1, <2>2 DEF run_sql_job, resolve_reference, Allowed, Is, Defect
<1>6. CASE run_file_transfer_job(a)
  <2>1. Is(a, "file_transfer") /\ at[a] \in {"resolve", "read", "write", "writing"}
    BY <1>6, <1>b DEF run_file_transfer_job, resolve_reference, TransferRead, write_object, write_sftp, Allowed
  <2>2. CASE resolve_reference(a)
    <3>1. at[a] = "resolve" /\ ~ Is(a, "sql")
      BY <2>1, <2>2 DEF resolve_reference, Is
    <3>2. ~ Defect(a, "secret") /\ ~ Defect(a, "credentials") => Allowed(a, "read")
      BY <2>1 DEF Allowed
    <3> QED
      <4>1. CASE Fails(a, NonRetryable) \/ Fails(a, Raised)
        BY <2>1, <3>1, <4>1 DEF Is
      <4>2. CASE Allowed(a, "read") /\ Goes(a, "read") /\ UNCHANGED outside
        BY <3>1, <4>2
      <4> QED
        BY <2>2, <3>1, <3>2, <4>1, <4>2 DEF resolve_reference
  <2>3. CASE TransferRead(a)
    <3>1. \/ Defect(a, "none") \/ Defect(a, "key")
          \/ Defect(a, "uri") \/ Defect(a, "url") \/ Defect(a, "size")
      BY <2>1, <2>3, <1>a, <1>b, DefectsOfKinds DEF TransferRead, Allowed, Is, Defect
    <3>2. at[a] = "read" /\ ~ Is(a, "rest")
      BY <2>1, <2>3 DEF TransferRead, Is
    <3>3. CASE Fails(a, NonRetryable) \/ Fails(a, Raised)
      BY <3>2, <3>3
    <3>4. CASE /\ ~ Unsupported(a) /\ ~ Defect(a, "url") /\ ~ Defect(a, "size")
               /\ Defect(a, "key") => job[a[1]].place = "sftp"
               /\ Goes(a, "write") /\ UNCHANGED outside
      <4>1. Allowed(a, "write")
        BY <2>1, <3>1, <3>4 DEF Allowed, Unsupported
      <4> QED
        BY <3>2, <3>4, <4>1
    <3> QED
      BY <2>3, <3>3, <3>4 DEF TransferRead
  <2>4. CASE write_object(a) \/ (write_sftp(a) /\ ~ Defect(a, "key"))
    <3>1. Defect(a, "none")
      BY <2>4, <1>b DEF write_object, write_sftp, Allowed
    <3> QED
      BY <2>1, <2>4, <3>1 DEF write_object, write_sftp, Allowed, Is, Defect
  <2>5. CASE write_sftp(a) /\ Defect(a, "key")
    <3>1. at[a] # "writing"
      BY <2>5, <1>b DEF Allowed, Defect
    <3>2. at[a] = "write" /\ Fails(a, NonRetryable)
      BY <2>5, <3>1 DEF write_sftp
    <3> QED
      BY <2>1, <3>2
  <2> QED
    BY <1>6, <2>2, <2>3, <2>4, <2>5 DEF run_file_transfer_job
<1> QED
  BY <1>1, <1>2, <1>3, <1>4, <1>5, <1>6 DEF AttemptStep

-----------------------------------------------------------------------------
(* The schedule.                                                           *)

THEOREM InitInv == Init => IInv
<1> SUFFICES ASSUME Init PROVE IInv
  OBVIOUS
<1>1. job \in [Jobs -> Profile]
  BY ProfilesAssumption DEF Init
<1>2. SchedType /\ OutsideType
  BY <1>1, BoundsAssumption, PoolAssumption DEF Init, SchedType, OutsideType, Outcomes, Steps,
     _DEFAULT_MAX_ATTEMPTS, Attempts
<1>3. RecordInv /\ AttemptInv /\ QueueInv /\ StepInv
  BY DEF Init, RecordInv, AttemptInv, Acts, QueueInv, StepInv, Allowed
<1>5. OwnInv
  <2> SUFFICES ASSUME NEW a \in Handles
               PROVE  files[a] = 0 /\ objects[a] = 0 /\ act[a[1]].outcome = "none"
    BY DEF OwnInv
  <2>1. a[1] \in Jobs /\ a \in Places
    BY DEF Handles, Places, Attempts
  <2> QED
    BY <2>1 DEF Init
<1>4. BrokenJobsDoNothing /\ DestinationHoldsRecorded
  <2>1. \A j \in Jobs : outlived[j] = {}
    BY DEF Init
  <2>2. Cardinality({}) = 0
    BY FS_EmptySet
  <2> QED
    BY <2>1, <2>2 DEF Init, BrokenJobsDoNothing, DestinationHoldsRecorded
<1> QED
  BY <1>2, <1>3, <1>4, <1>5 DEF IInv, Sched

(* What is queued is an attempt, and stays so as long as it is queued.     *)
LEMMA QueuedHandle ==
    ASSUME SchedType, NEW k \in 1..Len(queue), queue[k].what = "attempt"
    PROVE  /\ queue[k].job \in Jobs /\ queue[k].n \in Attempts
           /\ <<queue[k].job, queue[k].n>> \in Handles
           /\ queue[k] = AttemptItem(<<queue[k].job, queue[k].n>>)
<1>1. queue[k] \in Items
  BY DEF SchedType
<1> QED
  BY <1>1 DEF Items, Handles, AttemptItem

LEMMA QueueKept ==
    ASSUME SchedType, QueueInv, queue' = queue,
           \A b \in Handles : at[b] = "queued" => at'[b] = "queued"
    PROVE  QueueInv'
BY QueuedHandle DEF QueueInv

(* An attempt that goes on to its next step. *)
LEMMA GoesSched ==
    ASSUME Sched, StepInv, NEW a \in Handles, Acting(a), Moves(a)
    PROVE  Sched' /\ StepInv'
<1> USE DEF Sched
<1>1. PICK s \in Steps \ {"none", "queued"} : Goes(a, s) /\ Allowed(a, s)
  BY DEF Moves
<1>2. /\ at' = [at EXCEPT ![a] = s] /\ s # "none"
      /\ UNCHANGED <<job, run, act, tries, queue, threads, outlived, crashes>>
  BY <1>1 DEF Goes, pool
<1>3. at \in [Handles -> Steps] /\ at[a] # "queued" /\ Acts(a)
  BY DEF SchedType, Acting
<1>4. SchedType' /\ RecordInv'
  BY <1>2, <1>3 DEF SchedType, RecordInv
<1>5. AttemptInv'
  <2> SUFFICES ASSUME NEW b \in Handles
               PROVE  /\ (Acts(b) => Current(b) \/ b[2] \in outlived[b[1]])'
                      /\ (Later(b) => at[b] = "none")'
    BY DEF AttemptInv
  <2>1. at'[b] = IF b = a THEN s ELSE at[b]
    BY <1>2, <1>3
  <2> QED
    BY <1>2, <1>3, <2>1 DEF AttemptInv, Acts, Later, Current
<1>6. QueueInv'
  BY <1>2, <1>3 DEF QueueInv
<1>7. StepInv'
  <2> SUFFICES ASSUME NEW b \in Handles PROVE Allowed(b, at[b])'
    BY DEF StepInv
  <2>1. at'[b] = IF b = a THEN s ELSE at[b]
    BY <1>2, <1>3
  <2> QED
    BY <1>1, <1>2, <2>1 DEF StepInv, Allowed, Is, Defect
<1> QED
  BY <1>4, <1>5, <1>6, <1>7

(* An attempt that ends: its answer counts only if it is the current one.  *)
LEMMA EndsSched ==
    ASSUME Sched, StepInv, NEW a \in Handles, Acting(a), NEW how, Ends(a, how)
    PROVE  Sched' /\ StepInv'
<1> USE DEF Sched
<1>1. /\ at' = [at EXCEPT ![a] = "ended"] /\ threads' = threads \ {AttemptItem(a)}
      /\ act' = IF Current(a) THEN [act EXCEPT ![a[1]] = AfterAttempt(a[1], how)] ELSE act
      /\ UNCHANGED <<job, run, tries, queue, outlived, crashes>>
  BY DEF Ends
<1>2. /\ at \in [Handles -> Steps] /\ at[a] # "queued" /\ Acts(a)
      /\ act \in [Jobs -> [n: 0..AttemptCap, outcome: Outcomes, phase: {"idle", "scheduled", "started", "closed"}]]
  BY DEF SchedType, Acting
<1>3. a[1] \in Jobs /\ a[2] \in Attempts
  BY HandleShape
<1>4. \A b \in Handles : at'[b] = IF b = a THEN "ended" ELSE at[b]
  BY <1>1, <1>2
<1>7. QueueInv'
  BY <1>1, <1>2, <1>4, QueueKept
<1>8. StepInv'
  BY <1>1, <1>4 DEF StepInv, Allowed, Is, Defect
<1>5. CASE ~ Current(a)
  <2>1. act' = act
    BY <1>1, <1>5
  <2>2. SchedType' /\ RecordInv'
    BY <1>1, <1>2, <2>1 DEF SchedType, RecordInv, Steps
  <2>3. AttemptInv'
    BY <1>1, <1>2, <1>4, <2>1 DEF AttemptInv, Acts, Later, Current
  <2> QED
    BY <1>1, <1>2, <1>4, <2>2, <2>3, <1>7, <1>8
<1>6. CASE Current(a)
  <2> DEFINE r == AfterAttempt(a[1], how)
  <2>1. act[a[1]].phase = "started" /\ act[a[1]].n = a[2]
    BY <1>6 DEF Current
  <2>2. /\ r \in [n: Attempts, outcome: Outcomes, phase: {"scheduled", "closed"}]
        /\ r.outcome # "none" => r.phase = "closed"
        /\ \/ r.n = a[2] /\ r.phase = "closed"
           \/ r.n = a[2] + 1 /\ r.phase = "scheduled"
    BY <1>3, <2>1, AfterShape
  <2> HIDE DEF r
  <2>3. act' = [act EXCEPT ![a[1]] = r]
    BY <1>1, <1>6 DEF r
  <2>4. \A j \in Jobs : act'[j] = IF j = a[1] THEN r ELSE act[j]
    BY <1>2, <2>3
  <2>5. SchedType'
    <3>1. r \in [n: 0..AttemptCap, outcome: Outcomes, phase: {"idle", "scheduled", "started", "closed"}]
      BY <2>2, PoolAssumption DEF Attempts
    <3>2. act' \in [Jobs -> [n: 0..AttemptCap, outcome: Outcomes, phase: {"idle", "scheduled", "started", "closed"}]]
      BY <1>2, <2>3, <3>1
    <3> QED
      BY <1>1, <1>2, <3>2 DEF SchedType, Steps
  <2>6. RecordInv'
    <3> SUFFICES ASSUME NEW j \in Jobs
                 PROVE  ( /\ act[j].phase # "idle" => act[j].n \in Attempts
                          /\ act[j].outcome # "none" => act[j].phase = "closed"
                          /\ run[j] \in {"new", "announcing"} => act[j].phase = "idle" /\ outlived[j] = {}
                          /\ act[j].phase = "idle" => act[j].n = 0
                          /\ \A k \in outlived[j] : k <= act[j].n /\ (act[j].phase # "closed" => k < act[j].n) )'
      BY DEF RecordInv
    <3>1. \A k \in outlived[j] : k \in Nat
      BY DEF SchedType, Attempts
    <3>2. CASE j = a[1]
      BY <1>1, <1>3, <2>1, <2>2, <2>4, <3>1, <3>2 DEF RecordInv, Attempts
    <3>3. CASE j # a[1]
      BY <1>1, <2>4, <3>3 DEF RecordInv
    <3> QED
      BY <3>2, <3>3
  <2>7. AttemptInv'
    <3> SUFFICES ASSUME NEW b \in Handles
                 PROVE  /\ (Acts(b) => Current(b) \/ b[2] \in outlived[b[1]])'
                        /\ (Later(b) => at[b] = "none")'
      BY DEF AttemptInv
    <3>1. b[1] \in Jobs /\ b[2] \in Nat /\ b = <<b[1], b[2]>> /\ a = <<a[1], a[2]>> /\ a[2] \in Nat
      BY HandleShape DEF Attempts
    <3>2. CASE b[1] # a[1]
      BY <1>1, <1>4, <2>4, <3>1, <3>2 DEF AttemptInv, Acts, Later, Current
    <3>3. CASE b[1] = a[1]
      BY <1>1, <1>4, <2>1, <2>2, <2>4, <3>1, <3>3 DEF AttemptInv, Acts, Later, Current
    <3> QED
      BY <3>2, <3>3
  <2> QED
    BY <2>5, <2>6, <2>7, <1>7, <1>8
<1> QED
  BY <1>5, <1>6

(* An event appended to the queue. *)
LEMMA EventQueued ==
    ASSUME SchedType, QueueInv, NEW e \in Items, e.what # "attempt",
           queue' = Append(queue, e), at' = at
    PROVE  queue' \in Seq(Items) /\ QueueInv'
<1>1. queue \in Seq(Items)
  BY DEF SchedType
<1>2. /\ queue' \in Seq(Items) /\ Len(queue') = Len(queue) + 1 /\ Len(queue) \in Nat
      /\ \A k \in 1..Len(queue) : queue'[k] = queue[k]
      /\ queue'[Len(queue) + 1] = e
  BY <1>1
<1>3. \A k \in 1..Len(queue') : k \in 1..Len(queue) \/ k = Len(queue) + 1
  BY <1>2
<1> QED
  BY <1>2, <1>3 DEF QueueInv

LEMMA EventIsItem ==
    ASSUME NEW w \in {"announcing", "reporting"}, NEW j \in Jobs, NEW k \in 1..MaxTries
    PROVE  EventItem(w, j, k) \in Items /\ EventItem(w, j, k).what # "attempt"
BY DEF EventItem, Items

(* The steps of the run that only queue an event.                          *)
LEMMA RunSched ==
    ASSUME Sched, NEW j \in Jobs,
           Start(j) \/ PublishTimesOut(j) \/ Republish(j) \/ JobReturns(j)
    PROVE  Sched' /\ UNCHANGED <<job, act, at, outlived, outside>>
<1> USE DEF Sched
<1>1. UNCHANGED <<job, act, at, threads, outlived, outside, crashes>>
  BY DEF Start, PublishTimesOut, Republish, JobReturns
<1>2. 1 \in 1..MaxTries /\ tries[j] \in 1..MaxTries
  BY BoundsAssumption DEF SchedType
<1>3. PICK w \in {"announcing", "reporting"}, k \in 1..MaxTries : queue' = Append(queue, EventItem(w, j, k))
  <2>1. CASE Start(j)
    BY <2>1, <1>2 DEF Start
  <2>2. CASE JobReturns(j)
    BY <2>2, <1>2 DEF JobReturns
  <2>3. CASE Republish(j)
    BY <2>3, <1>2 DEF Republish, Publishing
  <2>4. CASE PublishTimesOut(j)
    <3>1. tries[j] + 1 \in 1..MaxTries
      BY <2>4, <1>2, BoundsAssumption DEF PublishTimesOut
    <3> QED
      BY <2>4, <3>1 DEF PublishTimesOut, Publishing
  <2> QED
    BY <2>1, <2>2, <2>3, <2>4
<1>4. queue' \in Seq(Items) /\ QueueInv'
  BY <1>1, <1>3, EventIsItem, EventQueued
<1>5. run' \in [Jobs -> {"new", "announcing", "attempting", "reporting", "closed"}]
      /\ tries' \in [Jobs -> 1..MaxTries]
  <2>1. run' \in [Jobs -> {"new", "announcing", "attempting", "reporting", "closed"}]
    BY DEF SchedType, Start, PublishTimesOut, Republish, JobReturns
  <2>2. CASE tries' = tries \/ tries' = [tries EXCEPT ![j] = 1]
    BY <1>2, <2>1, <2>2 DEF SchedType
  <2>3. CASE PublishTimesOut(j)
    <3>1. tries[j] + 1 \in 1..MaxTries
      BY <2>3, <1>2, BoundsAssumption DEF PublishTimesOut
    <3> QED
      BY <2>1, <2>3, <3>1 DEF PublishTimesOut, SchedType
  <2> QED
    BY <2>2, <2>3 DEF Start, Republish, JobReturns
<1>6. \A i \in Jobs : run'[i] \in {"new", "announcing"} => run[i] \in {"new", "announcing"}
  BY DEF SchedType, Start, PublishTimesOut, Republish, JobReturns
<1>7. SchedType' /\ RecordInv' /\ AttemptInv'
  BY <1>1, <1>4, <1>5, <1>6 DEF SchedType, RecordInv, AttemptInv, Acts, Later, Current
<1> QED
  BY <1>1, <1>4, <1>7

(* A publication returns: the run may go on to its activity.               *)
LEMMA PublishSched ==
    ASSUME Sched, NEW i \in threads, publish_event(i)
    PROVE  /\ Sched' /\ UNCHANGED <<job, at, outlived, outside>>
           /\ \A j \in Jobs : \/ act'[j] = act[j]
                             \/ act'[j] = [n |-> 1, phase |-> "scheduled", outcome |-> "none"]
<1> USE DEF Sched
<1>1. /\ UNCHANGED <<job, at, tries, queue, outlived, outside, crashes>>
      /\ threads' \in SUBSET Items
      /\ act \in [Jobs -> [n: 0..AttemptCap, outcome: Outcomes, phase: {"idle", "scheduled", "started", "closed"}]]
  BY DEF publish_event, SchedType
<1>2. i.job \in Jobs
  BY DEF publish_event, SchedType, Items
<1>3. QueueInv'
  BY <1>1, QueueKept
<1>4. CASE act' = act /\ \A j \in Jobs : run'[j] \in {"new", "announcing"} => run[j] \in {"new", "announcing"}
  <2>1. run' \in [Jobs -> {"new", "announcing", "attempting", "reporting", "closed"}]
    BY DEF publish_event, SchedType
  <2>2. SchedType'
    BY <1>1, <1>4, <2>1 DEF SchedType
  <2>3. RecordInv' /\ AttemptInv'
    BY <1>1, <1>4 DEF RecordInv, AttemptInv, Acts, Later, Current
  <2> QED
    BY <1>1, <1>3, <1>4, <2>2, <2>3
<1>5. CASE /\ Awaited(i) /\ i.what = "announcing"
           /\ run' = [run EXCEPT ![i.job] = "attempting"]
           /\ act' = [act EXCEPT ![i.job] = [n |-> 1, phase |-> "scheduled", outcome |-> "none"]]
  <2> DEFINE r == [n |-> 1, phase |-> "scheduled", outcome |-> "none"]
  <2>1. run[i.job] = "announcing"
    BY <1>5 DEF Awaited, EventItem
  <2>2. act[i.job].n = 0 /\ act[i.job].phase = "idle" /\ outlived[i.job] = {}
    BY <1>2, <2>1 DEF RecordInv
  <2>3. 1 \in Attempts /\ r \in [n: 0..AttemptCap, outcome: Outcomes, phase: {"idle", "scheduled", "started", "closed"}]
    BY PoolAssumption DEF Attempts, Outcomes, _DEFAULT_MAX_ATTEMPTS
  <2>4. \A j \in Jobs : act'[j] = IF j = i.job THEN r ELSE act[j]
    BY <1>1, <1>5
  <2>5. SchedType'
    <3>1. act' \in [Jobs -> [n: 0..AttemptCap, outcome: Outcomes, phase: {"idle", "scheduled", "started", "closed"}]]
      BY <1>1, <1>5, <2>3
    <3>2. run' \in [Jobs -> {"new", "announcing", "attempting", "reporting", "closed"}]
      BY <1>5 DEF SchedType
    <3> QED
      BY <1>1, <3>1, <3>2 DEF SchedType
  <2>6. RecordInv'
    <3>1. \A j \in Jobs : run'[j] = IF j = i.job THEN "attempting" ELSE run[j]
      BY <1>5 DEF SchedType
    <3>2. \A j \in Jobs : outlived'[j] = outlived[j]
      BY <1>1
    <3> QED
      BY <2>2, <2>3, <2>4, <3>1, <3>2 DEF RecordInv
  <2>7. AttemptInv'
    <3> SUFFICES ASSUME NEW b \in Handles
                 PROVE  /\ (Acts(b) => Current(b) \/ b[2] \in outlived[b[1]])'
                        /\ (Later(b) => at[b] = "none")'
      BY DEF AttemptInv
    <3>1. b[1] \in Jobs /\ b[2] \in Nat /\ b[2] > 0
      BY HandleShape DEF Attempts
    <3>2. CASE b[1] = i.job
      <4>1. at[b] = "none"
        BY <2>2, <3>1, <3>2 DEF AttemptInv, Later
      <4> QED
        BY <1>1, <4>1 DEF Acts
    <3>3. CASE b[1] # i.job
      BY <1>1, <2>4, <3>1, <3>3 DEF AttemptInv, Acts, Later, Current
    <3> QED
      BY <3>2, <3>3
  <2> QED
    BY <1>1, <1>3, <2>4, <2>5, <2>6, <2>7
<1> QED
  <2>1. \/ /\ Awaited(i) /\ i.what = "announcing"
           /\ run' = [run EXCEPT ![i.job] = "attempting"]
           /\ act' = [act EXCEPT ![i.job] = [n |-> 1, phase |-> "scheduled", outcome |-> "none"]]
        \/ act' = act /\ (run' = run \/ run' = [run EXCEPT ![i.job] = "closed"])
    BY DEF publish_event
  <2> QED
    BY <1>4, <1>5, <2>1 DEF SchedType

(* The worker polls a scheduled attempt.                                   *)
LEMMA PollSched ==
    ASSUME Sched, StepInv, NEW j \in Jobs, Poll(j)
    PROVE  /\ Sched' /\ StepInv' /\ UNCHANGED <<job, outlived, outside>>
           /\ \A k \in Jobs : act'[k].n = act[k].n /\ act'[k].outcome = act[k].outcome
           /\ act[j].phase = "scheduled"
           /\ \A k \in Jobs : k # j => act'[k] = act[k]
<1> USE DEF Sched
<1> DEFINE a == <<j, act[j].n>>
           n == act[j].n
           first == First(job[j].kind)
<1>1. /\ UNCHANGED <<job, run, tries, threads, outlived, outside, crashes>>
      /\ act[j].phase = "scheduled" /\ act' = [act EXCEPT ![j].phase = "started"]
      /\ \/ job[j].kind \in Async /\ at' = [at EXCEPT ![a] = first] /\ queue' = queue
         \/ at' = [at EXCEPT ![a] = "queued"] /\ queue' = Append(queue, AttemptItem(a))
  BY DEF Poll
<1>2. /\ act \in [Jobs -> [n: 0..AttemptCap, outcome: Outcomes, phase: {"idle", "scheduled", "started", "closed"}]]
      /\ at \in [Handles -> Steps] /\ queue \in Seq(Items)
  BY DEF SchedType
<1>3. n \in Attempts /\ a \in Handles /\ a[1] = j /\ a[2] = n
  BY <1>1 DEF RecordInv, Handles
<1>4. at[a] = "none"
  BY <1>1, <1>3 DEF AttemptInv, Later
<1>5. job[j].kind \in Async => first \in Steps \ {"none"} /\ Allowed(a, first)
  BY <1>3 DEF Async, First, Steps, Allowed, Is
<1>6. PICK s \in Steps \ {"none"} : at' = [at EXCEPT ![a] = s] /\ Allowed(a, s)
                                  /\ (queue' # queue => s = "queued")
  <2>1. "queued" \in Steps \ {"none"} /\ Allowed(a, "queued")
    BY DEF Steps, Allowed
  <2> QED
    BY <1>1, <1>5, <2>1
<1>7. AttemptItem(a) \in Items /\ AttemptItem(a) = [what |-> "attempt", job |-> j, n |-> n]
  BY <1>3 DEF AttemptItem, Items
<1> HIDE DEF a, n, first
<1>8. \A b \in Handles : at'[b] = IF b = a THEN s ELSE at[b]
  BY <1>2, <1>6
<1>9. \A k \in Jobs : act'[k] = IF k = j THEN [act[j] EXCEPT !.phase = "started"] ELSE act[k]
  BY <1>1, <1>2
<1>10. QueueInv' /\ queue' \in Seq(Items)
  <2>1. CASE queue' = queue
    BY <1>2, <1>4, <1>8, <2>1, QueueKept
  <2>2. CASE queue' # queue
    <3>1. queue' = Append(queue, AttemptItem(a)) /\ at'[a] = "queued"
      BY <1>1, <1>3, <1>6, <1>8, <2>2
    <3>2. /\ queue' \in Seq(Items) /\ Len(queue') = Len(queue) + 1 /\ Len(queue) \in Nat
          /\ \A k \in 1..Len(queue) : queue'[k] = queue[k]
          /\ queue'[Len(queue) + 1] = AttemptItem(a)
      BY <1>2, <1>7, <3>1
    <3>3. \A k \in 1..Len(queue') : k \in 1..Len(queue) \/ k = Len(queue) + 1
      BY <3>2
    <3>4. \A k \in 1..Len(queue) : queue[k].what = "attempt" =>
             /\ at'[<<queue[k].job, queue[k].n>>] = "queued"
             /\ queue[k] # AttemptItem(a)
      <4> SUFFICES ASSUME NEW k \in 1..Len(queue), queue[k].what = "attempt"
                   PROVE  /\ at'[<<queue[k].job, queue[k].n>>] = "queued"
                          /\ queue[k] # AttemptItem(a)
        OBVIOUS
      <4>1. /\ <<queue[k].job, queue[k].n>> \in Handles /\ at[<<queue[k].job, queue[k].n>>] = "queued"
        BY QueuedHandle DEF QueueInv
      <4>2. <<queue[k].job, queue[k].n>> # a
        BY <1>4, <4>1
      <4>3. a = <<j, n>>
        BY DEF a, n
      <4> QED
        BY <1>7, <1>8, <4>1, <4>2, <4>3
    <3>5. AttemptItem(a).what = "attempt" /\ <<AttemptItem(a).job, AttemptItem(a).n>> = a
      BY <1>7 DEF a, n
    <3> QED
      <4>1. \A k \in 1..Len(queue') : queue'[k].what = "attempt" =>
               at'[<<queue'[k].job, queue'[k].n>>] = "queued"
        BY <3>1, <3>2, <3>3, <3>4, <3>5
      <4>2. ASSUME NEW i \in 1..Len(queue'), NEW k \in 1..Len(queue'), i # k, queue'[i].what = "attempt"
            PROVE  queue'[i] # queue'[k]
        <5>1. CASE i \in 1..Len(queue) /\ k \in 1..Len(queue)
          BY <3>2, <4>2, <5>1 DEF QueueInv
        <5>2. CASE i = Len(queue) + 1 /\ k \in 1..Len(queue)
          <6>1. queue'[i] = AttemptItem(a) /\ queue'[k] = queue[k]
            BY <3>2, <5>2
          <6>2. queue[k].what # "attempt" \/ queue[k] # AttemptItem(a)
            BY <3>4, <5>2
          <6> QED
            BY <3>5, <6>1, <6>2
        <5>3. CASE i \in 1..Len(queue) /\ k = Len(queue) + 1
          <6>1. queue'[k] = AttemptItem(a) /\ queue'[i] = queue[i]
            BY <3>2, <5>3
          <6> QED
            BY <3>4, <4>2, <5>3, <6>1
        <5> QED
          BY <3>3, <4>2, <5>1, <5>2, <5>3
      <4> QED
        BY <3>2, <4>1, <4>2 DEF QueueInv
  <2> QED
    BY <2>1, <2>2
<1>11. SchedType'
  <2>1. act' \in [Jobs -> [n: 0..AttemptCap, outcome: Outcomes, phase: {"idle", "scheduled", "started", "closed"}]]
    BY <1>1, <1>2
  <2>2. at' \in [Handles -> Steps]
    BY <1>2, <1>6
  <2> QED
    BY <1>1, <1>10, <2>1, <2>2 DEF SchedType
<1>12. /\ \A k \in Jobs : act'[k].n = act[k].n /\ act'[k].outcome = act[k].outcome
       /\ \A k \in Jobs : k # j => act'[k] = act[k]
       /\ act'[j].phase = "started"
  BY <1>2, <1>9
<1>13. RecordInv'
  <2>1. \A k \in Jobs : run'[k] = run[k] /\ outlived'[k] = outlived[k]
    BY <1>1
  <2>2. act[j].outcome = "none" /\ run[j] \notin {"new", "announcing"}
    BY <1>1 DEF RecordInv
  <2> QED
    BY <1>1, <1>3, <1>12, <2>1, <2>2 DEF RecordInv, n
<1>14. AttemptInv'
  <2> SUFFICES ASSUME NEW b \in Handles
               PROVE  /\ (Acts(b) => Current(b) \/ b[2] \in outlived[b[1]])'
                      /\ (Later(b) => at[b] = "none")'
    BY DEF AttemptInv
  <2>1. b[1] \in Jobs /\ b[2] \in Nat /\ b = <<b[1], b[2]>> /\ a = <<j, n>> /\ n \in Nat
    BY <1>3, HandleShape DEF Attempts, a, n
  <2>2. CASE b[1] # j
    BY <1>1, <1>8, <1>12, <2>1, <2>2 DEF AttemptInv, Acts, Later, Current
  <2>3. CASE b[1] = j /\ b # a
    BY <1>1, <1>8, <1>12, <2>1, <2>3 DEF AttemptInv, Acts, Later, Current, n
  <2>4. CASE b = a
    BY <1>1, <1>8, <1>12, <2>1, <2>4 DEF Acts, Later, Current, n
  <2> QED
    BY <2>2, <2>3, <2>4
<1>15. StepInv'
  BY <1>1, <1>6, <1>8 DEF StepInv, Allowed, Is, Defect
<1> QED
  BY <1>1, <1>10, <1>11, <1>12, <1>13, <1>14, <1>15

(* Temporal gives the current attempt up. *)
LEMMA TimesOutSched ==
    ASSUME Sched, StepInv, NEW j \in Jobs, TimesOut(j)
    PROVE  Sched' /\ StepInv'
<1> USE DEF Sched
<1> DEFINE r == AfterAttempt(j, Raised)
           n == act[j].n
<1>1. /\ act[j].phase = "started" /\ outlived' = [outlived EXCEPT ![j] = @ \cup {n}]
      /\ act' = [act EXCEPT ![j] = r]
      /\ UNCHANGED <<job, run, at, tries, queue, threads, outside, crashes>>
  BY DEF TimesOut, pool
<1>2. /\ act \in [Jobs -> [n: 0..AttemptCap, outcome: Outcomes, phase: {"idle", "scheduled", "started", "closed"}]]
      /\ outlived \in [Jobs -> SUBSET Attempts]
  BY DEF SchedType
<1>3. n \in Attempts
  BY <1>1 DEF RecordInv
<1>4. /\ r \in [n: Attempts, outcome: Outcomes, phase: {"scheduled", "closed"}]
      /\ r.outcome # "none" => r.phase = "closed"
      /\ \/ r.n = n /\ r.phase = "closed"
         \/ r.n = n + 1 /\ r.phase = "scheduled"
  BY <1>1, AfterShape DEF Raised
<1> HIDE DEF r
<1>5. /\ \A k \in Jobs : act'[k] = IF k = j THEN r ELSE act[k]
      /\ \A k \in Jobs : outlived'[k] = IF k = j THEN outlived[j] \cup {n} ELSE outlived[k]
  BY <1>1, <1>2
<1>6. SchedType'
  <2>1. r \in [n: 0..AttemptCap, outcome: Outcomes, phase: {"idle", "scheduled", "started", "closed"}]
    BY <1>4, PoolAssumption DEF Attempts
  <2>2. act' \in [Jobs -> [n: 0..AttemptCap, outcome: Outcomes, phase: {"idle", "scheduled", "started", "closed"}]]
    BY <1>1, <1>2, <2>1
  <2>3. outlived' \in [Jobs -> SUBSET Attempts]
    BY <1>1, <1>2, <1>3
  <2> QED
    BY <1>1, <2>2, <2>3 DEF SchedType
<1>7. RecordInv'
  <2> SUFFICES ASSUME NEW k \in Jobs
               PROVE  ( /\ act[k].phase # "idle" => act[k].n \in Attempts
                        /\ act[k].outcome # "none" => act[k].phase = "closed"
                        /\ run[k] \in {"new", "announcing"} => act[k].phase = "idle" /\ outlived[k] = {}
                        /\ act[k].phase = "idle" => act[k].n = 0
                        /\ \A m \in outlived[k] : m <= act[k].n /\ (act[k].phase # "closed" => m < act[k].n) )'
    BY DEF RecordInv
  <2>1. CASE k = j
    <3>1. /\ run[j] \notin {"new", "announcing"}
          /\ \A m \in outlived[j] : m < n /\ m \in Nat
      BY <1>1, <1>2 DEF RecordInv, Attempts
    <3>2. n \in Nat
      BY <1>3 DEF Attempts
    <3>3. \A m \in outlived'[j] : m <= r.n /\ (r.phase # "closed" => m < r.n)
      BY <1>4, <1>5, <3>1, <3>2
    <3> QED
      BY <1>1, <1>4, <1>5, <2>1, <3>1, <3>3
  <2>2. CASE k # j
    BY <1>1, <1>5, <2>2 DEF RecordInv
  <2> QED
    BY <2>1, <2>2
<1>8. AttemptInv'
  <2> SUFFICES ASSUME NEW b \in Handles
               PROVE  /\ (Acts(b) => Current(b) \/ b[2] \in outlived[b[1]])'
                      /\ (Later(b) => at[b] = "none")'
    BY DEF AttemptInv
  <2>1. b[1] \in Jobs /\ b[2] \in Nat /\ n \in Nat
    BY <1>3, HandleShape DEF Attempts
  <2>2. CASE b[1] # j
    BY <1>1, <1>5, <2>1, <2>2 DEF AttemptInv, Acts, Later, Current
  <2>3. CASE b[1] = j
    <3>1. Acts(b) => b[2] = n \/ b[2] \in outlived[j]
      BY <2>3 DEF AttemptInv, Current
    <3>2. (Later(b))' => Later(b)
      BY <1>4, <1>5, <2>1, <2>3 DEF Later
    <3> QED
      BY <1>1, <1>5, <2>3, <3>1, <3>2 DEF AttemptInv, Acts
  <2> QED
    BY <2>2, <2>3
<1>9. QueueInv' /\ StepInv'
  BY <1>1, QueueKept DEF StepInv, Allowed, Is, Defect
<1> QED
  BY <1>6, <1>7, <1>8, <1>9

(* The SDK ends an attempt that was given up. *)
LEMMA InterruptSched ==
    ASSUME Sched, StepInv, NEW a \in Handles, Interrupt(a)
    PROVE  Sched' /\ StepInv'
<1> USE DEF Sched
<1>1. /\ at[a] \notin {"none", "queued", "orphan", "ended"} /\ ~ Current(a)
      /\ at \in [Handles -> Steps]
      /\ threads' = threads \ {AttemptItem(a)}
      /\ UNCHANGED <<job, run, act, tries, queue, outlived, outside, crashes>>
  BY DEF Interrupt, Idle, SchedType
<1>2. PICK s \in {"orphan", "ended"} : at' = [at EXCEPT ![a] = s] /\ (s = "orphan" => at[a] = "wait")
  BY <1>1 DEF Interrupt
<1>3. \A b \in Handles : at'[b] = IF b = a THEN s ELSE at[b]
  BY <1>1, <1>2
<1>4. SchedType' /\ RecordInv'
  BY <1>1, <1>2 DEF SchedType, RecordInv, Steps
<1>5. AttemptInv'
  BY <1>1, <1>3 DEF AttemptInv, Acts, Later, Current
<1>6. QueueInv'
  BY <1>1, <1>3, QueueKept
<1>7. StepInv'
  BY <1>1, <1>2, <1>3 DEF StepInv, Allowed, Is, Defect
<1> QED
  BY <1>4, <1>5, <1>6, <1>7

LEMMA CrashSched ==
    ASSUME Sched, StepInv, Crash
    PROVE  Sched' /\ StepInv'
<1> USE DEF Sched
<1>1. /\ crashes < MaxCrashes /\ crashes' = crashes + 1 /\ queue' = <<>> /\ threads' = {}
      /\ at' = [a \in Handles |-> IF at[a] = "none" THEN "none" ELSE "ended"]
      /\ UNCHANGED <<job, run, act, tries, outlived, outside>>
  BY DEF Crash
<1>2. \A b \in Handles : at'[b] = IF at[b] = "none" THEN "none" ELSE "ended"
  BY <1>1
<1>3. SchedType'
  <2>1. at' \in [Handles -> Steps]
    BY <1>1 DEF Steps
  <2>2. crashes' \in 0..MaxCrashes
    BY <1>1, BoundsAssumption DEF SchedType
  <2> QED
    BY <1>1, <2>1, <2>2 DEF SchedType
<1>4. RecordInv' /\ AttemptInv' /\ QueueInv'
  BY <1>1, <1>2 DEF RecordInv, AttemptInv, Acts, Later, Current, QueueInv
<1>5. StepInv'
  BY <1>1, <1>2 DEF StepInv, Allowed
<1> QED
  BY <1>3, <1>4, <1>5

(* A thread takes the head of the queue, which is queued nowhere else.     *)
LEMMA TakeSched ==
    ASSUME Sched, StepInv, Take
    PROVE  Sched' /\ StepInv'
<1> USE DEF Sched
<1> DEFINE i == Head(queue)
           a == <<i.job, i.n>>
           first == First(job[i.job].kind)
<1>1. /\ queue # <<>> /\ queue' = Tail(queue) /\ threads' = threads \cup {i}
      /\ at' = IF i.what = "attempt" THEN [at EXCEPT ![a] = first] ELSE at
      /\ UNCHANGED <<job, run, act, tries, outlived, outside, crashes>>
  BY DEF Take
<1>2. queue \in Seq(Items) /\ at \in [Handles -> Steps] /\ threads \in SUBSET Items
  BY DEF SchedType
<1>3. /\ i \in Items /\ i = queue[1] /\ 1 \in 1..Len(queue) /\ Len(queue) \in Nat
      /\ queue' \in Seq(Items) /\ Len(queue') = Len(queue) - 1
      /\ \A k \in 1..Len(queue') : k + 1 \in 1..Len(queue) /\ queue'[k] = queue[k + 1]
  BY <1>1, <1>2
<1>4. i.what = "attempt" =>
         /\ i.job \in Jobs /\ i.n \in Attempts /\ a \in Handles /\ at[a] = "queued"
         /\ i = AttemptItem(a)
  BY <1>3, QueuedHandle DEF QueueInv
<1>5. i.what = "attempt" =>
         first \in Steps \ {"none", "ended", "queued"} /\ Allowed(a, first)
  <2> SUFFICES ASSUME i.what = "attempt"
               PROVE  first \in Steps \ {"none", "ended", "queued"} /\ Allowed(a, first)
    OBVIOUS
  <2>1. job[i.job].kind \in Kinds /\ a[1] = i.job
    BY <1>4, DefectsOfKinds
  <2> HIDE DEF i, a
  <2>2. \/ job[i.job].kind = "command" /\ first = "spawn"
        \/ job[i.job].kind = "rest" /\ first = "request"
        \/ job[i.job].kind = "transform" /\ first = "fetch"
        \/ job[i.job].kind \in {"sql", "file_transfer"} /\ first = "resolve"
    BY <2>1 DEF Kinds, First
  <2> QED
    BY <2>1, <2>2 DEF Steps, Allowed, Is
<1> HIDE DEF i, a, first
<1>8. \A m, k \in 1..Len(queue') : m # k /\ queue'[m].what = "attempt" => queue'[m] # queue'[k]
  <2> SUFFICES ASSUME NEW m \in 1..Len(queue'), NEW k \in 1..Len(queue'), m # k, queue'[m].what = "attempt"
               PROVE  queue'[m] # queue'[k]
    OBVIOUS
  <2>1. /\ m + 1 \in 1..Len(queue) /\ k + 1 \in 1..Len(queue) /\ m + 1 # k + 1
        /\ queue'[m] = queue[m + 1] /\ queue'[k] = queue[k + 1]
    BY <1>3
  <2> QED
    BY <2>1 DEF QueueInv
<1>6. CASE i.what # "attempt"
  <2>1. at' = at
    BY <1>1, <1>6
  <2>2. QueueInv'
    <3>1. \A k \in 1..Len(queue') : queue'[k].what = "attempt" =>
             at'[<<queue'[k].job, queue'[k].n>>] = "queued"
      BY <1>3, <2>1 DEF QueueInv
    <3> QED
      BY <1>8, <3>1 DEF QueueInv
  <2>3. SchedType' /\ RecordInv' /\ AttemptInv'
    BY <1>1, <1>2, <1>3, <2>1 DEF SchedType, RecordInv, AttemptInv, Acts, Later, Current
  <2> QED
    BY <1>1, <2>1, <2>2, <2>3 DEF StepInv, Allowed, Is, Defect
<1>7. CASE i.what = "attempt"
  <2>1. at' = [at EXCEPT ![a] = first] /\ \A b \in Handles : at'[b] = IF b = a THEN first ELSE at[b]
    BY <1>1, <1>2, <1>7
  <2>2. SchedType' /\ RecordInv'
    BY <1>1, <1>2, <1>3, <1>5, <1>7, <2>1 DEF SchedType, RecordInv
  <2>3. AttemptInv'
    BY <1>1, <1>4, <1>5, <1>7, <2>1 DEF AttemptInv, Acts, Later, Current
  <2>4. QueueInv'
    <3>1. ASSUME NEW k \in 1..Len(queue'), queue'[k].what = "attempt"
          PROVE  at'[<<queue'[k].job, queue'[k].n>>] = "queued"
      <4>1. k + 1 \in 1..Len(queue) /\ queue'[k] = queue[k + 1] /\ k + 1 # 1
        BY <1>3
      <4> DEFINE b == <<queue[k + 1].job, queue[k + 1].n>>
      <4>2. b \in Handles /\ at[b] = "queued" /\ queue[k + 1] = AttemptItem(b) /\ queue[k + 1] # queue[1]
        BY <1>3, <3>1, <4>1, QueuedHandle DEF QueueInv
      <4> HIDE DEF b
      <4>3. b # a
        BY <1>3, <1>4, <1>7, <4>2
      <4>4. at'[b] = "queued"
        BY <2>1, <4>2, <4>3
      <4> QED
        BY <4>1, <4>4 DEF b
    <3> QED
      BY <1>8, <3>1 DEF QueueInv
  <2>5. StepInv'
    BY <1>1, <1>5, <1>7, <2>1 DEF StepInv, Allowed, Is, Defect
  <2> QED
    BY <2>2, <2>3, <2>4, <2>5
<1> QED
  BY <1>6, <1>7

-----------------------------------------------------------------------------
(* What is done outside, and what is recorded of it.                       *)

(* A step of an attempt changes the record only if it is the current one.  *)
LEMMA RecordStep ==
    ASSUME Sched, NEW a \in Handles, Moves(a) \/ Raises(a) \/ Succeeds(a)
    PROVE  /\ UNCHANGED <<job, outlived>>
           /\ \A j \in Jobs :
                \/ act'[j] = act[j]
                \/ /\ j = a[1] /\ act[j].n = a[2] /\ act'[j].outcome \in {"none", "failed"}
                   /\ Is(a, "rest") /\ ~ Defect(a, "none") => act'[j].n = act[j].n
                \/ /\ j = a[1] /\ act'[j].n = a[2] /\ act'[j].outcome = "done" /\ Defect(a, "none")
                   /\ Is(a, "file_transfer") => Wrote(a, TRUE)
                \/ /\ j = a[1] /\ act'[j].n = a[2] /\ act'[j].outcome = "stored" /\ Defect(a, "none")
                   /\ ~ Is(a, "file_transfer") /\ files[ArtifactPath(a)] # 0
                   /\ objects' = [objects EXCEPT ![a] = files[ArtifactPath(a)]]
<1> USE DEF Sched
<1>1. a[1] \in Jobs /\ act \in [Jobs -> [n: 0..AttemptCap, outcome: Outcomes, phase: {"idle", "scheduled", "started", "closed"}]]
  BY HandleShape DEF SchedType
<1>2. CASE Moves(a)
  BY <1>2 DEF Moves, Goes
<1>3. ASSUME NEW how, Ends(a, how)
      PROVE  /\ UNCHANGED <<job, outlived>>
             /\ \A j \in Jobs : \/ act'[j] = act[j]
                               \/ /\ j = a[1] /\ act[j].n = a[2] /\ act[j].phase = "started"
                                  /\ act'[j] = AfterAttempt(j, how)
  <2>1. /\ act' = IF Current(a) THEN [act EXCEPT ![a[1]] = AfterAttempt(a[1], how)] ELSE act
        /\ UNCHANGED <<job, outlived>>
    BY <1>3 DEF Ends
  <2> QED
    BY <1>1, <2>1 DEF Current
<1>4. CASE Raises(a)
  <2>1. PICK how \in {Raised, NonRetryable} :
           Ends(a, how) /\ (Is(a, "rest") /\ ~ Defect(a, "none") => how = NonRetryable)
    BY <1>4 DEF Raises
  <2>2. how \notin {"done", "stored"}
    BY DEF Raised, NonRetryable
  <2>3. ASSUME NEW j \in Jobs, act[j].phase = "started", act'[j] = AfterAttempt(j, how)
        PROVE  act'[j].outcome \in {"none", "failed"} /\ (how = NonRetryable => act'[j].n = act[j].n)
    BY <2>2, <2>3, AfterShape
  <2> QED
    BY <1>3, <2>1, <2>3
<1>5. CASE Succeeds(a)
  <2>1. ASSUME NEW j \in Jobs, NEW how \in {"done", "stored"}, act[j].phase = "started", act'[j] = AfterAttempt(j, how)
        PROVE  act'[j].outcome = how /\ act'[j].n = act[j].n
    BY <2>1, AfterShape
  <2>2. CASE Ends(a, "done") /\ Defect(a, "none") /\ (Is(a, "file_transfer") => Wrote(a, TRUE))
    BY <1>3, <2>1, <2>2
  <2>3. CASE /\ Ends(a, "stored") /\ Is(a, "command") /\ Defect(a, "none")
             /\ files[ArtifactPath(a)] # 0
             /\ objects' = [objects EXCEPT ![a] = files[ArtifactPath(a)]]
    <3>1. ~ Is(a, "file_transfer")
      BY <2>3 DEF Is
    <3> QED
      BY <1>3, <2>1, <2>3, <3>1
  <2> QED
    BY <1>5, <2>2, <2>3 DEF Succeeds
<1> QED
  BY <1>2, <1>4, <1>5

LEMMA WorkTypes ==
    ASSUME SchedType, OutsideType, NEW a \in Handles, Touches(a)
    PROVE  OutsideType'
<1>1. a[1] \in Jobs /\ a[2] \in Attempts /\ a = <<a[1], a[2]>> /\ a[2] \in 0..AttemptCap
  BY HandleShape, PoolAssumption DEF Attempts
<1>2. ArtifactPath(a) \in Places
  BY <1>1, PoolAssumption DEF ArtifactPath, Workdir, Places
<1>3. did' \in [Jobs -> SUBSET Attempts]
  BY <1>1 DEF Touches, Did, OutsideType
<1>4. target' \in [Jobs -> [by: 0..AttemptCap, whole: BOOLEAN]]
  BY <1>1 DEF Touches, Wrote, OutsideType
<1>5. files' \in [Places -> 0..AttemptCap]
  BY <1>1 DEF Touches, OutsideType
<1>6. objects' \in [Handles -> 0..AttemptCap]
  BY <1>1, <1>2 DEF Touches, OutsideType
<1> QED
  BY <1>3, <1>4, <1>5, <1>6 DEF OutsideType

LEMMA WorkInv ==
    ASSUME IInv, NEW a \in Handles, Acting(a), Touches(a), Moves(a) \/ Raises(a) \/ Succeeds(a)
    PROVE  OwnInv' /\ BrokenJobsDoNothing' /\ DestinationHoldsRecorded'
<1> USE DEF IInv, Sched
<1>1. a[1] \in Jobs /\ a[2] \in Attempts /\ a = <<a[1], a[2]>>
  BY HandleShape
<1>2. job' = job /\ outlived' = outlived
  BY RecordStep
<1>3. OwnInv'
  <2> SUFFICES ASSUME NEW b \in Handles, OwnPath(b[1])
               PROVE  /\ files'[b] \in {0, b[2]} /\ objects'[b] \in {0, b[2]}
                      /\ act'[b[1]].outcome = "stored" /\ act'[b[1]].n = b[2] => objects'[b] # 0
    BY <1>2 DEF OwnInv, OwnPath
  <2>1. /\ files[b] \in {0, b[2]} /\ objects[b] \in {0, b[2]}
        /\ act[b[1]].outcome = "stored" /\ act[b[1]].n = b[2] => objects[b] # 0
    BY DEF OwnInv
  <2>2. b[1] \in Jobs /\ b[2] \in Attempts /\ b = <<b[1], b[2]>> /\ b \in Places /\ b[2] # 0
    BY HandleShape DEF Handles, Places, Attempts
  <2>3. ArtifactPath(a) = b => a = b
    BY <1>1, <2>2 DEF ArtifactPath, Workdir
  <2>4. files'[b] \in {0, b[2]}
    BY <2>1, <2>2, <2>3 DEF Touches, OutsideType
  <2>5. objects'[b] \in {0, b[2]} /\ (objects[b] # 0 => objects'[b] # 0)
    <3>1. CASE objects' = objects
      BY <2>1, <3>1
    <3>2. CASE files[ArtifactPath(a)] # 0 /\ objects' = [objects EXCEPT ![a] = files[ArtifactPath(a)]]
      <4>1. a = b => ArtifactPath(a) = b
        BY DEF ArtifactPath, Workdir, OwnPath
      <4> QED
        BY <2>1, <3>2, <4>1 DEF OutsideType
    <3> QED
      BY <3>1, <3>2 DEF Touches
  <2>6. act'[b[1]].outcome = "stored" /\ act'[b[1]].n = b[2] => objects'[b] # 0
    <3> SUFFICES ASSUME act'[b[1]].outcome = "stored", act'[b[1]].n = b[2]
                 PROVE  objects'[b] # 0
      OBVIOUS
    <3>1. CASE act'[b[1]] = act[b[1]]
      BY <2>1, <2>5, <3>1
    <3>2. CASE act'[b[1]] # act[b[1]]
      <4>1. /\ b[1] = a[1] /\ act'[b[1]].n = a[2] /\ files[ArtifactPath(a)] # 0
            /\ objects' = [objects EXCEPT ![a] = files[ArtifactPath(a)]]
        BY <2>2, <3>2, RecordStep
      <4>2. b = a
        BY <1>1, <2>2, <4>1
      <4> QED
        BY <4>1, <4>2 DEF OutsideType
    <3> QED
      BY <3>1, <3>2
  <2> QED
    BY <2>4, <2>5, <2>6
<1>4. BrokenJobsDoNothing'
  <2> SUFFICES ASSUME NEW j \in Jobs, job[j].defect # "none"
               PROVE  /\ did'[j] = {} /\ target'[j].by = 0
                      /\ act'[j].outcome \in {"none", "failed"}
                      /\ job[j].kind = "rest" => act'[j].n <= 1 + Cardinality(outlived[j])
    BY <1>2 DEF BrokenJobsDoNothing
  <2>1. /\ did[j] = {} /\ target[j].by = 0
        /\ act[j].outcome \in {"none", "failed"}
        /\ job[j].kind = "rest" => act[j].n <= 1 + Cardinality(outlived[j])
    BY DEF BrokenJobsDoNothing
  <2>2. j = a[1] => ~ Defect(a, "none")
    BY DEF Defect
  <2>3. did'[j] = {} /\ target'[j].by = 0
    BY <2>1, <2>2 DEF Touches, Did, Wrote, OutsideType
  <2>4. \/ act'[j] = act[j]
        \/ /\ act'[j].outcome \in {"none", "failed"}
           /\ job[j].kind = "rest" => act'[j].n = act[j].n
    BY <2>2, RecordStep DEF Is
  <2> QED
    BY <2>1, <2>3, <2>4
<1>5. DestinationHoldsRecorded'
  <2> SUFFICES ASSUME NEW j \in Jobs, job[j].kind = "file_transfer", act'[j].outcome = "done", outlived[j] = {}
               PROVE  target'[j] = [by |-> act'[j].n, whole |-> TRUE]
    BY <1>2 DEF DestinationHoldsRecorded
  <2>1. CASE act'[j] = act[j]
    <3>1. act[j].phase = "closed" /\ target[j] = [by |-> act[j].n, whole |-> TRUE]
      BY <2>1 DEF RecordInv, DestinationHoldsRecorded
    <3>2. a[1] # j
      BY <3>1 DEF AttemptInv, Acting, Current
    <3> QED
      BY <2>1, <3>1, <3>2 DEF Touches, Wrote, OutsideType
  <2>2. CASE act'[j] # act[j]
    <3>1. j = a[1] /\ act'[j].n = a[2] /\ Wrote(a, TRUE)
      BY <2>2, RecordStep DEF Is
    <3> QED
      BY <3>1 DEF Wrote, OutsideType
  <2> QED
    BY <2>1, <2>2
<1> QED
  BY <1>3, <1>4, <1>5

(* The other steps touch nothing outside, and record no success.           *)
LEMMA RecordOnly ==
    ASSUME IInv, UNCHANGED <<job, outside>>,
           \A j \in Jobs :
              \/ act'[j].n = act[j].n /\ act'[j].outcome = act[j].outcome /\ outlived'[j] = outlived[j]
              \/ /\ act'[j].outcome \in {"none", "failed"}
                 /\ job[j].kind = "rest" /\ job[j].defect # "none" =>
                       act'[j].n <= 1 + Cardinality(outlived'[j])
    PROVE  OutsideType' /\ OwnInv' /\ BrokenJobsDoNothing' /\ DestinationHoldsRecorded'
<1> USE DEF IInv, Sched, outside
<1>1. OutsideType'
  BY DEF OutsideType
<1>2. OwnInv'
  <2> SUFFICES ASSUME NEW b \in Handles, OwnPath(b[1])
               PROVE  /\ files[b] \in {0, b[2]} /\ objects[b] \in {0, b[2]}
                      /\ act'[b[1]].outcome = "stored" /\ act'[b[1]].n = b[2] => objects[b] # 0
    BY DEF OwnInv, OwnPath
  <2>1. b[1] \in Jobs
    BY HandleShape
  <2> QED
    BY <2>1 DEF OwnInv
<1>3. BrokenJobsDoNothing'
  BY DEF BrokenJobsDoNothing
<1>4. DestinationHoldsRecorded'
  BY DEF DestinationHoldsRecorded
<1> QED
  BY <1>1, <1>2, <1>3, <1>4

(* Attempts that were given up are counted. *)
LEMMA OutlivedCount ==
    ASSUME SchedType, RecordInv, NEW j \in Jobs
    PROVE  /\ IsFiniteSet(outlived[j]) /\ Cardinality(outlived[j]) \in Nat
           /\ act[j].phase # "closed" =>
                 Cardinality(outlived[j] \cup {act[j].n}) = Cardinality(outlived[j]) + 1
<1>1. IsFiniteSet(Attempts)
  BY FS_Interval, PoolAssumption DEF Attempts
<1>2. IsFiniteSet(outlived[j])
  BY <1>1, FS_Subset DEF SchedType
<1>3. act[j].phase # "closed" => act[j].n \notin outlived[j]
  <2>1. act[j].n \in Nat
    BY DEF SchedType
  <2> QED
    BY <2>1 DEF RecordInv
<1> QED
  BY <1>2, <1>3, FS_AddElement, FS_CardinalityType

-----------------------------------------------------------------------------
THEOREM StepInvariant == IInv /\ [Next]_vars => IInv'
<1> SUFFICES ASSUME IInv, [Next]_vars PROVE IInv'
  OBVIOUS
<1>s. Sched /\ StepInv /\ SchedType /\ RecordInv
  BY DEF IInv, Sched
<1>1. ASSUME NEW j \in Jobs, Start(j) \/ PublishTimesOut(j) \/ Republish(j) \/ JobReturns(j)
      PROVE  IInv'
  <2>1. Sched' /\ UNCHANGED <<job, act, at, outlived, outside>>
    BY <1>s, <1>1, RunSched
  <2>2. StepInv'
    BY <1>s, <2>1 DEF StepInv, Allowed, Is, Defect
  <2>3. OutsideType' /\ OwnInv' /\ BrokenJobsDoNothing' /\ DestinationHoldsRecorded'
    BY <2>1, RecordOnly
  <2> QED
    BY <2>1, <2>2, <2>3 DEF IInv
<1>2. ASSUME NEW i \in threads, publish_event(i)
      PROVE  IInv'
  <2>1. /\ Sched' /\ UNCHANGED <<job, at, outlived, outside>>
        /\ \A j \in Jobs : \/ act'[j] = act[j]
                          \/ act'[j] = [n |-> 1, phase |-> "scheduled", outcome |-> "none"]
    BY <1>s, <1>2, PublishSched
  <2>2. StepInv'
    BY <1>s, <2>1 DEF StepInv, Allowed, Is, Defect
  <2>3. \A j \in Jobs : outlived'[j] = outlived[j] /\ Cardinality(outlived[j]) \in Nat
    BY <1>s, <2>1, OutlivedCount
  <2>4. OutsideType' /\ OwnInv' /\ BrokenJobsDoNothing' /\ DestinationHoldsRecorded'
    BY <2>1, <2>3, RecordOnly
  <2> QED
    BY <2>1, <2>2, <2>4 DEF IInv
<1>3. ASSUME NEW j \in Jobs, Poll(j)
      PROVE  IInv'
  <2>1. /\ Sched' /\ StepInv' /\ UNCHANGED <<job, outlived, outside>>
        /\ \A k \in Jobs : act'[k].n = act[k].n /\ act'[k].outcome = act[k].outcome
    BY <1>s, <1>3, PollSched
  <2>2. OutsideType' /\ OwnInv' /\ BrokenJobsDoNothing' /\ DestinationHoldsRecorded'
    BY <2>1, RecordOnly
  <2> QED
    BY <2>1, <2>2 DEF IInv
<1>4. ASSUME NEW j \in Jobs, TimesOut(j)
      PROVE  IInv'
  <2>1. Sched' /\ StepInv'
    BY <1>s, <1>4, TimesOutSched
  <2>2. /\ act[j].phase = "started" /\ UNCHANGED <<job, outside>>
        /\ \A k \in Jobs : act'[k] = IF k = j THEN AfterAttempt(j, Raised) ELSE act[k]
        /\ \A k \in Jobs : outlived'[k] = IF k = j THEN outlived[j] \cup {act[j].n} ELSE outlived[k]
    BY <1>s, <1>4 DEF TimesOut, SchedType
  <2>3. /\ act'[j].outcome \in {"none", "failed"}
        /\ act'[j].n = act[j].n \/ act'[j].n = act[j].n + 1
    BY <1>s, <2>2, AfterShape DEF Raised
  <2>4. job[j].kind = "rest" /\ job[j].defect # "none" => act'[j].n <= 1 + Cardinality(outlived'[j])
    <3>1. Cardinality(outlived[j]) \in Nat /\ Cardinality(outlived'[j]) = Cardinality(outlived[j]) + 1
      BY <1>s, <2>2, OutlivedCount
    <3>2. act[j].n \in Nat
      BY <1>s DEF SchedType
    <3>3. job[j].kind = "rest" /\ job[j].defect # "none" => act[j].n <= 1 + Cardinality(outlived[j])
      BY DEF IInv, BrokenJobsDoNothing
    <3> QED
      BY <2>3, <3>1, <3>2, <3>3
  <2>5. OutsideType' /\ OwnInv' /\ BrokenJobsDoNothing' /\ DestinationHoldsRecorded'
    BY <2>2, <2>3, <2>4, RecordOnly
  <2> QED
    BY <2>1, <2>5 DEF IInv
<1>5. ASSUME NEW a \in Handles, AttemptStep(a) \/ ProcessExits(a)
      PROVE  IInv'
  <2>1. Acting(a) /\ Touches(a) /\ (Moves(a) \/ Raises(a) \/ Succeeds(a))
    BY <1>s, <1>5, ActorShape
  <2>2. Sched' /\ StepInv'
    <3>1. CASE Moves(a)
      BY <1>s, <2>1, <3>1, GoesSched
    <3>2. CASE Raises(a) \/ Succeeds(a)
      <4>1. PICK how : Ends(a, how)
        BY <3>2 DEF Raises, Succeeds
      <4> QED
        BY <1>s, <2>1, <4>1, EndsSched
    <3> QED
      BY <2>1, <3>1, <3>2
  <2>3. OutsideType'
    BY <1>s, <2>1, WorkTypes DEF IInv
  <2>4. OwnInv' /\ BrokenJobsDoNothing' /\ DestinationHoldsRecorded'
    BY <2>1, WorkInv
  <2> QED
    BY <2>2, <2>3, <2>4 DEF IInv
<1>6. ASSUME (\E a \in Handles : Interrupt(a)) \/ Take \/ Crash
      PROVE  IInv'
  <2>1. Sched' /\ StepInv'
    BY <1>s, <1>6, InterruptSched, TakeSched, CrashSched
  <2>2. UNCHANGED <<job, act, outlived, outside>>
    BY <1>6 DEF Interrupt, Take, Crash
  <2>3. OutsideType' /\ OwnInv' /\ BrokenJobsDoNothing' /\ DestinationHoldsRecorded'
    BY <2>2, RecordOnly
  <2> QED
    BY <2>1, <2>3 DEF IInv
<1>7. CASE UNCHANGED vars
  <2>1. UNCHANGED <<job, run, act, at, tries, queue, threads, outlived, outside, crashes>>
    BY <1>7 DEF vars, outside
  <2>2. Sched'
    BY <1>s, <2>1 DEF Sched, SchedType, RecordInv, AttemptInv, Acts, Later, Current, QueueInv
  <2>3. StepInv'
    BY <1>s, <2>1 DEF StepInv, Allowed, Is, Defect
  <2>4. OutsideType' /\ OwnInv' /\ BrokenJobsDoNothing' /\ DestinationHoldsRecorded'
    BY <2>1, RecordOnly
  <2> QED
    BY <2>2, <2>3, <2>4 DEF IInv
<1> QED
  BY <1>1, <1>2, <1>3, <1>4, <1>5, <1>6, <1>7 DEF Next

LEMMA Invariant == Spec => []IInv
BY InitInv, StepInvariant, PTL DEF Spec

(* Every variable keeps its type, and no attempt is numbered past the cap  *)
(* on a retry policy's attempts (build_retry_policy).                      *)
THEOREM TypeCorrect == Spec => []TypeOK
<1>1. IInv => TypeOK
  BY DEF IInv, Sched, SchedType, OutsideType, TypeOK
<1> QED
  BY Invariant, <1>1, PTL

(* A job that cannot work changes nothing outside and never succeeds, for  *)
(* any number of attempts given up, crashes and threads (activities.py:    *)
(* _PERMANENT_URL_ERRORS; file_transfer.py: the checks of transfer).       *)
THEOREM BrokenSafe == Spec => []BrokenJobsDoNothing
<1>1. IInv => BrokenJobsDoNothing
  BY DEF IInv
<1> QED
  BY Invariant, <1>1, PTL

(* A recorded artifact that was declared by a relative path, in a          *)
(* directory that is not pinned, is the product of the recorded attempt,   *)
(* whatever the attempts that were given up still do (activities.py:       *)
(* run_command_job; storage.py: upload_artifacts).                         *)
THEOREM ArtifactSafe == Spec => []RecordedArtifactIsOwn
<1>1. IInv => RecordedArtifactIsOwn
  <2> SUFFICES ASSUME IInv, NEW j \in Jobs, act[j].outcome = "stored", OwnPath(j)
               PROVE  objects[<<j, act[j].n>>] = act[j].n
    BY DEF RecordedArtifactIsOwn, ArtifactKey, OwnPath
  <2> DEFINE a == <<j, act[j].n>>
  <2>1. act[j].phase = "closed" /\ act[j].n \in Attempts
    BY DEF IInv, Sched, RecordInv
  <2>2. a \in Handles /\ a[1] = j /\ a[2] = act[j].n
    BY <2>1 DEF Handles
  <2> HIDE DEF a
  <2>3. objects[a] \in {0, a[2]} /\ objects[a] # 0
    BY <2>2 DEF IInv, OwnInv
  <2> QED
    BY <2>2, <2>3 DEF a
<1> QED
  BY Invariant, <1>1, PTL

(* What a successful file transfer with no attempt given up leaves at its  *)
(* destination is complete and the recorded attempt's (file_transfer.py:   *)
(* transfer).                                                              *)
THEOREM DestinationSafe == Spec => []DestinationHoldsRecorded
<1>1. IInv => DestinationHoldsRecorded
  BY DEF IInv
<1> QED
  BY Invariant, <1>1, PTL
=============================================================================
