---------------------------- MODULE JobAttempts ----------------------------
(***************************************************************************)
(* The activities of the worker (activities.py, file_transfer.py,          *)
(* secrets.py, storage.py) as Temporal runs them: several attempts of a    *)
(* job, each under a start-to-close limit that also counts the wait for    *)
(* one of the pool's threads.  Temporal gives an attempt up without        *)
(* stopping it: it may go on and act while the next one runs.  The         *)
(* publications of a run's events are local activities in the same pool.   *)
(*                                                                         *)
(* What a job does outside is kept by attempt number: whose content a file *)
(* or an object holds, and which attempts did their work.  Temporal, the   *)
(* SDK and the outside systems are external.                               *)
(***************************************************************************)
EXTENDS Integers, FiniteSets, Sequences

CONSTANTS
    Jobs,
    Profiles,        \* Profiles[j]: the definitions job j may have
    PoolSize,        \* ThreadPoolExecutor(max_workers=8)
    AttemptCap,      \* bounds max_attempts
    MaxCrashes,      \* crashes of the worker, a bound
    MaxTries         \* tries of one publication, a bound

_DEFAULT_MAX_ATTEMPTS == 3
NoRetry == 0         \* a job that declares no retry

Attempts == 1..AttemptCap
Handles  == Jobs \X Attempts             \* an attempt: <<job, number>>
Places   == Jobs \X (0..AttemptCap)      \* for files; 0: one for all attempts

Kinds   == {"command", "rest", "transform", "file_transfer", "sql"}
Defects == {"none", "secret", "credentials", "key", "uri", "url", "size", "payload"}

(* What can be wrong with a job of each kind, as its activity meets it.     *)
Meets(kind) ==
    CASE kind = "rest"          -> {"url"}
      [] kind = "transform"     -> {"url", "payload"}
      [] kind = "sql"           -> {"secret"}
      [] kind = "file_transfer" -> {"secret", "credentials", "key", "uri", "url", "size"}
      [] OTHER                  -> {}

(* place: a command's working directory (fresh, pinned), or what a file    *)
(* transfer writes to (object: S3 or an artifact; sftp).  path: how a      *)
(* command declares its artifact.                                          *)
Profile ==
    {p \in [kind: Kinds, defect: Defects, retry: 0..AttemptCap,
            place: {"fresh", "pinned", "object", "sftp"},
            path: {"relative", "absolute"}] :
        p.defect = "none" \/ p.defect \in Meets(p.kind)}

ASSUME PoolAssumption == PoolSize \in Nat \ {0} /\ AttemptCap \in Nat /\ AttemptCap >= _DEFAULT_MAX_ATTEMPTS
ASSUME BoundsAssumption == MaxCrashes \in Nat /\ MaxTries \in Nat \ {0}
ASSUME ProfilesAssumption == Profiles \in [Jobs -> SUBSET Profile]

VARIABLES
    job,         \* the definition of each job
    run,         \* where the interpreter's coroutine of the job is
    act,         \* Temporal's record of the activity: attempt, phase, outcome
    at,          \* the step each attempt is in
    tries,       \* the current try of the job's publication
    queue,       \* the executor's queue
    threads,     \* what its threads run
    outlived,    \* attempts that Temporal gave up (history)
    did,         \* attempts whose work happened outside, per job
    target,      \* a file transfer's destination: last writer, complete or not
    files,       \* the product in each place: its writer or 0
    objects,     \* command artifacts, by key: whose product, or 0
    crashes

outside == <<did, target, files, objects>>
pool    == <<queue, threads>>
vars == <<job, run, act, at, tries, queue, threads, outlived, did, target,
          files, objects, crashes>>

-----------------------------------------------------------------------------
Steps == {"none", "queued", "resolve", "read", "write", "writing", "execute",
          "request", "fetch", "parse", "spawn", "wait", "upload", "orphan",
          "ended"}
Idle  == {"none", "queued", "orphan", "ended"}    \* steps without a thread
Outcomes == {"none", "done", "stored", "failed"}  \* stored: with an artifact

AttemptItem(a)  == [what |-> "attempt", job |-> a[1], n |-> a[2]]
EventItem(e, j, k) == [what |-> e, job |-> j, n |-> k]    \* e: where the run waits
Items == [what: {"attempt"}, job: Jobs, n: Attempts]
         \cup [what: {"announcing", "reporting"}, job: Jobs, n: 1..MaxTries]

TypeOK ==
    /\ job \in [Jobs -> Profile]
    /\ run \in [Jobs -> {"new", "announcing", "attempting", "reporting", "closed"}]
    /\ act \in [Jobs -> [n: 0..AttemptCap, outcome: Outcomes,
                         phase: {"idle", "scheduled", "started", "closed"}]]
    /\ at \in [Handles -> Steps]
    /\ tries \in [Jobs -> 1..MaxTries]
    /\ queue \in Seq(Items)
    /\ threads \in SUBSET Items
    /\ outlived \in [Jobs -> SUBSET Attempts]
    /\ did \in [Jobs -> SUBSET Attempts]
    /\ target \in [Jobs -> [by: 0..AttemptCap, whole: BOOLEAN]]
    /\ files \in [Places -> 0..AttemptCap]
    /\ objects \in [Handles -> 0..AttemptCap]
    /\ crashes \in 0..MaxCrashes

Init ==
    /\ job \in {f \in [Jobs -> UNION {Profiles[j] : j \in Jobs}] :
                    \A j \in Jobs : f[j] \in Profiles[j]}
    /\ run = [j \in Jobs |-> "new"]
    /\ act = [j \in Jobs |-> [n |-> 0, phase |-> "idle", outcome |-> "none"]]
    /\ at = [a \in Handles |-> "none"]
    /\ tries = [j \in Jobs |-> 1]
    /\ queue = <<>>
    /\ threads = {}
    /\ outlived = [j \in Jobs |-> {}]
    /\ did = [j \in Jobs |-> {}]
    /\ target = [j \in Jobs |-> [by |-> 0, whole |-> TRUE]]
    /\ files = [p \in Places |-> 0]
    /\ objects = [a \in Handles |-> 0]
    /\ crashes = 0

-----------------------------------------------------------------------------
(* Policies and Temporal's bookkeeping.                                    *)

(* max_attempts taken for retries: *)
RetriesAfterFirst(retry) == 1 + (IF retry = NoRetry THEN _DEFAULT_MAX_ATTEMPTS ELSE retry)

build_retry_policy(retry) == IF retry = NoRetry THEN _DEFAULT_MAX_ATTEMPTS ELSE retry

NonRetryable == "permanent"
Raised       == "raised"

(* What Temporal makes of an attempt that ended so: a result closes the    *)
(* activity, an error is tried again unless it is non-retryable or the     *)
(* policy's attempts are used up.                                          *)
AfterAttempt(j, how) ==
    IF how \in {"done", "stored"}
    THEN [n |-> act[j].n, phase |-> "closed", outcome |-> how]
    ELSE IF how = NonRetryable \/ act[j].n >= build_retry_policy(job[j].retry)
    THEN [n |-> act[j].n, phase |-> "closed", outcome |-> "failed"]
    ELSE [n |-> act[j].n + 1, phase |-> "scheduled", outcome |-> "none"]

Current(a) == act[a[1]].phase = "started" /\ act[a[1]].n = a[2]

(* The activity function returns or raises: its thread is free, and        *)
(* Temporal takes its answer only if it still waits for this attempt.      *)
Ends(a, how) ==
    /\ at' = [at EXCEPT ![a] = "ended"]
    /\ threads' = threads \ {AttemptItem(a)}
    /\ act' = IF Current(a) THEN [act EXCEPT ![a[1]] = AfterAttempt(a[1], how)] ELSE act
    /\ UNCHANGED <<job, run, tries, queue, outlived, crashes>>

Goes(a, step) ==
    /\ at' = [at EXCEPT ![a] = step]
    /\ UNCHANGED <<job, run, act, tries, pool, outlived, crashes>>

Fails(a, how) == Ends(a, how) /\ UNCHANGED outside

Did(a) == did' = [did EXCEPT ![a[1]] = @ \cup {a[2]}]

Defect(a, d) == job[a[1]].defect = d
Is(a, kind)  == job[a[1]].kind = kind

-----------------------------------------------------------------------------
(* The run: an event before the job, the activity, an event after it.      *)

Start(j) ==
    /\ run[j] = "new"
    /\ run' = [run EXCEPT ![j] = "announcing"]
    /\ queue' = Append(queue, EventItem("announcing", j, 1))
    /\ UNCHANGED <<job, act, at, tries, threads, outlived, outside, crashes>>

Publishing(j) == run[j] \in {"announcing", "reporting"}
Awaited(i) == i = EventItem(run[i.job], i.job, tries[i.job])

(* publish_event returns whether or not Redis took the event; the run goes *)
(* on if this is the try it waits for.                                     *)
publish_event(i) ==
    /\ i \in threads /\ i.what # "attempt"
    /\ threads' = threads \ {i}
    /\ \/ /\ Awaited(i) /\ i.what = "announcing"
          /\ run' = [run EXCEPT ![i.job] = "attempting"]
          /\ act' = [act EXCEPT ![i.job] =
                         [n |-> 1, phase |-> "scheduled", outcome |-> "none"]]
       \/ /\ Awaited(i) /\ i.what = "reporting"
          /\ run' = [run EXCEPT ![i.job] = "closed"] /\ UNCHANGED act
       \/ ~ Awaited(i) /\ UNCHANGED <<run, act>>
    /\ UNCHANGED <<job, at, tries, queue, outlived, outside, crashes>>

Waiting(i) == i \in threads \/ \E k \in 1..Len(queue) : queue[k] = i

(* The ten seconds of a publication pass: it is tried again.               *)
PublishTimesOut(j) ==
    /\ Publishing(j)
    /\ tries[j] < MaxTries
    /\ tries' = [tries EXCEPT ![j] = @ + 1]
    /\ queue' = Append(queue, EventItem(run[j], j, tries[j] + 1))
    /\ UNCHANGED <<job, run, act, at, threads, outlived, outside, crashes>>

(* A crash took the publication with it: its workflow task runs again.     *)
Republish(j) ==
    /\ Publishing(j)
    /\ ~ Waiting(EventItem(run[j], j, tries[j]))
    /\ queue' = Append(queue, EventItem(run[j], j, tries[j]))
    /\ UNCHANGED <<job, run, act, at, tries, threads, outlived, outside, crashes>>

JobReturns(j) ==
    /\ run[j] = "attempting" /\ act[j].phase = "closed"
    /\ run' = [run EXCEPT ![j] = "reporting"]
    /\ tries' = [tries EXCEPT ![j] = 1]
    /\ queue' = Append(queue, EventItem("reporting", j, 1))
    /\ UNCHANGED <<job, act, at, threads, outlived, outside, crashes>>

-----------------------------------------------------------------------------
(* Attempts: taken by the worker, given up by Temporal, ended by the SDK.  *)

First(kind) ==
    CASE kind = "command"   -> "spawn"
      [] kind = "rest"      -> "request"
      [] kind = "transform" -> "fetch"
      [] OTHER              -> "resolve"

Async == {"rest", "transform"}      \* coroutines of the worker's loop

Poll(j) ==
    LET a == <<j, act[j].n>> IN
    /\ act[j].phase = "scheduled"
    /\ act' = [act EXCEPT ![j].phase = "started"]
    /\ IF job[j].kind \in Async
       THEN at' = [at EXCEPT ![a] = First(job[j].kind)] /\ UNCHANGED queue
       ELSE at' = [at EXCEPT ![a] = "queued"] /\ queue' = Append(queue, AttemptItem(a))
    /\ UNCHANGED <<job, run, tries, threads, outlived, outside, crashes>>

(* A free thread takes the head of the executor's queue.                   *)
Take ==
    /\ queue # <<>> /\ Cardinality(threads) < PoolSize
    /\ LET i == Head(queue) IN
       /\ threads' = threads \cup {i}
       /\ at' = IF i.what = "attempt"
                THEN [at EXCEPT ![<<i.job, i.n>>] = First(job[i.job].kind)] ELSE at
    /\ queue' = Tail(queue)
    /\ UNCHANGED <<job, run, act, tries, outlived, outside, crashes>>

(* A limit that the wait for a thread does not count against: *)
TimesOutOnThread(j) ==
    /\ act[j].phase = "started" /\ at[<<j, act[j].n>>] # "queued"
    /\ outlived' = [outlived EXCEPT ![j] = @ \cup {act[j].n}]
    /\ act' = [act EXCEPT ![j] = AfterAttempt(j, Raised)]
    /\ UNCHANGED <<job, run, at, tries, pool, outside, crashes>>

(* start_to_close_timeout: from Poll on, in the queue as well.             *)
TimesOut(j) ==
    /\ act[j].phase = "started"
    /\ outlived' = [outlived EXCEPT ![j] = @ \cup {act[j].n}]
    /\ act' = [act EXCEPT ![j] = AfterAttempt(j, Raised)]
    /\ UNCHANGED <<job, run, at, tries, pool, outside, crashes>>

(* The SDK may end an attempt that was given up, at any point; the process *)
(* of a command goes on without it.                                        *)
Interrupt(a) ==
    /\ at[a] \notin Idle /\ ~ Current(a)
    /\ at' = [at EXCEPT ![a] = IF @ = "wait" THEN "orphan" ELSE "ended"]
    /\ threads' = threads \ {AttemptItem(a)}
    /\ UNCHANGED <<job, run, act, tries, queue, outlived, outside, crashes>>

Crash ==
    /\ crashes < MaxCrashes
    /\ crashes' = crashes + 1
    /\ queue' = <<>> /\ threads' = {}
    /\ at' = [a \in Handles |-> IF at[a] = "none" THEN "none" ELSE "ended"]
    /\ UNCHANGED <<job, run, act, tries, outlived, outside>>

-----------------------------------------------------------------------------
(* run_command_job                                                         *)

Workdir(a) == IF job[a[1]].place = "pinned" THEN <<a[1], 0>> ELSE a

(* A relative path is resolved against the working directory; an absolute  *)
(* one leads out of it, a fresh one too, to a file of all attempts.        *)
ArtifactPath(a) == IF job[a[1]].path = "absolute" THEN <<a[1], 0>> ELSE Workdir(a)

_stream_command(a) ==
    /\ at[a] = "spawn"
    /\ Goes(a, "wait") /\ UNCHANGED outside

(* The process ends, and so its output: with or without its product, with  *)
(* status zero or not.  Nothing bounds the time until it does.             *)
ProcessExits(a) ==
    /\ at[a] \in {"wait", "orphan"}
    /\ \/ UNCHANGED files
       \/ files' = [files EXCEPT ![ArtifactPath(a)] = a[2]]
    /\ IF at[a] = "orphan" THEN Goes(a, "ended") /\ UNCHANGED did
       ELSE \/ Ends(a, Raised) /\ UNCHANGED did
            \/ Goes(a, "upload") /\ Did(a)
    /\ UNCHANGED <<target, objects>>

(* One prefix for all attempts of a job: *)
ArtifactKeyOfJob(a) == <<a[1], 1>>

(* Each attempt uploads under a prefix of its own (uuid4).                 *)
ArtifactKey(a) == a

(* A missing file is skipped and a failed upload is swallowed, with what   *)
(* was uploaded before it failed: the job succeeds without the artifact.   *)
upload_artifacts(a) ==
    /\ at[a] = "upload"
    /\ \/ /\ files[ArtifactPath(a)] # 0
          /\ objects' = [objects EXCEPT ![ArtifactKey(a)] = files[ArtifactPath(a)]]
          /\ Ends(a, "stored") \/ Ends(a, "done")
       \/ Ends(a, "done") /\ UNCHANGED objects
    /\ UNCHANGED <<did, target, files>>

run_command_job(a) == _stream_command(a) \/ upload_artifacts(a)

-----------------------------------------------------------------------------
(* run_rest_job and run_transform_job                                      *)

(* The request is not sent, or it is handled and the answer is lost or not *)
(* the expected one, or it is answered.                                    *)
execute_rest(a) ==
    /\ at[a] = "request"
    /\ \/ Defect(a, "url") /\ Fails(a, NonRetryable)
       \/ ~ Defect(a, "url") /\ Fails(a, Raised)
       \/ /\ ~ Defect(a, "url") /\ Did(a)
          /\ Ends(a, Raised) \/ Ends(a, "done")
          /\ UNCHANGED <<target, files, objects>>

(* The payload parses and has the paths of the outputs, or it never will.  *)
extract_path(a) ==
    /\ at[a] = "parse"
    /\ IF Defect(a, "payload") THEN Fails(a, NonRetryable)
       ELSE Did(a) /\ Ends(a, "done") /\ UNCHANGED <<target, files, objects>>

(* Every error of the download is raised as it is, a malformed URL too.    *)
run_transform_job(a) ==
    \/ at[a] = "fetch" /\ Fails(a, Raised)
    \/ /\ at[a] = "fetch" /\ ~ Defect(a, "url")
       /\ Goes(a, "parse") /\ UNCHANGED outside
    \/ extract_path(a)

-----------------------------------------------------------------------------
(* run_sql_job and run_file_transfer_job                                   *)

(* The database of the secrets may be away; credentials that are not JSON  *)
(* raise a plain ValueError outside the try of the activity.               *)
resolve_reference(a) ==
    /\ at[a] = "resolve"
    /\ \/ Defect(a, "secret") /\ Fails(a, NonRetryable)
       \/ Fails(a, Raised)
       \/ /\ ~ Defect(a, "secret") /\ ~ Defect(a, "credentials")
          /\ Goes(a, IF Is(a, "sql") THEN "execute" ELSE "read")
          /\ UNCHANGED outside

(* One transaction: it commits or not, and the answer to the commit may be *)
(* lost.                                                                   *)
run_sql_job(a) ==
    \/ Is(a, "sql") /\ resolve_reference(a)
    \/ at[a] = "execute" /\ Fails(a, Raised)
    \/ /\ at[a] = "execute" /\ Did(a) /\ UNCHANGED <<target, files, objects>>
       /\ Ends(a, Raised) \/ Ends(a, "done")

(* parse_uri and the registries: a scheme that cannot be read or written.  *)
Unsupported(a) == Defect(a, "uri")

(* The size is not checked before the write: *)
TransferReadUnchecked(a) ==
    /\ at[a] = "read"
    /\ \/ Unsupported(a) /\ Fails(a, NonRetryable)
       \/ ~ Unsupported(a) /\ Fails(a, Raised)
       \/ Defect(a, "key") /\ Fails(a, NonRetryable)
       \/ /\ ~ Unsupported(a) /\ ~ Defect(a, "url")
          /\ Defect(a, "key") => job[a[1]].place = "sftp"
          /\ Goes(a, "write") /\ UNCHANGED outside

(* transfer up to the write: both schemes are checked before anything is   *)
(* read, the size after.  The keys of an SFTP server are parsed when it is *)
(* connected to, the destination's thus after the read.                    *)
TransferRead(a) ==
    /\ at[a] = "read"
    /\ \/ Unsupported(a) /\ Fails(a, NonRetryable)
       \/ ~ Unsupported(a) /\ Fails(a, Raised)
       \/ Defect(a, "size") /\ Fails(a, NonRetryable)
       \/ Defect(a, "key") /\ Fails(a, NonRetryable)
       \/ /\ ~ Unsupported(a) /\ ~ Defect(a, "url") /\ ~ Defect(a, "size")
          /\ Defect(a, "key") => job[a[1]].place = "sftp"
          /\ Goes(a, "write") /\ UNCHANGED outside

Wrote(a, whole) == target' = [target EXCEPT ![a[1]] = [by |-> a[2], whole |-> whole]]

(* put_object replaces the object at once.                                 *)
write_object(a) ==
    /\ at[a] = "write" /\ job[a[1]].place # "sftp"
    /\ \/ Fails(a, Raised)
       \/ /\ Wrote(a, TRUE) /\ Did(a) /\ UNCHANGED <<files, objects>>
          /\ Ends(a, Raised) \/ Ends(a, "done")

(* A connection that breaks half-way is taken for the end of the file: *)
write_sftp_swallowing(a) ==
    /\ job[a[1]].place = "sftp"
    /\ \/ at[a] = "write" /\ Defect(a, "key") /\ Fails(a, NonRetryable)
       \/ at[a] = "write" /\ ~ Defect(a, "key") /\ Fails(a, Raised)
       \/ /\ at[a] = "write" /\ ~ Defect(a, "key")
          /\ Wrote(a, FALSE) /\ Goes(a, "writing")
          /\ UNCHANGED <<did, files, objects>>
       \/ at[a] = "writing" /\ Fails(a, "done")
       \/ /\ at[a] = "writing" /\ Wrote(a, TRUE) /\ Did(a) /\ UNCHANGED <<files, objects>>
          /\ Ends(a, "done")

(* A key that does not parse is an error of the definition; putfo          *)
(* truncates the file and then fills it.                                   *)
write_sftp(a) ==
    /\ job[a[1]].place = "sftp"
    /\ \/ at[a] = "write" /\ Defect(a, "key") /\ Fails(a, NonRetryable)
       \/ at[a] = "write" /\ ~ Defect(a, "key") /\ Fails(a, Raised)
       \/ /\ at[a] = "write" /\ ~ Defect(a, "key")
          /\ Wrote(a, FALSE) /\ Goes(a, "writing")
          /\ UNCHANGED <<did, files, objects>>
       \/ at[a] = "writing" /\ Fails(a, Raised)
       \/ /\ at[a] = "writing" /\ Wrote(a, TRUE) /\ Did(a) /\ UNCHANGED <<files, objects>>
          /\ Ends(a, Raised) \/ Ends(a, "done")

run_file_transfer_job(a) ==
    \/ Is(a, "file_transfer") /\ resolve_reference(a)
    \/ TransferRead(a) \/ write_object(a) \/ write_sftp(a)

-----------------------------------------------------------------------------
(* What an attempt does by itself; only a command's process has no limit.  *)
AttemptStep(a) ==
    \/ run_command_job(a) \/ execute_rest(a) \/ run_transform_job(a)
    \/ run_sql_job(a) \/ run_file_transfer_job(a)

Next ==
    \/ \E j \in Jobs : \/ Start(j) \/ PublishTimesOut(j) \/ Republish(j)
                       \/ JobReturns(j) \/ Poll(j) \/ TimesOut(j)
    \/ \E a \in Handles : AttemptStep(a) \/ ProcessExits(a) \/ Interrupt(a)
    \/ \E i \in threads : publish_event(i)
    \/ Take \/ Crash

Spec == Init /\ [][Next]_vars

(* The worker polls and its threads run, Temporal's limits pass, every     *)
(* call of an activity returns; a command's process need not end.          *)
FairSpec ==
    /\ Spec /\ WF_vars(Take)
    /\ \A j \in Jobs : /\ WF_vars(Start(j)) /\ WF_vars(Republish(j))
                       /\ WF_vars(JobReturns(j)) /\ WF_vars(Poll(j))
                       /\ WF_vars(TimesOut(j))
    /\ WF_vars(\E i \in threads : publish_event(i))
    /\ \A a \in Handles : WF_vars(AttemptStep(a))

-----------------------------------------------------------------------------
(* A job whose definition cannot work changes nothing outside, whichever   *)
(* attempts fail, outlive their limit or are lost, and never succeeds; a   *)
(* rest job with a malformed URL takes no second attempt but for one that  *)
(* was given up (activities.py: _PERMANENT_URL_ERRORS, transfer's checks). *)
BrokenJobsDoNothing ==
    \A j \in Jobs : job[j].defect # "none" =>
        /\ did[j] = {} /\ target[j].by = 0
        /\ act[j].outcome \in {"none", "failed"}
        /\ job[j].kind = "rest" => act[j].n <= 1 + Cardinality(outlived[j])

(* The artifact a command's result refers to is the product of the very    *)
(* attempt that was recorded, although attempts that were given up still   *)
(* write and upload (upload_artifacts, the uuid4 prefix, mkdtemp) - if it  *)
(* was declared by a path relative to a directory that is not pinned.      *)
RecordedArtifactIsOwn ==
    \A j \in Jobs :
        (act[j].outcome = "stored" /\ job[j].place = "fresh" /\ job[j].path = "relative")
            => objects[ArtifactKey(<<j, act[j].n>>)] = act[j].n

(* Once a file transfer has succeeded, the destination holds, complete,    *)
(* what the recorded attempt wrote - as long as none was given up, however *)
(* many failed half-way before it (transfer).                              *)
DestinationHoldsRecorded ==
    \A j \in Jobs :
        (job[j].kind = "file_transfer" /\ act[j].outcome = "done" /\ outlived[j] = {})
            => target[j] = [by |-> act[j].n, whole |-> TRUE]

(* An activity that was scheduled closes, though commands hang in every    *)
(* thread and attempts never leave the queue (start_to_close_timeout,      *)
(* build_retry_policy).                                                    *)
ScheduledJobsClose ==
    \A j \in Jobs : run[j] = "attempting" ~> act[j].phase = "closed"

(* workflow.py, "Event publishing is best-effort: short timeout, no retry, *)
(* never blocks progress": a run that announces a job gets past it.        *)
EventsNeverBlock ==
    \A j \in Jobs : run[j] = "announcing" ~> run[j] # "announcing"

(* USER-GUIDE.md, "permanent errors (invalid URL, missing secret) fail on  *)
(* the first attempt".                                                     *)
InvalidUrlsFailFast ==
    \A j \in Jobs : job[j].defect = "url" => act[j].n <= 1 + Cardinality(outlived[j])
=============================================================================
