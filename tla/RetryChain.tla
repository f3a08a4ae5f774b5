----------------------------- MODULE RetryChain -----------------------------
(***************************************************************************)
(* The retries of a failed ingest of one path: the base ingest jobs of one *)
(* retry key (namespace, collection, path), which POST /ingest submits and *)
(* MaintenanceLoop._run_failed_ingest_retry submits again, the client's    *)
(* cancels, DELETE /collections, restarts, and the age eviction that every *)
(* write of the job store performs.  A maintenance pass reads and changes  *)
(* the store without an await: one step.                                   *)
(***************************************************************************)
EXTENDS Integers, Sequences, FiniteSetsExt

CONSTANTS MaxAttempts,   \* retry_max_attempts
          MaxAge,        \* retry_max_age_hours, in days
          EvictAge,      \* _EVICTION_DAYS
          LastDay, MaxSubmits, MaxFailedWrites,   \* bounds
          MaxBefore      \* bound: the jobs that the key has when it is submitted

VARIABLES jobs,      \* the key's jobs in the order of their creation
          day,       \* the clock
          running,   \* the server is up
          submits, failedWrites,   \* counters for the bounds
          since      \* history since the last submission: its day, the retries made, what forbids another,
                     \* whether an expiring write failed

retryVars == <<jobs, day, running, submits, failedWrites, since>>

PENDING == "PENDING"
RUNNING == "RUNNING"
DONE == "DONE"
FAILED == "FAILED"
CANCELLING == "CANCELLING"
CANCELLED == "CANCELLED"
EXPIRED == "FAILED_EXPIRED"

\* The fields of a job that decide about its retry; known: its ingest_options are stored; chain, a history: the
\* number of the submission it is, or descends from.
Job(source, chain, n, known, status) ==
  [source |-> source, chain |-> chain, n |-> n, known |-> known, status |-> status, asked |-> FALSE, before |-> FALSE,
   died |-> FALSE, created |-> day,
   updated |-> IF status = FAILED THEN day ELSE 0]
\* A jobs file of an earlier version may hold a failed job without options; or an ingest of the path runs.
RetryInit ==
  /\ day = 0 /\ running = TRUE /\ submits = 0 /\ failedWrites = 0
  /\ jobs \in {<<>>, <<Job("user", 0, 0, FALSE, FAILED)>>, <<Job("user", 0, 0, TRUE, RUNNING)>>}
  /\ since = [day |-> 0, retries |-> 0, barred |-> {}, leaked |-> FALSE]

-----------------------------------------------------------------------------
(* The job store. *)
Terminal(j) == j.status \in {DONE, FAILED, EXPIRED, CANCELLED}
Old(j) == Terminal(j) /\ day - j.updated > EvictAge
\* _write_atomic evicts first.
Stored(s) == jobs' = SelectSeq(s, LAMBDA j : ~Old(j))
\* updated_at and cancelled_before_start are kept where they are read: at a terminal job, at a CANCELLING one.
Ended(j, status) == [j EXCEPT !.status = status, !.updated = day, !.before = FALSE]
Put(i, j) == Stored([jobs EXCEPT ![i] = j])
MayFail == failedWrites < MaxFailedWrites
WriteFailed == MayFail /\ failedWrites' = failedWrites + 1
\* The job holds the collection lock from its creation until its claim (POST /ingest).
HoldsLock(j) == j.source = "user" /\ (j.status = PENDING \/ (j.status = CANCELLING /\ j.before))
LockFree == \A i \in DOMAIN jobs : ~HoldsLock(jobs[i])

\* POST /ingest.
Submit ==
  /\ running /\ submits < MaxSubmits /\ Len(jobs) <= MaxBefore /\ LockFree
  /\ submits' = submits + 1
  /\ Stored(Append(jobs, Job("user", submits + 1, 0, TRUE, PENDING)))
  /\ since' = [day |-> day, retries |-> 0, barred |-> {}, leaked |-> FALSE]
  /\ UNCHANGED <<day, running, failedWrites>>
\* The task of a job claims it; a retry takes the collection lock first.
Claim(i) ==
  /\ running /\ jobs[i].status = PENDING /\ (jobs[i].source = "user" \/ LockFree)
  /\ Put(i, [jobs[i] EXCEPT !.status = RUNNING])
  /\ UNCHANGED <<day, running, submits, failedWrites, since>>
\* The claim cannot be written: an ingest failure.
ClaimFails(i) ==
  /\ running /\ jobs[i].status = PENDING /\ (jobs[i].source = "user" \/ LockFree)
  /\ WriteFailed /\ Put(i, Ended(jobs[i], FAILED))
  /\ UNCHANGED <<day, running, submits, since>>
\* The claim of a job cancelled before its start is refused.
ClaimRefused(i) ==
  /\ running /\ jobs[i].status = CANCELLING /\ jobs[i].before
  /\ Put(i, Ended(jobs[i], CANCELLED))
  /\ UNCHANGED <<day, running, submits, failedWrites, since>>
\* The ingest ends; a failed one is FAILED even when its cancel was asked for.
Finish(i) ==
  /\ running /\ (jobs[i].status = RUNNING \/ (jobs[i].status = CANCELLING /\ ~jobs[i].before))
  /\ \/ Put(i, Ended(jobs[i], IF jobs[i].status = RUNNING THEN DONE ELSE CANCELLED))
     \/ Put(i, Ended(jobs[i], FAILED))
  /\ UNCHANGED <<day, running, submits, failedWrites, since>>
Barring(reason) == since' = [since EXCEPT !.barred = @ \cup {reason}]
\* DELETE /jobs/{id}.
Cancel(i) ==
  /\ running /\ jobs[i].status \in {PENDING, RUNNING}
  /\ Put(i, [jobs[i] EXCEPT !.status = CANCELLING, !.asked = TRUE, !.before = (jobs[i].status = PENDING)])
  /\ IF i = Len(jobs) THEN Barring("cancel") ELSE UNCHANGED since
  /\ UNCHANGED <<day, running, submits, failedWrites>>
\* Mutant: only the retries that wait are cancelled.
WaitingOnly == {PENDING}
Candidates == {FAILED, PENDING}
\* DELETE /collections: refused while a job runs; its cancels are written together, or not at all.
Drop ==
  /\ running /\ LockFree /\ \A i \in DOMAIN jobs : jobs[i].status \notin {RUNNING, CANCELLING}
  /\ LET hit(j) == j.status \in Candidates IN
     \/ /\ Stored([i \in DOMAIN jobs |-> IF hit(jobs[i]) THEN Ended(jobs[i], CANCELLED) ELSE jobs[i]])
        /\ Barring("drop") /\ UNCHANGED failedWrites
     \/ /\ \E i \in DOMAIN jobs : hit(jobs[i])
        /\ WriteFailed /\ Stored(jobs) /\ UNCHANGED since
  /\ UNCHANGED <<day, running, submits>>

\* A shutdown cancels the tasks: a running ingest writes CANCELLED, a retry that waits for the lock
\* completes a cancel that was asked for and is PENDING otherwise.
Shutdown ==
  /\ running /\ running' = FALSE
  /\ LET ends(j) == \/ j.status = RUNNING
                    \/ j.status = CANCELLING /\ (~j.before \/ j.source = "maintenance")
     IN Stored([i \in DOMAIN jobs |-> IF ends(jobs[i]) THEN Ended(jobs[i], CANCELLED) ELSE jobs[i]])
  /\ UNCHANGED <<day, submits, failedWrites, since>>
Killed == running /\ running' = FALSE /\ UNCHANGED <<jobs, day, submits, failedWrites, since>>
\* _load: what ran died, what waited never started.
Recovered(j) ==
  CASE j.status = CANCELLING /\ j.before -> Ended(j, CANCELLED)
    [] j.status = RUNNING \/ (j.status = CANCELLING /\ ~j.before) -> [Ended(j, FAILED) EXCEPT !.died = TRUE]
    [] j.status = PENDING -> Ended(j, FAILED)
    [] OTHER -> j
Load ==
  /\ ~running /\ running' = TRUE
  /\ Stored([i \in DOMAIN jobs |-> Recovered(jobs[i])])
  /\ IF jobs # <<>> /\ Recovered(jobs[Len(jobs)]).died /\ jobs[Len(jobs)].status # FAILED
     THEN Barring("death") ELSE UNCHANGED since
  /\ UNCHANGED <<day, submits, failedWrites>>
Tick == day < LastDay /\ day' = day + 1 /\ UNCHANGED <<jobs, running, submits, failedWrites, since>>

-----------------------------------------------------------------------------
(* The maintenance pass. *)
\* Mutant: a client's cancel settles nothing.
SupersedesByStatus(j) == j.status \in {PENDING, RUNNING, DONE, FAILED}
Supersedes(j) == j.status \in {PENDING, RUNNING, DONE, FAILED} \/ j.asked
Lineage == {i \in DOMAIN jobs : Supersedes(jobs[i])}
Latest == Max(Lineage)
Origin == LET requested == {i \in Lineage : jobs[i].source # "maintenance"}
          IN IF requested # {} THEN Max(requested) ELSE Min(Lineage)
AttemptsUsed == Max({0} \cup {jobs[i].n : i \in {k \in DOMAIN jobs : k >= Origin /\ jobs[k].source = "maintenance"}})
Unretriable(j) == ~j.known \/ j.asked \/ j.died
Failed == {i \in DOMAIN jobs : jobs[i].status = FAILED}
LatestFailed == Failed # {} /\ jobs[Latest].status = FAILED
\* The first of the expiring writes evicts the other jobs that are old.
EndChain ==
  \E kept \in SUBSET Failed :
    /\ IF kept = {} THEN UNCHANGED <<failedWrites, since>>
       ELSE WriteFailed /\ since' = [since EXCEPT !.leaked = TRUE]
    /\ Stored([i \in DOMAIN jobs |->
         IF i \in Failed \ kept /\ (~Old(jobs[i]) \/ i = Min(Failed)) THEN Ended(jobs[i], EXPIRED) ELSE jobs[i]])
\* _reenqueue_retry, _start_retry_job: the options no longer validate, or the task starts.
Retry ==
  \/ /\ \E status \in {PENDING, FAILED} :
          Stored(Append(jobs, Job("maintenance", submits, AttemptsUsed + 1, jobs[Latest].known, status)))
     /\ since' = [since EXCEPT !.retries = @ + 1] /\ UNCHANGED failedWrites
  \/ WriteFailed /\ Stored(jobs) /\ UNCHANGED since
Pass ==
  /\ running /\ LatestFailed
  /\ IF Unretriable(jobs[Latest]) \/ day - jobs[Origin].created > MaxAge \/ AttemptsUsed >= MaxAttempts
     THEN EndChain ELSE Retry
  /\ UNCHANGED <<day, running, submits>>

RetryNext ==
  \/ Submit \/ Drop \/ Shutdown \/ Killed \/ Load \/ Tick \/ Pass
  \/ \E i \in DOMAIN jobs : Claim(i) \/ ClaimFails(i) \/ ClaimRefused(i) \/ Finish(i) \/ Cancel(i)
RetrySpec == RetryInit /\ [][RetryNext]_retryVars

-----------------------------------------------------------------------------
JobType ==
  [source : {"user", "maintenance"}, chain : 0..MaxSubmits, n : 0..MaxAttempts, known : BOOLEAN,
   status : {PENDING, RUNNING, DONE, FAILED, CANCELLING, CANCELLED, EXPIRED},
   asked : BOOLEAN, before : BOOLEAN, died : BOOLEAN, created : 0..LastDay, updated : 0..LastDay]
\* The types of the key's jobs; retry_count never exceeds retry_max_attempts.
RetryTypeOK ==
  /\ jobs \in Seq(JobType) /\ day \in 0..LastDay /\ running \in BOOLEAN
  /\ submits \in 0..MaxSubmits /\ failedWrites \in 0..MaxFailedWrites
  /\ since \in [day : 0..LastDay, retries : Nat, barred : SUBSET {"cancel", "drop", "death"},
               leaked : BOOLEAN]

\* A submission is retried at most retry_max_attempts times, whatever ends its retries: failures, shutdowns,
\* kills, evictions, failed expiries.
RetryBound == since.retries <= MaxAttempts
\* One try at a time: a submission and its retries are never under way together, also when a restart, a cancel or
\* an eviction comes between them.
OneTry ==
  \A i, k \in DOMAIN jobs :
    (i < k /\ {jobs[i].status, jobs[k].status} \subseteq {PENDING, RUNNING, CANCELLING})
      => jobs[i].chain # jobs[k].chain
Retried == Len(jobs') > 0 /\ since'.retries = since.retries + 1
\* No retry after the client cancelled the newest job, after the collection was dropped, or after the newest job
\* died with the process, until the next submission.  The last needs every job's move to FAILED_EXPIRED to be
\* written: a FAILED job that stays behind an expired newer one is retried.
EndIsFinal ==
  [][Retried => since.barred \subseteq (IF since.leaked THEN {"death"} ELSE {})]_retryVars
\* No retry of a submission that is older than retry_max_age_hours, though each retry is younger: the origin bounds
\* the whole chain, as long as its job is there (evicted later than that: 2 * MaxAge <= EvictAge) and not alone expired.
RetryInTime == [][Retried /\ ~since.leaked => day - since.day <= MaxAge]_retryVars
=============================================================================
