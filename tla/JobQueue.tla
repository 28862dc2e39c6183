------------------------------ MODULE JobQueue ------------------------------
(***************************************************************************)
(* The durable job queue of layer1_orchestration/execution: JobQueue,      *)
(* JobStore (as a map of whole records; its file protocol is a module of   *)
(* its own), BaseWorker, CheckpointManager.save_checkpoint and             *)
(* ResultValidator.validate, used by several processes at once.            *)
(*                                                                         *)
(* Every call works on the record object its caller holds and ends in      *)
(* store.save, which replaces the stored record whatever it has become     *)
(* since the copy was loaded.  So each process has a copy copy[p] of the   *)
(* record of job[p] and a program counter, and an action is what a process *)
(* does from one access of the store to the next.                          *)
(*                                                                         *)
(* Timestamps are kept as what is left of them: lease is the number of     *)
(* ticks before is_lease_expired answers true (NoLease for None), wait the *)
(* number of ticks before scheduled_after is reached.                      *)
(***************************************************************************)
EXTENDS JobLifecycle, Integers, FiniteSets

CONSTANTS
  Jobs,                 \* job ids
  Submitters,           \* processes that call enqueue
  Operators,            \* processes that work on queued jobs: workers,
                        \* recovery, retry, cancellation, validation
  CheckpointingWorkers, \* operators whose worker class overrides _checkpoint
                        \* (ScrapingWorker, MiningWorker, SecurityWorker)
  KeyOf,                \* KeyOf[j]: contract.idempotency_key, or NoKey
  NoKey,                \* the empty idempotency key
  Referenced,           \* jobs whose contract has an authorization_reference
  Authorized,           \* those of them whose contract has a tenant_id too
  NoJob, NoWorker,      \* "no job in hand", assigned_worker_id = ""
  MaxRetries,           \* contract.max_retries
  HalfDelay,            \* contract.retry_delay_seconds, in half delays
  LeaseTicks,           \* default_lease_seconds
  MaxCrashes            \* bound: processes that die in the middle of a call

Procs == Submitters \cup Operators

NoLease == -1

\* retry_delay_seconds * 2^(retry_count - 1), counted in ticks of half a
\* delay so that the retry_count of 0 that recovery leaves gives a whole tick.
BackoffDelay(n) == HalfDelay * 2^n

ASSUME ConstantsOK ==
  /\ NoJob \notin Jobs /\ NoWorker \notin Operators
  /\ CheckpointingWorkers \subseteq Operators /\ Authorized \subseteq Referenced
  /\ MaxRetries \in Nat /\ LeaseTicks \in Nat /\ MaxCrashes \in Nat
  /\ \A n \in 0..MaxRetries : BackoffDelay(n) \in Nat

VARIABLES
  store,    \* store[j]: the record in <job_id>.json; state ABSENT if no file
  copy,     \* copy[p]: the record object p holds
  job,      \* job[p]: the job of that record, NoJob between calls
  pc,       \* pc[p]: the store access p comes to next
  crashes   \* how many processes have died so far

vars == <<store, copy, job, pc, crashes>>

Absent == "ABSENT"

\* What is left of scheduled_after: no retry waits longer than the last one.
Waits == UNION {0..BackoffDelay(n) : n \in 0..MaxRetries}

\* What the checks of ResultValidator tell apart in a completion_result: they
\* find nothing; a flaw that _classify_failure ranks above a duplicate (a key
\* of the contract or the evidence is missing); one it ranks below (no
\* summary, no confidence, another tenant).
Results == {"good", "flawed", "doubtful"}

\* validation_decision OTHER stands for the verdicts that leave the job in
\* COMPLETED (CONTRACT_MISMATCH, EVIDENCE_INSUFFICIENT, REQUIRES_REVIEW...).
Record == [
  state    : JobState \cup {Absent},
  worker   : Operators \cup {NoWorker},
  lease    : Nat \cup {NoLease},
  wait     : Waits,
  retry    : Nat,
  result   : {"none"} \cup Results,
  decision : {"none", "ACCEPTED", "REJECTED", "OTHER"} ]

NoRecord == [state |-> Absent, worker |-> NoWorker, lease |-> NoLease,
             wait |-> 0, retry |-> 0, result |-> "none", decision |-> "none"]

\* JobRecord(contract=...): what a submitter hands to enqueue.
NewRecord == [NoRecord EXCEPT !.state = "CREATED"]

\* Where a process is: inside enqueue, inside claim_and_execute, inside one
\* iteration of recover_abandoned_jobs, inside validate, or holding a record
\* it loaded to make one of the calls that take a record.
PC == {"idle", "save_created", "save_queued",
       "claimed", "assigned", "running", "result",
       "recover_fail", "recover_retry", "held", "val_fresh", "val_dup"}

TypeOK ==
  /\ store \in [Jobs -> Record]
  /\ copy \in [Procs -> Record]
  /\ job \in [Procs -> Jobs \cup {NoJob}]
  /\ pc \in [Procs -> PC]
  /\ crashes \in 0..MaxCrashes
  /\ \A p \in Procs : pc[p] # "idle" => job[p] \in Jobs

Init ==
  /\ store = [j \in Jobs |-> NoRecord]
  /\ copy = [p \in Procs |-> NoRecord]
  /\ job = [p \in Procs |-> NoJob]
  /\ pc = [p \in Procs |-> "idle"]
  /\ crashes = 0

-----------------------------------------------------------------------------
\* The ways a process moves between store accesses.

\* p starts a call on job j with the record r in hand.
Begin(p, j, r, next) ==
  /\ pc[p] = "idle"
  /\ job' = [job EXCEPT ![p] = j]
  /\ copy' = [copy EXCEPT ![p] = r]
  /\ pc' = [pc EXCEPT ![p] = next]
  /\ UNCHANGED <<store, crashes>>

\* store.save(record): r replaces whatever is stored for p's job; the call
\* goes on with r in hand.
SaveAndGo(p, r, next) ==
  /\ store' = [store EXCEPT ![job[p]] = r]
  /\ copy' = [copy EXCEPT ![p] = r]
  /\ pc' = [pc EXCEPT ![p] = next]
  /\ UNCHANGED <<job, crashes>>

Forget(p) ==
  /\ pc' = [pc EXCEPT ![p] = "idle"]
  /\ job' = [job EXCEPT ![p] = NoJob]
  /\ copy' = [copy EXCEPT ![p] = NoRecord]

\* store.save(record), and the call returns.
SaveAndReturn(p, r) ==
  /\ store' = [store EXCEPT ![job[p]] = r]
  /\ Forget(p)
  /\ UNCHANGED crashes

\* transition(record, t) does not raise, and gives r that state.
Moved(r, t) == [r EXCEPT !.state = t]

-----------------------------------------------------------------------------
\* JobQueue.enqueue, called by a submitter with a new record.

\* store.find_by_idempotency_key finds nothing.  (When it finds a record,
\* enqueue returns it and nothing changes.)
EnqueueFind(p, j) ==
  /\ store[j].state = Absent
  /\ \A q \in Procs : job[q] # j
  /\ KeyOf[j] # NoKey =>
       \A k \in Jobs : store[k].state # Absent => KeyOf[k] # KeyOf[j]
  /\ Begin(p, j, NewRecord, "save_created")

\* Wrong variant: enqueue returns once the record is on disk.
EnqueueSaveOnly(p) ==
  /\ pc[p] = "save_created"
  /\ SaveAndReturn(p, copy[p])

EnqueueSaveCreated(p) ==
  /\ pc[p] = "save_created"
  /\ SaveAndGo(p, copy[p], "save_queued")

\* CREATED to AUTHORIZED to QUEUED in memory, then one save.
EnqueueSaveQueued(p) ==
  /\ pc[p] = "save_queued"
  /\ Accepts(copy[p].state, "AUTHORIZED") /\ Accepts("AUTHORIZED", "QUEUED")
  /\ SaveAndReturn(p, Moved(copy[p], "QUEUED"))

-----------------------------------------------------------------------------
\* BaseWorker.claim_and_execute, called by an operator.

\* get_next_queued() with no tenant: some QUEUED job whose backoff is over
\* (the scan of the sorted job ids reads one file at a time, so any such job
\* may be the first it meets).
GetNextQueued(p, j) ==
  /\ store[j].state = "QUEUED"
  /\ store[j].wait = 0
  /\ Begin(p, j, store[j], "claimed")

Assign(p) ==
  /\ pc[p] = "claimed"
  /\ copy[p].state = "QUEUED" /\ Accepts("QUEUED", "ASSIGNED")
  /\ SaveAndGo(p, [copy[p] EXCEPT !.state = "ASSIGNED", !.worker = p,
                                  !.lease = LeaseTicks + 1], "assigned")

\* mark_failed(record, worker_id, terminal): the owner stays in the record.
MarkedFailed(r, terminal) ==
  [r EXCEPT !.state = IF terminal THEN "FAILED_TERMINAL" ELSE "FAILED_RETRYABLE",
            !.lease = NoLease,
            !.retry = IF terminal THEN @ ELSE @ + 1]

\* _verify_authorization answers false: a reference or the tenant is missing.
RefuseUnauthorized(p) ==
  /\ pc[p] = "assigned"
  /\ job[p] \notin Authorized
  /\ Accepts(copy[p].state, "FAILED_TERMINAL")
  /\ SaveAndReturn(p, MarkedFailed(copy[p], TRUE))

StartExecution(p) ==
  /\ pc[p] = "assigned"
  /\ job[p] \in Authorized
  /\ copy[p].state = "ASSIGNED" /\ copy[p].worker = p
  /\ Accepts("ASSIGNED", "RUNNING")
  /\ SaveAndGo(p, Moved(copy[p], "RUNNING"), "running")

\* Wrong variant: the renewed lease is not saved.
RenewLeaseUnsaved(p) ==
  /\ pc[p] \in {"running", "held"}
  /\ copy[p].worker = p
  /\ copy' = [copy EXCEPT ![p].lease = LeaseTicks + 1]
  /\ UNCHANGED <<store, job, pc, crashes>>

\* queue.renew_lease, from within _do_work or with a record loaded before; the
\* state of the job is not looked at.
RenewLease(p) ==
  /\ pc[p] \in {"running", "held"}
  /\ copy[p].worker = p
  /\ SaveAndGo(p, [copy[p] EXCEPT !.lease = LeaseTicks + 1], pc[p])

\* CheckpointManager.save_checkpoint after a subtask of a real worker.
SaveCheckpoint(p) ==
  /\ pc[p] = "running"
  /\ p \in CheckpointingWorkers
  /\ SaveAndGo(p, Moved(copy[p], "CHECKPOINTED"), "running")

\* _do_work returns.  BaseWorker._checkpoint saves the record; the override
\* of the real workers takes one argument more than the call passes, so for
\* them the call raises and the work counts as failed (WorkFails).
WorkReturns(p) ==
  /\ pc[p] = "running"
  /\ p \notin CheckpointingWorkers
  /\ SaveAndGo(p, copy[p], "result")

\* An exception from _execute_with_checkpoints.
WorkFails(p) ==
  /\ pc[p] = "running"
  /\ Accepts(copy[p].state, "FAILED_RETRYABLE")
  /\ SaveAndReturn(p, MarkedFailed(copy[p], FALSE))

\* complete_execution: neither the worker id nor the lease is looked at.
CompleteExecution(p) ==
  /\ pc[p] = "result"
  /\ copy[p].state = "RUNNING" /\ Accepts("RUNNING", "COMPLETED")
  /\ \E res \in Results :
       SaveAndReturn(p, [copy[p] EXCEPT !.state = "COMPLETED",
                                        !.lease = NoLease, !.result = res])

-----------------------------------------------------------------------------
\* JobQueue.recover_abandoned_jobs, one iteration of its loop at a time.

Expired(r) == r.lease = 0

\* Wrong variant: only RUNNING jobs are recovered.
RecoverLoadRunning(p, j) ==
  /\ store[j].state = "RUNNING"
  /\ Expired(store[j])
  /\ Begin(p, j, store[j], "recover_fail")

RecoverLoad(p, j) ==
  /\ store[j].state \in {"RUNNING", "ASSIGNED"}
  /\ Expired(store[j])
  /\ Begin(p, j, store[j], "recover_fail")

RecoverFail(p) ==
  /\ pc[p] = "recover_fail"
  /\ Accepts(copy[p].state, "FAILED_RETRYABLE")
  /\ SaveAndGo(p, [copy[p] EXCEPT !.state = "FAILED_RETRYABLE",
                                  !.lease = NoLease, !.worker = NoWorker],
               "recover_retry")

\* Wrong variants: the delay doubles once too often; one retry too many.
RetriedTooLate(r) ==
  IF r.retry > MaxRetries
  THEN Moved(r, "FAILED_TERMINAL")
  ELSE [r EXCEPT !.state = "QUEUED", !.lease = NoLease,
                 !.wait = BackoffDelay(r.retry + 1)]
RetriedOnceMore(r) ==
  IF r.retry > MaxRetries + 1
  THEN Moved(r, "FAILED_TERMINAL")
  ELSE [r EXCEPT !.state = "QUEUED", !.lease = NoLease, !.wait = HalfDelay]

\* schedule_retry(record): what is saved, for a FAILED_RETRYABLE record.
Retried(r) ==
  IF r.retry > MaxRetries
  THEN Moved(r, "FAILED_TERMINAL")
  ELSE [r EXCEPT !.state = "QUEUED", !.lease = NoLease,
                 !.wait = BackoffDelay(r.retry)]

\* Wrong variant: a rejected result is retried past the lifecycle manager.
ScheduleRetryRejected(p, from) ==
  /\ pc[p] = from
  /\ copy[p].state \in {"FAILED_RETRYABLE", "RESULT_REJECTED"}
  /\ SaveAndReturn(p, Retried(copy[p]))

\* FAILED_RETRYABLE to FAILED_TERMINAL, or to RETRY_PENDING and QUEUED.  From
\* RETRY_PENDING and RESULT_REJECTED the transitions raise.
ScheduleRetry(p, from) ==
  /\ pc[p] = from
  /\ copy[p].state = "FAILED_RETRYABLE"
  /\ Accepts("FAILED_RETRYABLE", "FAILED_TERMINAL")
  /\ Accepts("FAILED_RETRYABLE", "RETRY_PENDING")
  /\ Accepts("RETRY_PENDING", "QUEUED")
  /\ SaveAndReturn(p, Retried(copy[p]))

RecoverRetry(p) == ScheduleRetry(p, "recover_retry")

-----------------------------------------------------------------------------
\* The calls that take a record the caller loaded before.

Load(p, j) ==
  /\ store[j].state # Absent
  /\ Begin(p, j, store[j], "held")

RetryHeld(p) == ScheduleRetry(p, "held")

\* Wrong variants: the refused request still clears the lease; the state is
\* written without asking the lifecycle manager.
CancelClearsLease(p) ==
  /\ pc[p] = "held"
  /\ LET t == CancelTarget(copy[p].state)
     IN  SaveAndReturn(p, [copy[p] EXCEPT
           !.state = IF Accepts(copy[p].state, t) THEN t ELSE @,
           !.lease = NoLease])
CancelAnything(p) ==
  /\ pc[p] = "held"
  /\ SaveAndReturn(p, [copy[p] EXCEPT !.state = "CANCELLED", !.lease = NoLease])

\* JobQueue.cancel.  CANCEL_REQUESTED is never accepted, so the call raises
\* before it changes anything unless the target is CANCELLED.
Cancel(p) ==
  /\ pc[p] = "held"
  /\ Accepts(copy[p].state, CancelTarget(copy[p].state))
  /\ SaveAndReturn(p, [copy[p] EXCEPT !.state = CancelTarget(@),
                                      !.lease = NoLease])

\* CheckpointManager.resume_from_checkpoint: the lease stays as it is, and the
\* caller is left with a RUNNING record that no call executes.
ResumeFromCheckpoint(p) ==
  /\ pc[p] = "held"
  /\ copy[p].state = "CHECKPOINTED" /\ Accepts("CHECKPOINTED", "RUNNING")
  /\ SaveAndReturn(p, Moved(copy[p], "RUNNING"))

\* BaseWorker.execute_specific_job: no authorization check.
ExecuteSpecificJob(p) ==
  /\ pc[p] = "held"
  /\ copy[p].state = "ASSIGNED" /\ copy[p].worker = p
  /\ Accepts("ASSIGNED", "RUNNING")
  /\ SaveAndGo(p, Moved(copy[p], "RUNNING"), "running")

\* ResultValidator.validate up to _check_duplicate, which loads the job again.
ValidateCheck(p) ==
  /\ pc[p] = "held"
  /\ copy[p].state = "COMPLETED" /\ copy[p].result # "none"
  /\ pc' = [pc EXCEPT ![p] = IF store[job[p]].decision = "ACCEPTED"
                             THEN "val_dup" ELSE "val_fresh"]
  /\ UNCHANGED <<store, copy, job, crashes>>

\* Wrong variant: the flaws of the result are not looked at.
VerdictUnchecked(j, r, dup) ==
  IF dup THEN "REJECTED" ELSE IF j \in Referenced THEN "ACCEPTED" ELSE "OTHER"

\* The checks and _classify_failure, which ranks the failures they found (a
\* missing authorization_reference ranks below a duplicate).  A contract
\* without a tenant passes: _check_authorization asks for the reference only,
\* and the empty tenant equals the one the result does not name.
Verdict(j, r, dup) ==
  IF r.result = "flawed" THEN "OTHER"
  ELSE IF dup THEN "REJECTED"
  ELSE IF r.result = "doubtful" \/ j \notin Referenced THEN "OTHER"
  ELSE "ACCEPTED"

ValidateSave(p) ==
  /\ pc[p] \in {"val_fresh", "val_dup"}
  /\ LET verdict == Verdict(job[p], copy[p], pc[p] = "val_dup")
     IN  /\ verdict = "REJECTED" => Accepts(copy[p].state, "RESULT_REJECTED")
         /\ SaveAndReturn(p, [copy[p] EXCEPT
              !.decision = verdict,
              !.state = IF verdict = "REJECTED" THEN "RESULT_REJECTED" ELSE @])

\* The caller only read the record, or its call raised LifecycleError or
\* QueueError, or returned without a save.
Drop(p) ==
  /\ pc[p] = "held"
  /\ Forget(p)
  /\ UNCHANGED <<store, crashes>>

-----------------------------------------------------------------------------
\* The environment.

\* A process dies inside a call; what it held in memory is lost.
Crash(p) ==
  /\ pc[p] # "idle"
  /\ crashes < MaxCrashes
  /\ crashes' = crashes + 1
  /\ Forget(p)
  /\ UNCHANGED store

Aged(r) == [r EXCEPT !.lease = IF @ > 0 THEN @ - 1 ELSE @,
                     !.wait = IF @ > 0 THEN @ - 1 ELSE @]

\* Time passes for every timestamp alike.
Tick ==
  /\ store' = [j \in Jobs |-> Aged(store[j])]
  /\ copy' = [p \in Procs |-> Aged(copy[p])]
  /\ UNCHANGED <<job, pc, crashes>>

-----------------------------------------------------------------------------
SubmitterStep(p) ==
  \/ EnqueueSaveCreated(p)
  \/ EnqueueSaveQueued(p)

WorkerStep(p) ==
  \/ Assign(p)
  \/ RefuseUnauthorized(p)
  \/ StartExecution(p)
  \/ WorkReturns(p)
  \/ WorkFails(p)
  \/ CompleteExecution(p)

RecoveryStep(p) ==
  \/ RecoverFail(p)
  \/ RecoverRetry(p)

HeldStep(p) ==
  \/ RetryHeld(p)
  \/ Cancel(p)
  \/ ResumeFromCheckpoint(p)
  \/ ExecuteSpecificJob(p)
  \/ ValidateCheck(p)
  \/ ValidateSave(p)
  \/ Drop(p)

Next ==
  \/ \E p \in Submitters :
       \/ \E j \in Jobs : EnqueueFind(p, j)
       \/ SubmitterStep(p)
  \/ \E p \in Operators :
       \/ \E j \in Jobs : GetNextQueued(p, j) \/ RecoverLoad(p, j) \/ Load(p, j)
       \/ WorkerStep(p)
       \/ RenewLease(p)
       \/ SaveCheckpoint(p)
       \/ RecoveryStep(p)
       \/ HeldStep(p)
  \/ \E p \in Procs : Crash(p)
  \/ Tick

Spec == Init /\ [][Next]_vars

\* Fairness: time passes; a process that is inside a call goes on with it
\* (_do_work ends one way or the other); and an operator that keeps calling
\* recover_abandoned_jobs meets every abandoned job again and again.
Fairness ==
  /\ WF_vars(Tick)
  /\ \A p \in Submitters : WF_vars(SubmitterStep(p))
  /\ \A p \in Operators :
       /\ WF_vars(WorkerStep(p))
       /\ WF_vars(RecoveryStep(p))
       /\ WF_vars(HeldStep(p))
       /\ \A j \in Jobs : SF_vars(RecoverLoad(p, j))

FairSpec == Spec /\ Fairness

-----------------------------------------------------------------------------
(***************************************************************************)
(* What holds however many operators race on the store.                    *)
(***************************************************************************)

Executing(r) == r.state \in {"ASSIGNED", "RUNNING", "CHECKPOINTED"}

\* A stored job that some worker has taken carries an owner and a lease, even
\* after stale copies were saved over it.  is_lease_expired answers false for
\* a record without a lease, so a taken job without one would never be found
\* by recover_abandoned_jobs.
LeaseCoversExecution ==
  \A j \in Jobs : Executing(store[j]) =>
    store[j].worker \in Operators /\ store[j].lease # NoLease

\* No attempt is started beyond max_retries: a job that is queued or taken
\* has failed at most max_retries times by its own count (mark_failed counts,
\* schedule_retry compares with >).
RetriesBounded ==
  \A j \in Jobs : store[j].state = "QUEUED" \/ Executing(store[j]) =>
    store[j].retry <= MaxRetries

\* An ACCEPTED verdict in the store stands on a completed job with a sound
\* result whose contract carries an authorization reference, whatever was saved
\* over it in between ("Only ACCEPTED results may advance the finding chain",
\* result_validator.py).  It says nothing of the tenant: execute_specific_job
\* runs a job without one and the validator lets it pass.
AcceptedIsCompleted ==
  \A j \in Jobs : store[j].decision = "ACCEPTED" =>
    store[j].state = "COMPLETED" /\ store[j].result = "good" /\ j \in Referenced

\* The states enqueue and schedule_retry pass through in memory are never
\* what a restart finds on disk, nor is any state that no call requests.
NoHalfTransition ==
  \A j \in Jobs : store[j].state \in
    {Absent, "CREATED", "QUEUED", "ASSIGNED", "RUNNING", "CHECKPOINTED",
     "COMPLETED", "FAILED_RETRYABLE", "FAILED_TERMINAL", "CANCELLED",
     "RESULT_REJECTED"}

(***************************************************************************)
(* What holds when one operator process works on the store, beside any     *)
(* number of submitters, also across crashes.                              *)
(***************************************************************************)

\* The record an operator holds is the stored one, so none of its saves
\* overwrites what it has not seen.  The exception is a record it loaded between
\* the two saves of an enqueue, CREATED or already cancelled: the submitter may
\* have queued the job since.  (The other way round an update can be lost: the
\* second save of enqueue overwrites a cancellation the operator made meanwhile.)
NoStaleCopy ==
  \A p \in Operators : pc[p] # "idle" =>
    copy[p] = store[job[p]] \/ copy[p].state \in {"CREATED", "CANCELLED"}

Submitting(j) ==
  \E p \in Submitters : pc[p] \in {"save_created", "save_queued"} /\ job[p] = j

FinalStep(j) ==
  IsTerminal(store[j].state) =>
    \/ store'[j].state = store[j].state
    \/ store[j].state = "COMPLETED" /\ store'[j].state = "RESULT_REJECTED"

\* Once the enqueue of a job has returned, a terminal state on disk stays, but
\* for the rejection of a completed result ("Terminal states - no further
\* transitions allowed", job_contract.py).  Before that, the second save of
\* enqueue overwrites a cancellation.
SettledIsFinal == [][\A j \in Jobs : ~Submitting(j) => FinalStep(j)]_vars

\* A job is executed by one worker at a time ("Worker assignment with
\* visibility timeout", job_queue.py).
NoDoubleExecution ==
  \A p, q \in Operators :
    pc[p] = "running" /\ pc[q] = "running" /\ job[p] = job[q] => p = q

\* The queue worked on by one operator implements the machine of DurableJobs,
\* a job being there once its submitter is through with it: each save of the
\* operator, however stale the copy it was made from, is a transition, or two,
\* that the lifecycle manager accepts from the stored state.
Durable == INSTANCE DurableJobs
  WITH state <- [j \in Jobs |-> IF Submitting(j) THEN Absent ELSE store[j].state]
ImplementsDurableJobs == Durable!Spec

(***************************************************************************)
(* Submission.                                                             *)
(***************************************************************************)

\* An idempotency key names one job ("Idempotent --- duplicate keys return
\* existing job", JobQueue.enqueue).  True of a lone submitter; two of them
\* both look the key up before either saves.
OneJobPerKey ==
  \A j, k \in Jobs :
    /\ store[j].state # Absent /\ store[k].state # Absent
    /\ KeyOf[j] = KeyOf[k] /\ KeyOf[j] # NoKey
    => j = k

\* A job that was submitted is queued, or its submitter is still at it
\* ("Durable submission with idempotency keys", job_queue.py): whatever others
\* do to the record between the two saves, nothing but the submitter's death
\* strands it.
OnlyCrashStrandsSubmission ==
  crashes = 0 =>
    \A j \in Jobs : store[j].state = "CREATED" => Submitting(j)

(***************************************************************************)
(* Liveness, under FairSpec.                                               *)
(***************************************************************************)

Abandoned(j, states) == store[j].state \in states /\ Expired(store[j])

\* A worker that died, or outlived its lease, does not keep its job: a job in
\* ASSIGNED or RUNNING whose lease has run out leaves that condition.
AbandonedIsRecovered ==
  \A j \in Jobs : Abandoned(j, {"ASSIGNED", "RUNNING"})
                  ~> ~Abandoned(j, {"ASSIGNED", "RUNNING"})

=============================================================================
