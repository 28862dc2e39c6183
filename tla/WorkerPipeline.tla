----------------------------- MODULE WorkerPipeline -----------------------------
(*****************************************************************************)
(* One job and the process that works on it: what claim_and_execute of       *)
(* worker_contract.py does with the workers of real_workers.py, subtask by   *)
(* subtask, and how the job comes back after a failure or a crash.           *)
(*                                                                           *)
(* The process claims, executes, recovers, retries and resumes one call at a *)
(* time, and may die between any two saves; what several processes do to     *)
(* each other's records is module JobQueue's.  The record is therefore the   *)
(* one on disk.  Time is kept only as the lease that runs out; a backoff     *)
(* ends before the job is claimed.                                           *)
(*****************************************************************************)
EXTENDS JobLifecycle, Naturals

CONSTANTS
  Subtasks,     \* the length of the pipelines, six in the code
  MaxRetries,   \* JobContract.max_retries
  MaxCrashes    \* bound: deaths of the process

ASSUME PipelineConstants ==
  Subtasks \in Nat \ {0} /\ MaxRetries \in Nat /\ MaxCrashes \in Nat

VARIABLES
  job,          \* the job: its engine, whether it is authorized, whether critical
  state,        \* current_state
  lease,        \* lease_expires_at: "none", "held" or "expired"
  retry,        \* retry_count
  consumed,     \* requests_consumed
  checkpoints,  \* number of checkpoints
  pc,           \* where the process is, "idle" between calls
  step,         \* subtasks completed in this attempt
  calls,        \* calls of the bridge, over all attempts
  alerts,       \* calls of send_critical_alert, over all attempts
  crashes       \* deaths of the process so far

record == <<state, lease, retry, consumed, checkpoints>>
outside == <<calls, alerts>>
vars == <<job, record, pc, step, outside, crashes>>

\* "plain" stands for a subclass of BaseWorker without checkpoints of its own.
Engines == {"plain", "scraping", "mining", "security"}

Places == {"idle", "assigned", "working", "called", "done", "returned",
           "completing", "recovering"}

\* The subtasks after which the worker checkpoints: scraping's last has none.
CheckpointedSubtasks(engine) ==
  CASE engine = "plain"    -> {}
    [] engine = "scraping" -> 1 .. Subtasks - 1
    [] OTHER               -> 1 .. Subtasks

\* The last subtask of scraping only puts the result together.
CallsBridge(engine, k) == engine = "scraping" => k < Subtasks

\* lifecycle.transition raises unless the table lists the move.
MoveTo(target) == Accepts(state, target) /\ state' = target

-----------------------------------------------------------------------------
(* The worker.                                                               *)

\* get_next_queued and assign.
Claim ==
  /\ pc = "idle" /\ state = "QUEUED"
  /\ MoveTo("ASSIGNED") /\ lease' = "held"
  /\ pc' = "assigned"
  /\ UNCHANGED <<job, retry, consumed, checkpoints, step, outside, crashes>>

RefuseUnauthorized ==
  /\ pc = "assigned" /\ ~job.authorized
  /\ MoveTo("FAILED_TERMINAL") /\ lease' = "none"
  /\ pc' = "idle"
  /\ UNCHANGED <<job, retry, consumed, checkpoints, step, outside, crashes>>

\* Every attempt starts at the first subtask: the checkpoints of an earlier
\* one have no context for _do_work to go on from.
StartExecution ==
  /\ pc = "assigned" /\ job.authorized
  /\ MoveTo("RUNNING")
  /\ pc' = "working" /\ step' = 0
  /\ UNCHANGED <<job, lease, retry, consumed, checkpoints, outside, crashes>>

\* _do_work executes the next subtask; save_checkpoint follows if it has one.
Subtask ==
  /\ pc = "working" /\ step < Subtasks
  /\ step' = step + 1
  /\ calls' = IF CallsBridge(job.engine, step + 1) THEN calls + 1 ELSE calls
  /\ pc' = IF step + 1 \in CheckpointedSubtasks(job.engine) THEN "called" ELSE pc
  /\ UNCHANGED <<job, record, alerts, crashes>>

\* Mutant: the consumption of the attempt replaces what was recorded.
CheckpointReplaces ==
  /\ pc = "called"
  /\ consumed' = step
  /\ checkpoints' = checkpoints + 1
  /\ IF state = "RUNNING" THEN MoveTo("CHECKPOINTED") ELSE UNCHANGED state
  /\ pc' = "working"
  /\ UNCHANGED <<job, lease, retry, step, outside, crashes>>

\* save_checkpoint adds what the attempt has consumed so far, each time.
Checkpoint ==
  /\ pc = "called"
  /\ consumed' = consumed + step
  /\ checkpoints' = checkpoints + 1
  /\ IF state = "RUNNING" THEN MoveTo("CHECKPOINTED") ELSE UNCHANGED state
  /\ pc' = "working"
  /\ UNCHANGED <<job, lease, retry, step, outside, crashes>>

\* Security alerts when the risk is critical; a failed alert raises nothing.
Alert ==
  /\ pc = "working" /\ step = Subtasks
  /\ alerts' = IF job.engine = "security" /\ job.critical THEN alerts + 1 ELSE alerts
  /\ pc' = "done"
  /\ UNCHANGED <<job, record, step, calls, crashes>>

\* _do_work returns; security has tried to save its report.
WorkReturns ==
  /\ pc = "done" /\ pc' = "returned"
  /\ UNCHANGED <<job, record, step, outside, crashes>>

\* Mutant: failures are not counted.
MarkFailedUncounted ==
  /\ MoveTo("FAILED_RETRYABLE") /\ lease' = "none"
  /\ pc' = "idle"
  /\ UNCHANGED <<job, retry, consumed, checkpoints, step, alerts, crashes>>

\* mark_failed, not terminal.
MarkFailed ==
  /\ MoveTo("FAILED_RETRYABLE") /\ lease' = "none"
  /\ retry' = retry + 1
  /\ pc' = "idle"
  /\ UNCHANGED <<job, consumed, checkpoints, step, alerts, crashes>>

\* The bridge raises, or the worker was cancelled before it was called.
WorkFails ==
  /\ pc = "working" /\ step < Subtasks
  /\ calls' \in {calls, calls + 1}
  /\ MarkFailed

\* The base class calls self._checkpoint with two arguments; that of the real
\* workers takes three, so the call raises TypeError.
CompletionCheckpointFails ==
  pc = "returned" /\ job.engine # "plain" /\ MarkFailed /\ UNCHANGED calls

\* BaseWorker._checkpoint, with the number of requests the result states.
CompletionCheckpoint ==
  /\ pc = "returned" /\ job.engine = "plain"
  /\ consumed' = Subtasks /\ checkpoints' = checkpoints + 1
  /\ pc' = "completing"
  /\ UNCHANGED <<job, state, lease, retry, step, outside, crashes>>

CompleteExecution ==
  /\ pc = "completing" /\ state = "RUNNING"
  /\ MoveTo("COMPLETED") /\ lease' = "none"
  /\ pc' = "idle"
  /\ UNCHANGED <<job, retry, consumed, checkpoints, step, outside, crashes>>

Worker ==
  \/ Claim \/ RefuseUnauthorized \/ StartExecution \/ Subtask \/ Checkpoint
  \/ Alert \/ WorkReturns \/ CompletionCheckpointFails \/ CompletionCheckpoint
  \/ CompleteExecution

-----------------------------------------------------------------------------
(* Retry, recovery and resumption, between calls of the worker.              *)

\* Mutant: one retry more than the contract allows.
RetriedOnceMore ==
  /\ state' = IF retry > MaxRetries + 1 THEN "FAILED_TERMINAL" ELSE "QUEUED"
  /\ lease' = "none"

\* schedule_retry of a FAILED_RETRYABLE job, through RETRY_PENDING in memory.
Retried ==
  /\ IF retry > MaxRetries
       THEN MoveTo("FAILED_TERMINAL") /\ UNCHANGED lease
       ELSE /\ Accepts(state, "RETRY_PENDING") /\ Accepts("RETRY_PENDING", "QUEUED")
            /\ state' = "QUEUED" /\ lease' = "none"

ScheduleRetry ==
  /\ pc = "idle" /\ state = "FAILED_RETRYABLE"
  /\ Retried
  /\ UNCHANGED <<job, retry, consumed, checkpoints, pc, step, outside, crashes>>

\* recover_abandoned_jobs, up to its first save and from there.
RecoverFail ==
  /\ pc = "idle" /\ state \in {"RUNNING", "ASSIGNED"} /\ lease = "expired"
  /\ MoveTo("FAILED_RETRYABLE") /\ lease' = "none"
  /\ pc' = "recovering"
  /\ UNCHANGED <<job, retry, consumed, checkpoints, step, outside, crashes>>

RecoverRetry ==
  /\ pc = "recovering"
  /\ Retried
  /\ pc' = "idle"
  /\ UNCHANGED <<job, retry, consumed, checkpoints, step, outside, crashes>>

(* resume_from_checkpoint.  Nobody executes the job it makes RUNNING:        *)
(* execute_specific_job wants it ASSIGNED, claim_and_execute QUEUED.  It     *)
(* comes back when its lease has run out, and starts over.                   *)
ResumeFromCheckpoint ==
  /\ pc = "idle" /\ checkpoints > 0 /\ state \in {"CHECKPOINTED", "PAUSED"}
  /\ MoveTo("RUNNING")
  /\ UNCHANGED <<job, lease, retry, consumed, checkpoints, pc, step, outside, crashes>>

Operator == ScheduleRetry \/ RecoverFail \/ RecoverRetry \/ ResumeFromCheckpoint

LeaseExpires ==
  /\ lease = "held" /\ lease' = "expired"
  /\ UNCHANGED <<job, state, retry, consumed, checkpoints, pc, step, outside, crashes>>

Crash ==
  /\ pc # "idle" /\ crashes < MaxCrashes
  /\ crashes' = crashes + 1 /\ pc' = "idle"
  /\ UNCHANGED <<job, record, step, outside>>

-----------------------------------------------------------------------------
Init ==
  /\ job \in [engine : Engines, authorized : BOOLEAN, critical : BOOLEAN]
  /\ state = "QUEUED" /\ lease = "none"
  /\ retry = 0 /\ consumed = 0 /\ checkpoints = 0
  /\ pc = "idle" /\ step = 0 /\ calls = 0 /\ alerts = 0 /\ crashes = 0

Next == Worker \/ WorkFails \/ Operator \/ LeaseExpires \/ Crash

Spec == Init /\ [][Next]_vars

(* The process goes on with what it has begun, comes back after a crash, and *)
(* somebody calls it and the operator's functions again and again.           *)
FairSpec ==
  Spec /\ WF_vars(Worker) /\ WF_vars(Operator) /\ WF_vars(LeaseExpires)

-----------------------------------------------------------------------------
(* Properties.                                                               *)

(* Every field has its type; what is claimed has a lease, what is not is not *)
(* (job_queue.py: assign, mark_failed, recover_abandoned_jobs).              *)
TypeOK ==
  /\ job \in [engine : Engines, authorized : BOOLEAN, critical : BOOLEAN]
  /\ state \in {"QUEUED", "ASSIGNED", "RUNNING", "CHECKPOINTED", "COMPLETED",
                "FAILED_RETRYABLE", "FAILED_TERMINAL"}
  /\ lease \in {"none", "held", "expired"} /\ pc \in Places
  /\ retry \in 0 .. MaxRetries + 1 /\ step \in 0 .. Subtasks
  /\ crashes \in 0 .. MaxCrashes
  /\ consumed \in Nat /\ checkpoints \in Nat /\ calls \in Nat /\ alerts \in Nat
  /\ lease # "none" <=> state \in {"ASSIGNED", "RUNNING", "CHECKPOINTED"}

(* requests_consumed of a worker with checkpoints never falls short of the   *)
(* requests made, over all attempts and crashes, but for the last call of    *)
(* each attempt that ended badly (worker_contract.py:214).  It is no count:  *)
(* an attempt of six requests adds one and two and so on up to six.          *)
RequestsCovered ==
  job.engine # "plain" =>
    calls <= consumed + retry + crashes + (IF pc = "called" THEN 1 ELSE 0)

(* A job of critical risk raises its alert once for each attempt, and no     *)
(* more than max_retries + 1 times, and once more for each crash             *)
(* (real_workers.py:459): retries repeat the alert.                          *)
AlertsBounded == alerts <= MaxRetries + 1 + crashes

(* However it fails and whenever the process dies, a job that is worked on,  *)
(* recovered, resumed and retried again and again comes to a terminal state  *)
(* and stays there, a checkpointed one too.                                  *)
Settles == <>[](state \in {"COMPLETED", "FAILED_TERMINAL"})

(* An attempt whose work returned completes the job: "Claim the next queued  *)
(* job and execute it to completion" (worker_contract.py:53).  Only that of  *)
(* a worker without checkpoints of its own does.                             *)
ReturnedIsCompleted ==
  [][(pc \in {"returned", "completing"} /\ pc' = "idle" /\ crashes' = crashes)
        => state' = "COMPLETED"]_vars

================================================================================
