------------------------- MODULE WorkerPipelineProofs -------------------------
(***************************************************************************)
(* Proofs about WorkerPipeline, for pipelines of any length, any number of *)
(* retries and any number of crashes.                                      *)
(***************************************************************************)
EXTENDS WorkerPipeline, TLAPS

\* The places of the process while it executes the job.
Executing == {"working", "called", "done", "returned", "completing"}

\* The record on disk is the one the process left there, and only a job that
\* has used up its retries has failed more often than they allow.
Placed ==
  /\ pc = "assigned" => state = "ASSIGNED"
  /\ pc \in Executing => state \in {"RUNNING", "CHECKPOINTED"}
  /\ pc = "recovering" => state = "FAILED_RETRYABLE"
  /\ pc = "called" => step > 0
  /\ pc = "completing" => job.engine = "plain"
  /\ state \notin {"FAILED_RETRYABLE", "FAILED_TERMINAL"} => retry <= MaxRetries

\* Each alert belongs to a counted failure, to a crash, or to the attempt the
\* process is about to finish.
AlertsCounted ==
  /\ alerts <= retry + crashes + (IF pc \in {"done", "returned"} THEN 1 ELSE 0)
  /\ job.engine = "plain" => alerts = 0

IInv == TypeOK /\ Placed /\ AlertsCounted /\ RequestsCovered

-----------------------------------------------------------------------------
LEMMA InitHolds == Init => IInv
  BY PipelineConstants
  DEF Init, IInv, TypeOK, Placed, AlertsCounted, RequestsCovered, Engines, Places, Executing

\* The steps of the worker that neither begin nor end a subtask.
LEMMA ClaimKeeps ==
  ASSUME IInv, Claim \/ RefuseUnauthorized \/ StartExecution
  PROVE  IInv'
<1>. USE PipelineConstants DEF IInv, TypeOK, Placed, AlertsCounted, RequestsCovered,
                               Places, Executing, MoveTo, outside
<1>1. CASE Claim BY <1>1 DEF Claim
<1>2. CASE RefuseUnauthorized BY <1>2 DEF RefuseUnauthorized
<1>3. CASE StartExecution BY <1>3 DEF StartExecution
<1>. QED BY <1>1, <1>2, <1>3

\* A call of the bridge without a checkpoint is made by a plain worker only.
LEMMA SubtaskKeeps ==
  ASSUME IInv, Subtask
  PROVE  IInv'
<1>. USE PipelineConstants DEF IInv, TypeOK, Placed, AlertsCounted, RequestsCovered,
                               Places, Executing, Subtask, record
<1>1. step + 1 \in 1 .. Subtasks
  OBVIOUS
<1>2. /\ step' = step + 1 /\ job' = job /\ alerts' = alerts /\ crashes' = crashes
      /\ state' = state /\ lease' = lease /\ retry' = retry
      /\ consumed' = consumed /\ checkpoints' = checkpoints
      /\ pc' \in {"called", "working"} /\ calls' \in {calls, calls + 1}
  OBVIOUS
<1>3. job.engine # "plain" /\ calls' = calls + 1 => pc' = "called"
  <2>. SUFFICES ASSUME job.engine # "plain", calls' = calls + 1
                PROVE  step + 1 \in CheckpointedSubtasks(job.engine)
    OBVIOUS
  <2>1. CASE job.engine = "scraping"
    BY <1>1, <2>1 DEF CallsBridge, CheckpointedSubtasks
  <2>2. CASE job.engine # "scraping"
    BY <1>1, <2>2 DEF CheckpointedSubtasks
  <2>. QED BY <2>1, <2>2
<1>4. TypeOK' BY <1>1, <1>2
<1>5. Placed' BY <1>1, <1>2
<1>6. AlertsCounted' BY <1>2
<1>7. RequestsCovered' BY <1>2, <1>3
<1>. QED BY <1>4, <1>5, <1>6, <1>7

\* A checkpoint adds at least the one request it follows.
LEMMA CheckpointKeeps ==
  ASSUME IInv, Checkpoint
  PROVE  IInv'
<1>. USE PipelineConstants DEF IInv, TypeOK, Placed, AlertsCounted, RequestsCovered,
                               Places, Executing, Checkpoint, MoveTo, outside
<1>1. state' = "CHECKPOINTED"
  OBVIOUS
<1>2. TypeOK' BY <1>1
<1>3. Placed' BY <1>1
<1>4. AlertsCounted' OBVIOUS
<1>5. RequestsCovered' OBVIOUS
<1>. QED BY <1>2, <1>3, <1>4, <1>5

LEMMA FinishKeeps ==
  ASSUME IInv, Alert \/ WorkReturns \/ CompletionCheckpoint \/ CompleteExecution
  PROVE  IInv'
<1>. USE PipelineConstants DEF IInv, TypeOK, Placed, AlertsCounted, RequestsCovered,
                               Places, Executing, MoveTo, outside, record
<1>1. CASE Alert BY <1>1 DEF Alert
<1>2. CASE WorkReturns BY <1>2 DEF WorkReturns
<1>3. CASE CompletionCheckpoint BY <1>3 DEF CompletionCheckpoint
<1>4. CASE CompleteExecution BY <1>4 DEF CompleteExecution
<1>. QED BY <1>1, <1>2, <1>3, <1>4

\* A failure is counted, and with it the call and the alert of its attempt.
LEMMA FailureKeeps ==
  ASSUME IInv, WorkFails \/ CompletionCheckpointFails
  PROVE  IInv'
<1>. USE PipelineConstants DEF IInv, TypeOK, Placed, AlertsCounted, RequestsCovered,
                               Places, Executing, MoveTo, MarkFailed
<1>1. CASE WorkFails BY <1>1 DEF WorkFails
<1>2. CASE CompletionCheckpointFails BY <1>2 DEF CompletionCheckpointFails
<1>. QED BY <1>1, <1>2

LEMMA OperatorKeeps ==
  ASSUME IInv, Operator
  PROVE  IInv'
<1>. USE PipelineConstants DEF IInv, TypeOK, Placed, AlertsCounted, RequestsCovered,
                               Places, Executing, MoveTo, outside
<1>1. CASE ScheduleRetry BY <1>1 DEF ScheduleRetry, Retried
<1>2. CASE RecoverFail BY <1>2 DEF RecoverFail
<1>3. CASE RecoverRetry BY <1>3 DEF RecoverRetry, Retried
<1>4. CASE ResumeFromCheckpoint BY <1>4 DEF ResumeFromCheckpoint
<1>. QED BY <1>1, <1>2, <1>3, <1>4 DEF Operator

LEMMA FaultKeeps ==
  ASSUME IInv, LeaseExpires \/ Crash
  PROVE  IInv'
<1>. USE PipelineConstants DEF IInv, TypeOK, Placed, AlertsCounted, RequestsCovered,
                               Places, Executing, outside, record
<1>1. CASE LeaseExpires BY <1>1 DEF LeaseExpires
<1>2. CASE Crash BY <1>2 DEF Crash
<1>. QED BY <1>1, <1>2

LEMMA StutterKeeps ==
  ASSUME IInv, UNCHANGED vars
  PROVE  IInv'
  BY DEF IInv, TypeOK, Placed, AlertsCounted, RequestsCovered, vars, record, outside

LEMMA Invariance == Spec => []IInv
<1>1. IInv /\ [Next]_vars => IInv'
  BY ClaimKeeps, SubtaskKeeps, CheckpointKeeps, FinishKeeps, FailureKeeps, OperatorKeeps,
     FaultKeeps, StutterKeeps
  DEF Next, Worker
<1>. QED BY InitHolds, <1>1, PTL DEF Spec

-----------------------------------------------------------------------------
\* The record, the counters and the place of the process keep their types, and
\* a job has a lease exactly while it is taken.
THEOREM PipelineTypeOK == Spec => []TypeOK
<1>1. IInv => TypeOK
  BY DEF IInv
<1>. QED BY Invariance, <1>1, PTL

\* The consumption recorded by a worker with checkpoints covers the requests
\* made, over any number of attempts and crashes.
THEOREM PipelineRequestsCovered == Spec => []RequestsCovered
<1>1. IInv => RequestsCovered
  BY DEF IInv
<1>. QED BY Invariance, <1>1, PTL

\* A job alerts at most max_retries + 1 times, and once more for each crash.
THEOREM PipelineAlertsBounded == Spec => []AlertsBounded
<1>1. IInv => AlertsBounded
  BY PipelineConstants
  DEF IInv, TypeOK, Placed, AlertsCounted, AlertsBounded, Executing
<1>. QED BY Invariance, <1>1, PTL

=============================================================================
