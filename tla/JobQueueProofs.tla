--------------------------- MODULE JobQueueProofs ---------------------------
(***************************************************************************)
(* Proofs about JobQueue for every number of jobs, submitters, operators,  *)
(* retries, lease ticks and crashes.                                       *)
(*                                                                         *)
(* The invariants of racing operators: every copy of a record, on disk or  *)
(* in a process, is Legal by itself, and fits the place its holder is at   *)
(* (Fits).  Since a save replaces a whole record by a copy, that is all a  *)
(* save needs.  What holds for a single operator is JobQueueSingleProofs.  *)
(***************************************************************************)
EXTENDS JobQueue, TLAPS

\* What a record of job j satisfies wherever it is.
Legal(j, r) ==
  /\ r.state \in {Absent, "CREATED", "QUEUED", "ASSIGNED", "RUNNING",
                  "CHECKPOINTED", "COMPLETED", "FAILED_RETRYABLE",
                  "FAILED_TERMINAL", "CANCELLED", "RESULT_REJECTED"}
  /\ r.state \in {Absent, "CREATED"} => r.worker = NoWorker
  /\ Executing(r) => r.worker \in Operators /\ r.lease # NoLease
  /\ r.state \in {Absent, "CREATED", "QUEUED"} \/ Executing(r)
       => r.retry <= MaxRetries
  /\ r.decision = "ACCEPTED" =>
       r.state = "COMPLETED" /\ r.result = "good" /\ j \in Referenced

\* What p knows of the record r it holds when it is at n.
Fits(p, r, n) ==
  /\ n \in {"save_created", "save_queued"} => r.state = "CREATED"
  /\ n = "claimed" => r.state = "QUEUED"
  /\ n \in {"assigned", "running", "result"} => p \in Operators
  /\ n = "assigned" => r.state = "ASSIGNED"
  /\ n \in {"running", "result"} => r.state \in {"RUNNING", "CHECKPOINTED"}
  /\ n = "recover_fail" => r.state \in {"ASSIGNED", "RUNNING"}
  /\ n = "recover_retry" => r.state = "FAILED_RETRYABLE" /\ r.retry <= MaxRetries
  /\ n = "held" => r.state # Absent
  /\ n \in {"val_fresh", "val_dup"} => r.state = "COMPLETED" /\ r.result # "none"

IInv ==
  /\ \A j \in Jobs : Legal(j, store[j])
  /\ \A p \in Procs : Legal(job[p], copy[p]) /\ Fits(p, copy[p], pc[p])

-----------------------------------------------------------------------------
\* The ways of moving preserve the invariants if the record does.

LEMMA WaitsCountDown ==
  /\ 0 \in Waits
  /\ \A n \in 0..MaxRetries : BackoffDelay(n) \in Waits
  /\ \A w \in Waits : w \in Nat /\ (w > 0 => w - 1 \in Waits)
<1>1. \A n \in 0..MaxRetries : BackoffDelay(n) \in Nat
  BY ConstantsOK
<1>2. 0 \in 0..MaxRetries
  BY ConstantsOK
<1>3. \A w : w \in Waits <=> \E n \in 0..MaxRetries : w \in 0..BackoffDelay(n)
  BY DEF Waits
<1>4. \A n \in 0..MaxRetries : 0 \in 0..BackoffDelay(n) /\ BackoffDelay(n) \in 0..BackoffDelay(n)
  BY <1>1
<1>5. \A n \in 0..MaxRetries : \A w \in 0..BackoffDelay(n) :
        w \in Nat /\ (w > 0 => w - 1 \in 0..BackoffDelay(n))
  BY <1>1
<1> QED BY <1>2, <1>3, <1>4, <1>5

LEMMA NoRecordFits ==
  /\ NoRecord \in Record /\ (\A j : Legal(j, NoRecord))
  /\ \A p \in Procs : Fits(p, NoRecord, "idle")
  BY ConstantsOK, WaitsCountDown DEF NoRecord, Record, Legal, Fits, Executing, NoLease, Absent

LEMMA NewRecordFits ==
  /\ NewRecord \in Record /\ (\A j : Legal(j, NewRecord))
  /\ \A p \in Procs : Fits(p, NewRecord, "save_created")
  BY ConstantsOK, WaitsCountDown DEF NewRecord, NoRecord, Record, Legal, Fits, Executing,
                     NoLease, Absent, JobState

LEMMA BeginInv ==
  ASSUME TypeOK, IInv, NEW p \in Procs, NEW j \in Jobs, NEW r \in Record,
         NEW n \in PC, Legal(j, r), Fits(p, r, n), Begin(p, j, r, n)
  PROVE  TypeOK' /\ IInv'
<1>1. TypeOK'
  BY DEF TypeOK, Begin
<1>2. IInv'
  BY DEF TypeOK, IInv, Begin
<1> QED BY <1>1, <1>2

LEMMA SaveAndGoInv ==
  ASSUME TypeOK, IInv, NEW p \in Procs, pc[p] # "idle", NEW r \in Record,
         NEW n \in PC, Legal(job[p], r), Fits(p, r, n), SaveAndGo(p, r, n)
  PROVE  TypeOK' /\ IInv'
<1>1. job[p] \in Jobs
  BY DEF TypeOK
<1>2. TypeOK'
  BY <1>1 DEF TypeOK, SaveAndGo
<1>3. IInv'
  BY <1>1 DEF TypeOK, IInv, SaveAndGo
<1> QED BY <1>2, <1>3

LEMMA ForgetInv ==
  ASSUME TypeOK, IInv, NEW p \in Procs, Forget(p), store' \in [Jobs -> Record],
         \A j \in Jobs : Legal(j, store'[j]), crashes' \in 0..MaxCrashes
  PROVE  TypeOK' /\ IInv'
<1>1. TypeOK'
  BY NoRecordFits DEF TypeOK, Forget, PC
<1>2. IInv'
  BY NoRecordFits DEF TypeOK, IInv, Forget
<1> QED BY <1>1, <1>2

LEMMA SaveAndReturnInv ==
  ASSUME TypeOK, IInv, NEW p \in Procs, pc[p] # "idle", NEW r \in Record,
         Legal(job[p], r), SaveAndReturn(p, r)
  PROVE  TypeOK' /\ IInv'
<1>1. /\ store' \in [Jobs -> Record]
      /\ \A j \in Jobs : Legal(j, store'[j])
  BY DEF TypeOK, IInv, SaveAndReturn
<1>2. crashes' \in 0..MaxCrashes /\ Forget(p)
  BY DEF TypeOK, SaveAndReturn
<1> QED BY <1>1, <1>2, ForgetInv

\* cancel never gets past the lifecycle manager with CANCEL_REQUESTED.
LEMMA CancelOnlyEarly ==
  ASSUME NEW s \in JobState, Accepts(s, CancelTarget(s))
  PROVE  /\ s \in {"CREATED", "AUTHORIZED", "QUEUED", "ASSIGNED"}
         /\ CancelTarget(s) = "CANCELLED"
<1>1. "CANCEL_REQUESTED" \notin ALLOWED_TRANSITIONS[s]
  BY DEF ALLOWED_TRANSITIONS, JobState
<1> QED BY <1>1 DEF Accepts, CanTransition, CancelTarget

LEMMA FieldTypes ==
  ASSUME NEW r \in Record
  PROVE  /\ r.state \in JobState \cup {Absent}
         /\ r.worker \in Operators \cup {NoWorker}
         /\ r.lease \in Nat \cup {NoLease}
         /\ r.wait \in Waits /\ r.retry \in Nat
         /\ r.result \in {"none"} \cup Results
         /\ r.decision \in {"none", "ACCEPTED", "REJECTED", "OTHER"}
  BY DEF Record

-----------------------------------------------------------------------------
\* The saves of each call write legal records.

LEMMA SubmitterInv ==
  ASSUME TypeOK, IInv, NEW p \in Submitters,
         (\E j \in Jobs : EnqueueFind(p, j)) \/ SubmitterStep(p)
  PROVE  TypeOK' /\ IInv'
<1> p \in Procs /\ copy[p] \in Record /\ Legal(job[p], copy[p]) /\ Fits(p, copy[p], pc[p])
  BY DEF Procs, TypeOK, IInv
<1>1. CASE \E j \in Jobs : EnqueueFind(p, j)
  BY <1>1, NewRecordFits, BeginInv DEF EnqueueFind, PC
<1>2. CASE EnqueueSaveCreated(p)
  <2>1. Fits(p, copy[p], "save_queued")
    BY <1>2 DEF EnqueueSaveCreated, Fits
  <2> QED BY <1>2, <2>1, SaveAndGoInv DEF EnqueueSaveCreated, PC
<1>3. CASE EnqueueSaveQueued(p)
  <2> DEFINE r == Moved(copy[p], "QUEUED")
  <2>1. copy[p].state = "CREATED"
    BY <1>3 DEF EnqueueSaveQueued, Fits
  <2>2. r \in Record
    BY DEF Moved, Record, JobState
  <2>3. Legal(job[p], r)
    BY <2>1 DEF Moved, Record, Legal, Executing
  <2> QED BY <1>3, <2>2, <2>3, SaveAndReturnInv DEF EnqueueSaveQueued
<1> QED BY <1>1, <1>2, <1>3 DEF SubmitterStep

LEMMA MarkedFailedLegal ==
  ASSUME NEW j, NEW r \in Record, Legal(j, r), r.state # "COMPLETED",
         NEW terminal \in BOOLEAN
  PROVE  MarkedFailed(r, terminal) \in Record /\ Legal(j, MarkedFailed(r, terminal))
<1>1. MarkedFailed(r, terminal) \in Record
  <2>1. CASE terminal
    BY <2>1 DEF MarkedFailed, Record, JobState
  <2>2. CASE ~terminal
    <3>1. r.retry + 1 \in Nat
      BY FieldTypes
    <3>2. MarkedFailed(r, terminal) = [r EXCEPT !.state = "FAILED_RETRYABLE",
                                       !.lease = NoLease, !.retry = r.retry + 1]
      BY <2>2 DEF MarkedFailed, Record
    <3> QED BY <3>1, <3>2 DEF Record, JobState
  <2> QED BY <2>1, <2>2
<1>2. Legal(j, MarkedFailed(r, terminal))
  BY DEF MarkedFailed, Record, Legal, Executing, Absent
<1> QED BY <1>1, <1>2

LEMMA RetriedLegal ==
  ASSUME NEW j, NEW r \in Record, Legal(j, r), r.state = "FAILED_RETRYABLE"
  PROVE  Retried(r) \in Record /\ Legal(j, Retried(r))
<1>1. CASE r.retry > MaxRetries
  <2>1. Retried(r) = [r EXCEPT !.state = "FAILED_TERMINAL"]
    BY <1>1 DEF Retried, Moved
  <2>2. Retried(r) \in Record
    BY <2>1 DEF Record, JobState
  <2>3. Legal(j, Retried(r))
    BY <2>1 DEF Record, Legal, Executing, Absent
  <2> QED BY <2>2, <2>3
<1>2. CASE ~(r.retry > MaxRetries)
  <2>1. r.retry \in 0..MaxRetries
    BY <1>2, FieldTypes, ConstantsOK
  <2>2. BackoffDelay(r.retry) \in Waits
    BY <2>1, WaitsCountDown
  <2>3. Retried(r) = [r EXCEPT !.state = "QUEUED", !.lease = NoLease,
                               !.wait = BackoffDelay(r.retry)]
    BY <1>2 DEF Retried
  <2>4. Retried(r) \in Record
    BY <2>2, <2>3 DEF Record, JobState
  <2>5. Retried(r).state = "QUEUED" /\ Retried(r).retry = r.retry
        /\ Retried(r).decision = r.decision
    BY <2>3 DEF Record
  <2>6. Legal(j, Retried(r))
    BY <2>1, <2>5 DEF Legal, Executing, Absent
  <2> QED BY <2>4, <2>6
<1> QED BY <1>1, <1>2

LEMMA WorkerInv ==
  ASSUME TypeOK, IInv, NEW p \in Operators,
         WorkerStep(p) \/ RenewLease(p) \/ SaveCheckpoint(p)
  PROVE  TypeOK' /\ IInv'
<1> p \in Procs /\ copy[p] \in Record /\ Legal(job[p], copy[p]) /\ Fits(p, copy[p], pc[p])
  BY DEF Procs, TypeOK, IInv
<1>1. CASE Assign(p)
  <2> DEFINE r == [copy[p] EXCEPT !.state = "ASSIGNED", !.worker = p,
                                  !.lease = LeaseTicks + 1]
  <2> LeaseTicks + 1 \in Nat
    BY ConstantsOK
  <2>1. r \in Record
    BY DEF Record, JobState
  <2>2. Legal(job[p], r) /\ Fits(p, r, "assigned")
    BY <1>1, ConstantsOK DEF Assign, Record, Legal, Fits, Executing, NoLease, Absent
  <2> QED BY <1>1, <2>1, <2>2, SaveAndGoInv DEF Assign, PC
<1>2. CASE RefuseUnauthorized(p)
  <2>1. copy[p].state # "COMPLETED"
    BY <1>2 DEF RefuseUnauthorized, Fits, Executing
  <2> QED BY <1>2, <2>1, MarkedFailedLegal, SaveAndReturnInv DEF RefuseUnauthorized
<1>3. CASE StartExecution(p)
  <2> DEFINE r == Moved(copy[p], "RUNNING")
  <2>1. r \in Record
    BY DEF Moved, Record, JobState
  <2>2. Legal(job[p], r) /\ Fits(p, r, "running")
    BY <1>3 DEF StartExecution, Moved, Record, Legal, Fits, Executing, Absent
  <2> QED BY <1>3, <2>1, <2>2, SaveAndGoInv DEF StartExecution, PC
<1>4. CASE WorkReturns(p)
  <2>1. Fits(p, copy[p], "result")
    BY <1>4 DEF WorkReturns, Fits
  <2> QED BY <1>4, <2>1, SaveAndGoInv DEF WorkReturns, PC
<1>5. CASE WorkFails(p)
  <2>1. copy[p].state # "COMPLETED"
    BY <1>5 DEF WorkFails, Fits, Executing
  <2> QED BY <1>5, <2>1, MarkedFailedLegal, SaveAndReturnInv DEF WorkFails
<1>6. CASE CompleteExecution(p)
  <2>1. PICK res \in Results :
          SaveAndReturn(p, [copy[p] EXCEPT !.state = "COMPLETED",
                                           !.lease = NoLease, !.result = res])
    BY <1>6 DEF CompleteExecution
  <2> DEFINE r == [copy[p] EXCEPT !.state = "COMPLETED",
                                  !.lease = NoLease, !.result = res]
  <2>2. r \in Record
    BY DEF Record, JobState
  <2>3. Legal(job[p], r)
    BY <1>6 DEF CompleteExecution, Record, Legal, Executing, Absent
  <2>4. pc[p] # "idle"
    BY <1>6 DEF CompleteExecution
  <2> QED BY <2>1, <2>2, <2>3, <2>4, SaveAndReturnInv
<1>7. CASE RenewLease(p)
  <2> DEFINE r == [copy[p] EXCEPT !.lease = LeaseTicks + 1]
  <2>1. r \in Record
    BY ConstantsOK DEF Record
  <2>2. pc[p] \in PC /\ pc[p] # "idle"
    BY <1>7 DEF RenewLease, PC
  <2>3. Legal(job[p], r) /\ Fits(p, r, pc[p])
    BY <1>7, ConstantsOK DEF RenewLease, Record, Legal, Fits, Executing, NoLease
  <2> QED BY <1>7, <2>1, <2>2, <2>3, SaveAndGoInv DEF RenewLease
<1>8. CASE SaveCheckpoint(p)
  <2> DEFINE r == Moved(copy[p], "CHECKPOINTED")
  <2>1. r \in Record
    BY DEF Moved, Record, JobState
  <2>2. Legal(job[p], r) /\ Fits(p, r, "running")
    BY <1>8 DEF SaveCheckpoint, Moved, Record, Legal, Fits, Executing, Absent
  <2> QED BY <1>8, <2>1, <2>2, SaveAndGoInv DEF SaveCheckpoint, PC
<1> QED BY <1>1, <1>2, <1>3, <1>4, <1>5, <1>6, <1>7, <1>8 DEF WorkerStep

LEMMA RecoveryInv ==
  ASSUME TypeOK, IInv, NEW p \in Operators, RecoveryStep(p) \/ RetryHeld(p)
  PROVE  TypeOK' /\ IInv'
<1> p \in Procs /\ copy[p] \in Record /\ Legal(job[p], copy[p]) /\ Fits(p, copy[p], pc[p])
  BY DEF Procs, TypeOK, IInv
<1>1. CASE RecoverFail(p)
  <2> DEFINE r == [copy[p] EXCEPT !.state = "FAILED_RETRYABLE",
                                  !.lease = NoLease, !.worker = NoWorker]
  <2>1. r \in Record
    BY DEF Record, JobState
  <2>2. Legal(job[p], r) /\ Fits(p, r, "recover_retry")
    BY <1>1 DEF RecoverFail, Record, Legal, Fits, Executing, Absent
  <2> QED BY <1>1, <2>1, <2>2, SaveAndGoInv DEF RecoverFail, PC
<1>2. CASE RecoverRetry(p) \/ RetryHeld(p)
  BY <1>2, RetriedLegal, SaveAndReturnInv DEF RecoverRetry, RetryHeld, ScheduleRetry
<1> QED BY <1>1, <1>2 DEF RecoveryStep

LEMMA HeldInv ==
  ASSUME TypeOK, IInv, NEW p \in Operators, HeldStep(p)
  PROVE  TypeOK' /\ IInv'
<1> p \in Procs /\ copy[p] \in Record /\ Legal(job[p], copy[p]) /\ Fits(p, copy[p], pc[p])
  BY DEF Procs, TypeOK, IInv
<1>1. CASE Cancel(p)
  <2> DEFINE r == [copy[p] EXCEPT !.state = CancelTarget(@), !.lease = NoLease]
  <2>1. copy[p].state \in JobState
    BY <1>1 DEF Cancel, Fits, Record
  <2>2. /\ copy[p].state \in {"CREATED", "AUTHORIZED", "QUEUED", "ASSIGNED"}
        /\ CancelTarget(copy[p].state) = "CANCELLED"
    BY <1>1, <2>1, CancelOnlyEarly DEF Cancel
  <2>3. r \in Record
    BY <2>2 DEF Record, JobState
  <2>4. Legal(job[p], r)
    BY <2>2 DEF Record, Legal, Executing, Absent
  <2> QED BY <1>1, <2>3, <2>4, SaveAndReturnInv DEF Cancel
<1>2. CASE ExecuteSpecificJob(p)
  <2> DEFINE r == Moved(copy[p], "RUNNING")
  <2>1. r \in Record
    BY DEF Moved, Record, JobState
  <2>2. Legal(job[p], r) /\ Fits(p, r, "running")
    BY <1>2 DEF ExecuteSpecificJob, Moved, Record, Legal, Fits, Executing, Absent
  <2> QED BY <1>2, <2>1, <2>2, SaveAndGoInv DEF ExecuteSpecificJob, PC
<1>3. CASE ValidateCheck(p)
  <2>1. TypeOK'
    BY <1>3 DEF ValidateCheck, TypeOK, PC
  <2>2. IInv'
    BY <1>3 DEF ValidateCheck, TypeOK, IInv, Fits
  <2> QED BY <2>1, <2>2
<1>4. CASE ValidateSave(p)
  <2> DEFINE verdict == Verdict(job[p], copy[p], pc[p] = "val_dup")
             r == [copy[p] EXCEPT
                     !.decision = verdict,
                     !.state = IF verdict = "REJECTED" THEN "RESULT_REJECTED" ELSE @]
  <2>1. verdict \in {"ACCEPTED", "REJECTED", "OTHER"}
        /\ (verdict = "ACCEPTED" => /\ copy[p].result \notin {"flawed", "doubtful"}
                                    /\ job[p] \in Referenced)
    BY DEF Verdict
  <2>2. copy[p].state = "COMPLETED" /\ copy[p].result # "none"
    BY <1>4 DEF ValidateSave, Fits
  <2>3. r \in Record
    BY <2>1 DEF Record, JobState
  <2>4. Legal(job[p], r)
    BY <2>1, <2>2 DEF Record, Results, Legal, Executing, Absent
  <2> QED BY <1>4, <2>3, <2>4, SaveAndReturnInv DEF ValidateSave
<1>5. CASE Drop(p)
  BY <1>5, ForgetInv DEF Drop, TypeOK, IInv
<1>6. CASE ResumeFromCheckpoint(p)
  <2> DEFINE r == Moved(copy[p], "RUNNING")
  <2>1. r \in Record
    BY DEF Moved, Record, JobState
  <2>2. Legal(job[p], r)
    BY <1>6 DEF ResumeFromCheckpoint, Moved, Record, Legal, Executing, Absent
  <2> QED BY <1>6, <2>1, <2>2, SaveAndReturnInv DEF ResumeFromCheckpoint
<1> QED BY <1>1, <1>2, <1>3, <1>4, <1>5, <1>6, RecoveryInv DEF HeldStep

LEMMA AgedLegal ==
  ASSUME NEW r \in Record
  PROVE  /\ Aged(r) \in Record
         /\ Aged(r).state = r.state /\ Aged(r).retry = r.retry
         /\ Aged(r).worker = r.worker
         /\ \A j : (Legal(j, r) => Legal(j, Aged(r)))
         /\ \A p \in Procs, n \in PC : Fits(p, r, n) => Fits(p, Aged(r), n)
<1> DEFINE l == IF r.lease > 0 THEN r.lease - 1 ELSE r.lease
           w == IF r.wait > 0 THEN r.wait - 1 ELSE r.wait
<1>1. l \in Nat \cup {NoLease} /\ w \in Waits /\ (r.lease # NoLease => l # NoLease)
  BY FieldTypes, WaitsCountDown DEF NoLease
<1>2. Aged(r) = [r EXCEPT !.lease = l, !.wait = w]
  BY DEF Aged, Record
<1> HIDE DEF l, w
<1>3. Aged(r) \in Record
  BY <1>1, <1>2 DEF Record
<1>4. /\ Aged(r).state = r.state /\ Aged(r).worker = r.worker
      /\ Aged(r).retry = r.retry /\ Aged(r).result = r.result
      /\ Aged(r).decision = r.decision /\ Aged(r).lease = l
  BY <1>2 DEF Record
<1>5. \A j : Legal(j, r) => Legal(j, Aged(r))
  BY <1>1, <1>4 DEF Legal, Executing
<1>6. \A p \in Procs, n \in PC : Fits(p, r, n) => Fits(p, Aged(r), n)
  BY <1>4 DEF Fits, Executing
<1> QED BY <1>3, <1>4, <1>5, <1>6

LEMMA InitInv == Init => TypeOK /\ IInv
  BY NoRecordFits, ConstantsOK DEF Init, TypeOK, IInv, PC

LEMMA NextInv ==
  ASSUME TypeOK, IInv, [Next]_vars
  PROVE  TypeOK' /\ IInv'
<1>1. CASE \E p \in Submitters : (\E j \in Jobs : EnqueueFind(p, j)) \/ SubmitterStep(p)
  BY <1>1, SubmitterInv
<1>2. CASE \E p \in Operators, j \in Jobs :
             GetNextQueued(p, j) \/ RecoverLoad(p, j) \/ Load(p, j)
  <2>1. PICK p \in Operators, j \in Jobs :
          GetNextQueued(p, j) \/ RecoverLoad(p, j) \/ Load(p, j)
    BY <1>2
  <2>2. p \in Procs /\ store[j] \in Record /\ Legal(j, store[j])
    BY DEF Procs, TypeOK, IInv
  <2>3. CASE GetNextQueued(p, j)
    <3>1. Fits(p, store[j], "claimed")
      BY <2>3 DEF GetNextQueued, Fits
    <3> QED BY <2>2, <2>3, <3>1, BeginInv DEF GetNextQueued, PC
  <2>4. CASE RecoverLoad(p, j)
    <3>1. Fits(p, store[j], "recover_fail")
      BY <2>4 DEF RecoverLoad, Fits
    <3> QED BY <2>2, <2>4, <3>1, BeginInv DEF RecoverLoad, PC
  <2>5. CASE Load(p, j)
    <3>1. Fits(p, store[j], "held")
      BY <2>5 DEF Load, Fits
    <3> QED BY <2>2, <2>5, <3>1, BeginInv DEF Load, PC
  <2> QED BY <2>1, <2>3, <2>4, <2>5
<1>3. CASE \E p \in Operators : WorkerStep(p) \/ RenewLease(p) \/ SaveCheckpoint(p)
  BY <1>3, WorkerInv
<1>4. CASE \E p \in Operators : RecoveryStep(p)
  BY <1>4, RecoveryInv
<1>5. CASE \E p \in Operators : HeldStep(p)
  BY <1>5, HeldInv
<1>6. CASE \E p \in Procs : Crash(p)
  <2>1. PICK p \in Procs : Crash(p)
    BY <1>6
  <2>2. crashes' \in 0..MaxCrashes
    BY <2>1, ConstantsOK DEF Crash, TypeOK
  <2> QED BY <2>1, <2>2, ForgetInv DEF Crash, TypeOK, IInv
<1>7. CASE Tick
  <2>1. TypeOK'
    BY <1>7, AgedLegal DEF Tick, TypeOK
  <2>2. IInv'
    BY <1>7, AgedLegal DEF Tick, TypeOK, IInv
  <2> QED BY <2>1, <2>2
<1>8. CASE UNCHANGED vars
  BY <1>8 DEF vars, TypeOK, IInv, Fits, Legal, Executing
<1> QED BY <1>1, <1>2, <1>3, <1>4, <1>5, <1>6, <1>7, <1>8 DEF Next

LEMMA Invariance == Spec => [](TypeOK /\ IInv)
<1>1. TypeOK /\ IInv /\ [Next]_vars => (TypeOK /\ IInv)'
  BY NextInv
<1> QED BY InitInv, <1>1, PTL DEF Spec

\* The variables of the queue keep their types: every record on disk and in a
\* process has the fields of JobRecord, none of them waits longer than the last
\* retry does, and a process inside a call has a job.
THEOREM QueueTypes == Spec => []TypeOK
  BY Invariance, PTL

\* A job taken by a worker has an owner and a lease on disk, so an abandoned
\* one can be told by its lease, for any number of racing operators.
THEOREM LeaseCovers == Spec => []LeaseCoversExecution
<1>1. TypeOK /\ IInv => LeaseCoversExecution
  BY DEF IInv, LeaseCoversExecution, Legal
<1> QED BY <1>1, Invariance, PTL

\* No job is queued or executed that has failed more than max_retries times.
THEOREM RetriesAreBounded == Spec => []RetriesBounded
<1>1. TypeOK /\ IInv => RetriesBounded
  BY DEF IInv, RetriesBounded, Legal
<1> QED BY <1>1, Invariance, PTL

\* An accepted verdict on disk stands on a completed job with a sound result
\* whose contract carries an authorization reference, for any number of racing
\* operators and whatever the contract says of the tenant.
THEOREM AcceptedStands == Spec => []AcceptedIsCompleted
<1>1. TypeOK /\ IInv => AcceptedIsCompleted
  BY DEF IInv, AcceptedIsCompleted, Legal
<1> QED BY <1>1, Invariance, PTL

\* No restart finds a job between the two transitions of one save.
THEOREM OnlyWholeSteps == Spec => []NoHalfTransition
<1>1. TypeOK /\ IInv => NoHalfTransition
  BY DEF IInv, NoHalfTransition, Legal
<1> QED BY <1>1, Invariance, PTL

-----------------------------------------------------------------------------
(* What one process may do to the jobs of the others.                        *)

Saving == {"save_created", "save_queued"}

\* Only submitters are inside enqueue, only operators inside anything else.
Roles ==
  \A p \in Procs :
    /\ pc[p] \in Saving => p \in Submitters
    /\ pc[p] \notin Saving \cup {"idle"} => p \in Operators

\* The job of an operator has a record.
Known ==
  \A p \in Procs : pc[p] \notin {"idle", "save_created"} => store[job[p]].state # Absent

\* Only a submission brings a record into being or writes CREATED: an operator
\* moves along by itself, and what it saves is the record of a job in hand.
LEMMA OperatorWrites ==
  ASSUME TypeOK, IInv, NEW p \in Operators,
         \/ WorkerStep(p) \/ RenewLease(p) \/ SaveCheckpoint(p)
         \/ RecoveryStep(p) \/ HeldStep(p)
  PROVE  /\ pc[p] \notin Saving \cup {"idle"} /\ pc'[p] \notin Saving
         /\ pc'[p] = "idle" \/ job'[p] = job[p]
         /\ \A q \in Procs : q # p => pc'[q] = pc[q] /\ job'[q] = job[q]
         /\ \A k \in Jobs : \/ store'[k].state = store[k].state
                            \/ k = job[p] /\ store'[k].state \notin {Absent, "CREATED"}
         /\ crashes' = crashes
<1> p \in Procs /\ copy[p] \in Record /\ Legal(job[p], copy[p]) /\ Fits(p, copy[p], pc[p])
  BY DEF Procs, TypeOK, IInv
<1> DEFINE Quiet == /\ pc[p] \notin Saving \cup {"idle"} /\ pc'[p] \notin Saving
                    /\ pc'[p] = "idle" \/ job'[p] = job[p]
                    /\ \A q \in Procs : q # p => pc'[q] = pc[q] /\ job'[q] = job[q]
                    /\ crashes' = crashes
           Written == \A k \in Jobs :
                        \/ store'[k].state = store[k].state
                        \/ k = job[p] /\ store'[k].state \notin {Absent, "CREATED"}
<1> SUFFICES Quiet /\ Written
  OBVIOUS
<1>1. ASSUME NEW r, NEW n, SaveAndGo(p, r, n), pc[p] \notin Saving \cup {"idle"},
             n \notin Saving, r.state \notin {Absent, "CREATED"}
      PROVE  Quiet /\ Written
  BY <1>1 DEF SaveAndGo, TypeOK
<1>2. ASSUME NEW r, SaveAndReturn(p, r), pc[p] \notin Saving \cup {"idle"},
             r.state \notin {Absent, "CREATED"}
      PROVE  Quiet /\ Written
  BY <1>2 DEF SaveAndReturn, Forget, TypeOK, Saving
<1> HIDE DEF Quiet, Written
<1>3. CASE Assign(p)
  <2> DEFINE r == [copy[p] EXCEPT !.state = "ASSIGNED", !.worker = p,
                                  !.lease = LeaseTicks + 1]
  <2>1. r.state = "ASSIGNED"
    BY DEF Record
  <2>2. SaveAndGo(p, r, "assigned") /\ pc[p] \notin Saving \cup {"idle"}
    BY <1>3 DEF Assign, Saving
  <2>3. r.state \notin {Absent, "CREATED"} /\ "assigned" \notin Saving
    BY <2>1 DEF Absent, Saving
  <2> HIDE DEF r
  <2> QED BY <1>1, <2>2, <2>3
<1>4. CASE StartExecution(p) \/ SaveCheckpoint(p) \/ ExecuteSpecificJob(p)
  <2>1. PICK s \in {"RUNNING", "CHECKPOINTED"} : SaveAndGo(p, Moved(copy[p], s), "running")
    BY <1>4 DEF StartExecution, SaveCheckpoint, ExecuteSpecificJob
  <2>2. Moved(copy[p], s).state \notin {Absent, "CREATED"}
    BY DEF Moved, Record, Absent
  <2>3. pc[p] \notin Saving \cup {"idle"}
    BY <1>4 DEF StartExecution, SaveCheckpoint, ExecuteSpecificJob, Saving
  <2> QED BY <1>1, <2>1, <2>2, <2>3 DEF Saving
<1>5. CASE WorkReturns(p)
  <2>1. copy[p].state \notin {Absent, "CREATED"}
    BY <1>5 DEF WorkReturns, Fits, Executing, Absent
  <2> QED BY <1>1, <1>5, <2>1 DEF WorkReturns, Saving
<1>6. CASE RenewLease(p)
  <2> DEFINE r == [copy[p] EXCEPT !.lease = LeaseTicks + 1]
  <2>1. r.state \notin {Absent, "CREATED"}
    BY <1>6, ConstantsOK DEF RenewLease, Record, Legal
  <2> QED BY <1>1, <1>6, <2>1 DEF RenewLease, Saving
<1>7. CASE RecoverFail(p)
  <2> DEFINE r == [copy[p] EXCEPT !.state = "FAILED_RETRYABLE",
                                  !.lease = NoLease, !.worker = NoWorker]
  <2>1. r.state = "FAILED_RETRYABLE"
    BY DEF Record
  <2>2. SaveAndGo(p, r, "recover_retry") /\ pc[p] \notin Saving \cup {"idle"}
    BY <1>7 DEF RecoverFail, Saving
  <2>3. r.state \notin {Absent, "CREATED"} /\ "recover_retry" \notin Saving
    BY <2>1 DEF Absent, Saving
  <2> HIDE DEF r
  <2> QED BY <1>1, <2>2, <2>3
<1>8. CASE RefuseUnauthorized(p) \/ WorkFails(p)
  <2>1. PICK terminal \in BOOLEAN : SaveAndReturn(p, MarkedFailed(copy[p], terminal))
    BY <1>8 DEF RefuseUnauthorized, WorkFails
  <2>2. MarkedFailed(copy[p], terminal).state \notin {Absent, "CREATED"}
    BY DEF MarkedFailed, Record, Absent
  <2>3. pc[p] \notin Saving \cup {"idle"}
    BY <1>8 DEF RefuseUnauthorized, WorkFails, Saving
  <2> QED BY <1>2, <2>1, <2>2, <2>3
<1>9. CASE CompleteExecution(p)
  <2>1. PICK res \in Results :
          SaveAndReturn(p, [copy[p] EXCEPT !.state = "COMPLETED",
                                           !.lease = NoLease, !.result = res])
    BY <1>9 DEF CompleteExecution
  <2> DEFINE r == [copy[p] EXCEPT !.state = "COMPLETED",
                                  !.lease = NoLease, !.result = res]
  <2>2. r.state = "COMPLETED"
    BY DEF Record
  <2>3. pc[p] \notin Saving \cup {"idle"}
    BY <1>9 DEF CompleteExecution, Saving
  <2> QED BY <1>2, <2>1, <2>2, <2>3 DEF Absent
<1>10. CASE RecoverRetry(p) \/ RetryHeld(p)
  <2>1. SaveAndReturn(p, Retried(copy[p])) /\ pc[p] \notin Saving \cup {"idle"}
    BY <1>10 DEF RecoverRetry, RetryHeld, ScheduleRetry, Saving
  <2>2. Retried(copy[p]).state \notin {Absent, "CREATED"}
    BY DEF Retried, Moved, Record, Absent
  <2> QED BY <1>2, <2>1, <2>2
<1>11. CASE Cancel(p)
  <2> DEFINE r == [copy[p] EXCEPT !.state = CancelTarget(@), !.lease = NoLease]
  <2>1. r.state \notin {Absent, "CREATED"}
    BY DEF CancelTarget, Record, Absent
  <2> QED BY <1>2, <1>11, <2>1 DEF Cancel, Saving
<1>12. CASE ResumeFromCheckpoint(p)
  <2>1. Moved(copy[p], "RUNNING").state = "RUNNING"
    BY DEF Moved, Record
  <2> QED BY <1>2, <1>12, <2>1 DEF ResumeFromCheckpoint, Saving, Absent
<1>13. CASE ValidateSave(p)
  <2> DEFINE verdict == Verdict(job[p], copy[p], pc[p] = "val_dup")
             r == [copy[p] EXCEPT
                     !.decision = verdict,
                     !.state = IF verdict = "REJECTED" THEN "RESULT_REJECTED" ELSE @]
  <2>1. copy[p].state = "COMPLETED"
    BY <1>13 DEF ValidateSave, Fits
  <2>2. r.state \notin {Absent, "CREATED"}
    BY <2>1 DEF Record, Absent
  <2> QED BY <1>2, <1>13, <2>2 DEF ValidateSave, Saving
<1>14. CASE ValidateCheck(p)
  BY <1>14 DEF ValidateCheck, TypeOK, Saving, Quiet, Written
<1>15. CASE Drop(p)
  BY <1>15 DEF Drop, Forget, TypeOK, Saving, Quiet, Written
<1> QED BY <1>3, <1>4, <1>5, <1>6, <1>7, <1>8, <1>9, <1>10, <1>11, <1>12,
           <1>13, <1>14, <1>15 DEF WorkerStep, RecoveryStep, HeldStep

\* What the other steps do to jobs and places.
LEMMA LoadMoves ==
  ASSUME TypeOK, NEW p \in Operators, NEW j \in Jobs,
         GetNextQueued(p, j) \/ RecoverLoad(p, j) \/ Load(p, j)
  PROVE  /\ pc[p] = "idle" /\ pc'[p] \notin Saving \cup {"idle"}
         /\ job'[p] = j /\ store[j].state # Absent
         /\ \A q \in Procs : q # p => pc'[q] = pc[q] /\ job'[q] = job[q]
         /\ store' = store /\ crashes' = crashes
<1> p \in Procs
  BY DEF Procs
<1>1. CASE GetNextQueued(p, j)
  BY <1>1 DEF GetNextQueued, Begin, TypeOK, Saving, Absent
<1>2. CASE RecoverLoad(p, j)
  BY <1>2 DEF RecoverLoad, Begin, TypeOK, Saving, Absent
<1>3. CASE Load(p, j)
  BY <1>3 DEF Load, Begin, TypeOK, Saving
<1> QED BY <1>1, <1>2, <1>3

LEMMA TickMoves ==
  ASSUME TypeOK, Tick
  PROVE  /\ pc' = pc /\ job' = job /\ crashes' = crashes
         /\ \A k \in Jobs : store'[k].state = store[k].state
  BY AgedLegal DEF Tick, TypeOK

\* The places and jobs of the processes, and nobody submits what is present.
Manned == Roles /\ Known /\ OnlyCrashStrandsSubmission

LEMMA InitManned == Init => Manned
  BY DEF Init, Manned, Roles, Known, OnlyCrashStrandsSubmission, Saving, Procs,
         NoRecord, Absent

LEMMA SubmitterManned ==
  ASSUME TypeOK, IInv, Manned, NEW p \in Submitters,
         (\E j \in Jobs : EnqueueFind(p, j)) \/ SubmitterStep(p)
  PROVE  Manned'
<1> p \in Procs /\ copy[p] \in Record /\ Fits(p, copy[p], pc[p])
  BY DEF Procs, TypeOK, IInv
<1>1. CASE \E j \in Jobs : EnqueueFind(p, j)
  <2>1. PICK j \in Jobs : EnqueueFind(p, j)
    BY <1>1
  <2>2. /\ pc[p] = "idle" /\ pc' = [pc EXCEPT ![p] = "save_created"]
        /\ job' = [job EXCEPT ![p] = j] /\ store' = store /\ crashes' = crashes
    BY <2>1 DEF EnqueueFind, Begin
  <2>3. Roles' /\ Known'
    BY <2>2 DEF Manned, Roles, Known, Saving, TypeOK
  <2>4. OnlyCrashStrandsSubmission'
    BY <2>2 DEF Manned, OnlyCrashStrandsSubmission, Submitting, TypeOK, Procs
  <2> QED BY <2>3, <2>4 DEF Manned
<1>2. CASE EnqueueSaveCreated(p)
  <2>1. /\ pc[p] = "save_created" /\ pc' = [pc EXCEPT ![p] = "save_queued"]
        /\ job' = job /\ crashes' = crashes
        /\ store' = [store EXCEPT ![job[p]] = copy[p]] /\ copy[p].state = "CREATED"
    BY <1>2 DEF EnqueueSaveCreated, SaveAndGo, Fits
  <2>2. Roles' /\ Known'
    BY <2>1 DEF Manned, Roles, Known, Saving, TypeOK, Absent
  <2>3. OnlyCrashStrandsSubmission'
    BY <2>1 DEF Manned, OnlyCrashStrandsSubmission, Submitting, TypeOK, Procs
  <2> QED BY <2>2, <2>3 DEF Manned
<1>3. CASE EnqueueSaveQueued(p)
  <2> DEFINE r == Moved(copy[p], "QUEUED")
  <2>1. /\ pc[p] = "save_queued" /\ pc' = [pc EXCEPT ![p] = "idle"]
        /\ job' = [job EXCEPT ![p] = NoJob] /\ crashes' = crashes
        /\ store' = [store EXCEPT ![job[p]] = r] /\ r.state = "QUEUED"
    BY <1>3 DEF EnqueueSaveQueued, SaveAndReturn, Forget, Moved, Record
  <2> HIDE DEF r
  <2>2. Roles' /\ Known'
    BY <2>1 DEF Manned, Roles, Known, Saving, TypeOK, Absent
  <2>3. OnlyCrashStrandsSubmission'
    BY <2>1 DEF Manned, OnlyCrashStrandsSubmission, Submitting, TypeOK, Procs
  <2> QED BY <2>2, <2>3 DEF Manned
<1> QED BY <1>1, <1>2, <1>3 DEF SubmitterStep

LEMMA OperatorManned ==
  ASSUME TypeOK, IInv, Manned, NEW p \in Operators,
         \/ WorkerStep(p) \/ RenewLease(p) \/ SaveCheckpoint(p)
         \/ RecoveryStep(p) \/ HeldStep(p)
  PROVE  Manned'
<1>1. /\ pc[p] \notin Saving \cup {"idle"} /\ pc'[p] \notin Saving
      /\ pc'[p] = "idle" \/ job'[p] = job[p]
      /\ \A q \in Procs : q # p => pc'[q] = pc[q] /\ job'[q] = job[q]
      /\ \A k \in Jobs : \/ store'[k].state = store[k].state
                         \/ k = job[p] /\ store'[k].state \notin {Absent, "CREATED"}
      /\ crashes' = crashes
  BY OperatorWrites
<1>2. p \in Procs /\ job[p] \in Jobs
  BY <1>1 DEF Procs, TypeOK
<1>3. \A k \in Jobs : store[k].state # Absent => store'[k].state # Absent
  BY <1>1
<1>4. Roles'
  BY <1>1, <1>2 DEF Manned, Roles
<1>5. Known'
  BY <1>1, <1>2, <1>3 DEF Manned, Known, Saving, TypeOK
<1>6. OnlyCrashStrandsSubmission'
  BY <1>1, <1>2 DEF Manned, OnlyCrashStrandsSubmission, Submitting, Saving, Procs
<1> QED BY <1>4, <1>5, <1>6 DEF Manned

LEMMA NextManned ==
  ASSUME TypeOK, IInv, Manned, [Next]_vars
  PROVE  Manned'
<1>1. CASE \E p \in Submitters : (\E j \in Jobs : EnqueueFind(p, j)) \/ SubmitterStep(p)
  BY <1>1, SubmitterManned
<1>2. CASE \E p \in Operators, j \in Jobs :
             GetNextQueued(p, j) \/ RecoverLoad(p, j) \/ Load(p, j)
  <2>1. PICK p \in Operators, j \in Jobs :
          GetNextQueued(p, j) \/ RecoverLoad(p, j) \/ Load(p, j)
    BY <1>2
  <2>2. /\ pc[p] = "idle" /\ pc'[p] \notin Saving \cup {"idle"}
        /\ job'[p] = j /\ store[j].state # Absent
        /\ \A q \in Procs : q # p => pc'[q] = pc[q] /\ job'[q] = job[q]
        /\ store' = store /\ crashes' = crashes
    BY <2>1, LoadMoves
  <2>3. Roles' /\ Known'
    BY <2>2 DEF Manned, Roles, Known
  <2>4. OnlyCrashStrandsSubmission'
    BY <2>2 DEF Manned, OnlyCrashStrandsSubmission, Submitting, Procs
  <2> QED BY <2>3, <2>4 DEF Manned
<1>3. CASE \E p \in Operators :
             \/ WorkerStep(p) \/ RenewLease(p) \/ SaveCheckpoint(p)
             \/ RecoveryStep(p) \/ HeldStep(p)
  BY <1>3, OperatorManned
<1>4. CASE \E p \in Procs : Crash(p)
  <2>1. PICK p \in Procs : Crash(p)
    BY <1>4
  <2>2. /\ pc' = [pc EXCEPT ![p] = "idle"] /\ job' = [job EXCEPT ![p] = NoJob]
        /\ store' = store /\ crashes' # 0
    BY <2>1, ConstantsOK DEF Crash, Forget, TypeOK
  <2>3. Roles' /\ Known'
    BY <2>2 DEF Manned, Roles, Known, Saving, TypeOK
  <2> QED BY <2>2, <2>3 DEF Manned, OnlyCrashStrandsSubmission
<1>5. CASE Tick
  BY <1>5, TickMoves DEF Manned, Roles, Known, OnlyCrashStrandsSubmission, Submitting, TypeOK
<1>6. CASE UNCHANGED vars
  BY <1>6 DEF vars, Manned, Roles, Known, OnlyCrashStrandsSubmission, Submitting
<1> QED BY <1>1, <1>2, <1>3, <1>4, <1>5, <1>6 DEF Next

LEMMA MannedInvariance == Spec => [](TypeOK /\ IInv /\ Manned)
<1>1. TypeOK /\ IInv /\ Manned /\ [Next]_vars => (TypeOK /\ IInv /\ Manned)'
  BY NextInv, NextManned
<1> QED BY InitInv, InitManned, <1>1, PTL DEF Spec

\* A job that is on disk as CREATED has its submitter still at it, unless some
\* process has died: whatever any number of others load, cancel, renew or save
\* between the two saves of enqueue, none of them leaves it there.
THEOREM NothingElseStrands == Spec => []OnlyCrashStrandsSubmission
<1>1. Manned => OnlyCrashStrandsSubmission
  BY DEF Manned
<1> QED BY <1>1, MannedInvariance, PTL

-----------------------------------------------------------------------------
(* Idempotency keys, when one process submits.                               *)

OneSubmitter == \A p, q \in Submitters : p = q

\* What find_by_idempotency_key found is still so when the record is saved.
KeyIsFree ==
  \A s \in Procs : pc[s] = "save_created" =>
    \A k \in Jobs : store[k].state # Absent /\ KeyOf[k] = KeyOf[job[s]]
      => KeyOf[k] = NoKey

\* A step that brings no record into being keeps the keys apart.
LEMMA NoNewRecord ==
  ASSUME KeyIsFree, OneJobPerKey,
         \A k \in Jobs : store[k].state = Absent => store'[k].state = Absent,
         \A s \in Procs : pc'[s] = "save_created" =>
           pc[s] = "save_created" /\ job'[s] = job[s]
  PROVE  KeyIsFree' /\ OneJobPerKey'
<1>1. KeyIsFree'
  BY DEF KeyIsFree
<1>2. OneJobPerKey'
  BY DEF OneJobPerKey
<1> QED BY <1>1, <1>2

LEMMA SubmitterKeys ==
  ASSUME OneSubmitter, TypeOK, IInv, Manned, KeyIsFree, OneJobPerKey,
         NEW p \in Submitters,
         (\E j \in Jobs : EnqueueFind(p, j)) \/ SubmitterStep(p)
  PROVE  KeyIsFree' /\ OneJobPerKey'
<1> p \in Procs
  BY DEF Procs
<1>1. CASE \E j \in Jobs : EnqueueFind(p, j)
  <2>1. PICK j \in Jobs : EnqueueFind(p, j)
    BY <1>1
  <2>2. /\ pc' = [pc EXCEPT ![p] = "save_created"] /\ store' = store
        /\ job' = [job EXCEPT ![p] = j]
        /\ \A k \in Jobs : store[k].state # Absent /\ KeyOf[k] = KeyOf[j]
             => KeyOf[k] = NoKey
    BY <2>1 DEF EnqueueFind, Begin
  <2>3. KeyIsFree'
    BY <2>2 DEF KeyIsFree, TypeOK
  <2>4. OneJobPerKey'
    BY <2>2 DEF OneJobPerKey
  <2> QED BY <2>3, <2>4
<1>2. CASE EnqueueSaveCreated(p)
  <2>1. /\ pc[p] = "save_created" /\ pc' = [pc EXCEPT ![p] = "save_queued"]
        /\ job[p] \in Jobs /\ store' = [store EXCEPT ![job[p]] = copy[p]]
    BY <1>2 DEF EnqueueSaveCreated, SaveAndGo, TypeOK
  <2>2. \A s \in Procs : pc'[s] # "save_created"
    BY <2>1 DEF OneSubmitter, Manned, Roles, Saving, TypeOK
  <2>3. KeyIsFree'
    BY <2>2 DEF KeyIsFree
  <2>4. \A k \in Jobs : store[k].state # Absent /\ KeyOf[k] = KeyOf[job[p]]
          => KeyOf[k] = NoKey
    BY <2>1 DEF KeyIsFree
  <2>5. OneJobPerKey'
    BY <2>1, <2>4 DEF OneJobPerKey, TypeOK
  <2> QED BY <2>3, <2>5
<1>3. CASE EnqueueSaveQueued(p)
  <2>1. /\ pc[p] = "save_queued" /\ pc' = [pc EXCEPT ![p] = "idle"]
        /\ job' = [job EXCEPT ![p] = NoJob]
        /\ \E r : store' = [store EXCEPT ![job[p]] = r]
    BY <1>3 DEF EnqueueSaveQueued, SaveAndReturn, Forget
  <2>2. store[job[p]].state # Absent
    BY <2>1 DEF Manned, Known
  <2>3. \A k \in Jobs : store[k].state = Absent => store'[k].state = Absent
    BY <2>1, <2>2 DEF TypeOK
  <2>4. \A s \in Procs : pc'[s] = "save_created" =>
          pc[s] = "save_created" /\ job'[s] = job[s]
    BY <2>1 DEF TypeOK
  <2> QED BY <2>3, <2>4, NoNewRecord
<1> QED BY <1>1, <1>2, <1>3 DEF SubmitterStep

LEMMA NextKeys ==
  ASSUME OneSubmitter, TypeOK, IInv, Manned, KeyIsFree, OneJobPerKey, [Next]_vars
  PROVE  KeyIsFree' /\ OneJobPerKey'
<1>1. CASE \E p \in Submitters : (\E j \in Jobs : EnqueueFind(p, j)) \/ SubmitterStep(p)
  BY <1>1, SubmitterKeys
<1>2. CASE \E p \in Operators, j \in Jobs :
             GetNextQueued(p, j) \/ RecoverLoad(p, j) \/ Load(p, j)
  BY <1>2, LoadMoves, NoNewRecord DEF Saving
<1>3. CASE \E p \in Operators :
             \/ WorkerStep(p) \/ RenewLease(p) \/ SaveCheckpoint(p)
             \/ RecoveryStep(p) \/ HeldStep(p)
  <2>1. PICK p \in Operators :
             \/ WorkerStep(p) \/ RenewLease(p) \/ SaveCheckpoint(p)
             \/ RecoveryStep(p) \/ HeldStep(p)
    BY <1>3
  <2>2. /\ pc[p] \notin Saving \cup {"idle"} /\ pc'[p] \notin Saving
        /\ \A q \in Procs : q # p => pc'[q] = pc[q] /\ job'[q] = job[q]
        /\ \A k \in Jobs : store'[k].state = store[k].state \/ k = job[p]
    BY <2>1, OperatorWrites
  <2>3. store[job[p]].state # Absent
    BY <2>2 DEF Manned, Known, Saving, Procs
  <2> QED BY <2>2, <2>3, NoNewRecord DEF Saving
<1>4. CASE \E p \in Procs : Crash(p)
  BY <1>4, NoNewRecord DEF Crash, Forget, TypeOK
<1>5. CASE Tick
  BY <1>5, TickMoves, NoNewRecord
<1>6. CASE UNCHANGED vars
  BY <1>6, NoNewRecord DEF vars
<1> QED BY <1>1, <1>2, <1>3, <1>4, <1>5, <1>6 DEF Next

\* With one submitter, an idempotency key names one job, whatever any number of
\* operators do to the records and wherever anyone dies: nothing an operator
\* saves brings a job into being, and no record disappears.  Two submitters can
\* both find nothing before either saves.
THEOREM KeysAreUnique ==
  ASSUME OneSubmitter
  PROVE  Spec => []OneJobPerKey
<1>1. Init => KeyIsFree /\ OneJobPerKey
  BY DEF Init, KeyIsFree, OneJobPerKey, NoRecord, Absent
<1>2. TypeOK /\ IInv /\ Manned /\ KeyIsFree /\ OneJobPerKey /\ [Next]_vars
        => (TypeOK /\ IInv /\ Manned /\ KeyIsFree /\ OneJobPerKey)'
  BY NextInv, NextManned, NextKeys
<1> QED BY InitInv, InitManned, <1>1, <1>2, PTL DEF Spec
=============================================================================
