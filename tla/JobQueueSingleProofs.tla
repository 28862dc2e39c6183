------------------------ MODULE JobQueueSingleProofs ------------------------
(***************************************************************************)
(* Proofs about JobQueue when one operator process works on the store,     *)
(* beside any number of submitters.  The invariant SInv says which store   *)
(* states an enqueue in progress can see and what the operator may hold    *)
(* meanwhile; NoStaleCopy is a part of it and is not inductive without the *)
(* rest.                                                                   *)
(***************************************************************************)
EXTENDS JobQueueProofs

SingleOperator == \A p, q \in Operators : p = q

\* Before its first save, a submission is known to nobody else.
Unseen ==
  \A s, p \in Procs : pc[s] = "save_created" =>
    /\ store[job[s]].state = Absent
    /\ pc[p] # "idle" /\ job[p] = job[s] => p = s

\* Between its two saves, others can load it and cancel it, but nobody owns it.
HalfSeen ==
  \A s, p \in Procs : pc[s] = "save_queued" =>
    /\ store[job[s]].state \in {"CREATED", "CANCELLED"}
    /\ store[job[s]].worker = NoWorker
    /\ pc[p] # "idle" /\ job[p] = job[s] /\ p # s =>
         /\ pc[p] = "held" /\ copy[p].state \in {"CREATED", "CANCELLED"}
         /\ copy[p].worker = NoWorker

\* A job loaded as CREATED has gone no further than into the queue.
CreatedAtMostQueued ==
  \A p \in Operators : pc[p] = "held" /\ copy[p].state = "CREATED" =>
    store[job[p]].state \in {"CREATED", "QUEUED"}

\* A record with an owner is never a stale copy, so a renewal is not one.
OwnedIsFresh ==
  \A p \in Operators : pc[p] # "idle" /\ copy[p].worker # NoWorker =>
    copy[p] = store[job[p]]

SInv ==
  /\ Roles /\ Unseen /\ HalfSeen /\ CreatedAtMostQueued
  /\ OwnedIsFresh /\ NoStaleCopy

-----------------------------------------------------------------------------
\* Nobody is submitting the job an operator is past loading.
LEMMA NotBeingSubmitted ==
  ASSUME TypeOK, SInv, NEW p \in Operators, pc[p] \notin Saving \cup {"idle"},
         \/ ~(pc[p] = "held" /\ copy[p].state \in {"CREATED", "CANCELLED"})
         \/ copy[p].worker # NoWorker
  PROVE  \A s \in Procs : pc[s] \in Saving => job[s] # job[p]
  BY DEF SInv, Unseen, HalfSeen, Saving, Procs

LEMMA SaveAndGoSInv ==
  ASSUME SingleOperator, TypeOK, SInv, NEW p \in Operators,
         pc[p] \notin Saving \cup {"idle"},
         \A s \in Procs : pc[s] \in Saving => job[s] # job[p],
         NEW r, NEW n \in PC, n \notin Saving \cup {"idle"},
         n = "held" => r.state # "CREATED", SaveAndGo(p, r, n)
  PROVE  SInv'
<1>1. /\ p \in Procs /\ job[p] \in Jobs /\ job' = job
      /\ pc' = [pc EXCEPT ![p] = n] /\ copy' = [copy EXCEPT ![p] = r]
      /\ store' = [store EXCEPT ![job[p]] = r]
  BY DEF Procs, TypeOK, SaveAndGo
<1>2. Roles'
  BY <1>1 DEF SInv, Roles, TypeOK, Saving
<1>3. Unseen'
  BY <1>1 DEF SInv, Unseen, TypeOK, Saving
<1>4. HalfSeen'
  BY <1>1 DEF SInv, HalfSeen, TypeOK, Saving
<1>5. CreatedAtMostQueued' /\ OwnedIsFresh' /\ NoStaleCopy'
  BY <1>1 DEF SingleOperator, CreatedAtMostQueued, OwnedIsFresh, NoStaleCopy, TypeOK, Procs
<1> QED BY <1>2, <1>3, <1>4, <1>5 DEF SInv

LEMMA SaveAndReturnSInv ==
  ASSUME SingleOperator, TypeOK, SInv, NEW p \in Operators,
         pc[p] \notin Saving \cup {"idle"}, NEW r \in Record,
         \/ \A s \in Procs : pc[s] \in Saving => job[s] # job[p]
         \/ r.state = "CANCELLED" /\ r.worker = copy[p].worker,
         SaveAndReturn(p, r)
  PROVE  SInv'
<1>1. /\ p \in Procs /\ job[p] \in Jobs /\ job' = [job EXCEPT ![p] = NoJob]
      /\ pc' = [pc EXCEPT ![p] = "idle"] /\ copy' = [copy EXCEPT ![p] = NoRecord]
      /\ store' = [store EXCEPT ![job[p]] = r]
  BY DEF Procs, TypeOK, SaveAndReturn, Forget
<1>2. Roles'
  BY <1>1 DEF SInv, Roles, TypeOK, Saving
<1>3. Unseen'
  BY <1>1 DEF SInv, Unseen, TypeOK, Saving
<1>4. HalfSeen'
  BY <1>1 DEF SInv, HalfSeen, TypeOK, Saving
<1>5. CreatedAtMostQueued' /\ OwnedIsFresh' /\ NoStaleCopy'
  BY <1>1 DEF SingleOperator, CreatedAtMostQueued, OwnedIsFresh, NoStaleCopy, TypeOK, Procs
<1> QED BY <1>2, <1>3, <1>4, <1>5 DEF SInv

LEMMA ForgetSInv ==
  ASSUME TypeOK, SInv, NEW p \in Procs, Forget(p), store' = store
  PROVE  SInv'
<1>1. /\ job' = [job EXCEPT ![p] = NoJob] /\ pc' = [pc EXCEPT ![p] = "idle"]
      /\ copy' = [copy EXCEPT ![p] = NoRecord]
  BY DEF Forget
<1>2. Roles' /\ Unseen' /\ HalfSeen'
  BY <1>1 DEF SInv, Roles, Unseen, HalfSeen, TypeOK, Saving
<1>3. CreatedAtMostQueued' /\ OwnedIsFresh' /\ NoStaleCopy'
  BY <1>1 DEF SInv, CreatedAtMostQueued, OwnedIsFresh, NoStaleCopy, TypeOK, Procs
<1> QED BY <1>2, <1>3 DEF SInv

LEMMA SubmitterSInv ==
  ASSUME TypeOK, IInv, SInv, NEW p \in Submitters,
         (\E j \in Jobs : EnqueueFind(p, j)) \/ SubmitterStep(p)
  PROVE  SInv'
<1> p \in Procs
  BY DEF Procs
<1>1. CASE \E j \in Jobs : EnqueueFind(p, j)
  <2>1. PICK j \in Jobs : EnqueueFind(p, j)
    BY <1>1
  <2>2. /\ store[j].state = Absent /\ \A q \in Procs : job[q] # j
        /\ store' = store /\ job' = [job EXCEPT ![p] = j] /\ pc[p] = "idle"
        /\ pc' = [pc EXCEPT ![p] = "save_created"]
        /\ copy' = [copy EXCEPT ![p] = NewRecord]
    BY <2>1 DEF EnqueueFind, Begin
  <2>3. Roles' /\ Unseen' /\ HalfSeen'
    BY <2>2 DEF SInv, Roles, Unseen, HalfSeen, TypeOK, Saving
  <2>4. NewRecord.state = "CREATED" /\ NewRecord.worker = NoWorker
    BY DEF NewRecord, NoRecord
  <2>5. CreatedAtMostQueued' /\ OwnedIsFresh' /\ NoStaleCopy'
    BY <2>2, <2>4 DEF SInv, CreatedAtMostQueued, OwnedIsFresh, NoStaleCopy, TypeOK, Procs
  <2> QED BY <2>3, <2>5 DEF SInv
<1>2. CASE EnqueueSaveCreated(p)
  <2>1. /\ pc[p] = "save_created" /\ copy[p].state = "CREATED" /\ job[p] \in Jobs
        /\ store' = [store EXCEPT ![job[p]] = copy[p]] /\ job' = job
        /\ pc' = [pc EXCEPT ![p] = "save_queued"] /\ copy' = copy
    BY <1>2 DEF EnqueueSaveCreated, SaveAndGo, IInv, Fits, TypeOK
  <2>2. copy[p].worker = NoWorker
    BY <2>1 DEF IInv, Legal
  <2>3. Roles' /\ Unseen' /\ HalfSeen'
    BY <2>1, <2>2 DEF SInv, Roles, Unseen, HalfSeen, TypeOK, Saving
  <2>4. CreatedAtMostQueued' /\ OwnedIsFresh' /\ NoStaleCopy'
    BY <2>1 DEF SInv, Unseen, CreatedAtMostQueued, OwnedIsFresh, NoStaleCopy, TypeOK, Procs
  <2> QED BY <2>3, <2>4 DEF SInv
<1>3. CASE EnqueueSaveQueued(p)
  <2> DEFINE r == Moved(copy[p], "QUEUED")
  <2>1. /\ pc[p] = "save_queued" /\ job[p] \in Jobs
        /\ store' = [store EXCEPT ![job[p]] = r]
        /\ job' = [job EXCEPT ![p] = NoJob]
        /\ pc' = [pc EXCEPT ![p] = "idle"] /\ copy' = [copy EXCEPT ![p] = NoRecord]
    BY <1>3 DEF EnqueueSaveQueued, SaveAndReturn, Forget, TypeOK
  <2>2. r.state = "QUEUED"
    BY DEF Moved, TypeOK, Record
  <2> HIDE DEF r
  <2>3. Roles' /\ Unseen' /\ HalfSeen'
    BY <2>1 DEF SInv, Roles, Unseen, HalfSeen, TypeOK, Saving
  <2>4. CreatedAtMostQueued' /\ OwnedIsFresh' /\ NoStaleCopy'
    BY <2>1, <2>2 DEF SInv, HalfSeen, CreatedAtMostQueued, OwnedIsFresh, NoStaleCopy, TypeOK, Procs
  <2> QED BY <2>3, <2>4 DEF SInv
<1> QED BY <1>1, <1>2, <1>3 DEF SubmitterStep

LEMMA BeginSInv ==
  ASSUME TypeOK, SInv, NEW p \in Operators, NEW j \in Jobs,
         NEW n \in PC, n \notin Saving \cup {"idle"},
         store[j].state # Absent,
         n # "held" => store[j].state \notin {"CREATED", "CANCELLED"},
         Begin(p, j, store[j], n)
  PROVE  SInv'
<1>1. /\ p \in Procs /\ pc[p] = "idle" /\ store' = store
      /\ job' = [job EXCEPT ![p] = j] /\ pc' = [pc EXCEPT ![p] = n]
      /\ copy' = [copy EXCEPT ![p] = store[j]]
  BY DEF Procs, Begin
<1>2. Roles' /\ Unseen'
  BY <1>1 DEF SInv, Roles, Unseen, TypeOK, Saving
<1>3. HalfSeen'
  BY <1>1 DEF SInv, HalfSeen, TypeOK, Saving
<1>4. CreatedAtMostQueued' /\ OwnedIsFresh' /\ NoStaleCopy'
  BY <1>1 DEF SInv, CreatedAtMostQueued, OwnedIsFresh, NoStaleCopy, TypeOK, Procs
<1> QED BY <1>2, <1>3, <1>4 DEF SInv

LEMMA OperatorSInv ==
  ASSUME SingleOperator, TypeOK, IInv, SInv, NEW p \in Operators,
         \/ WorkerStep(p) \/ RenewLease(p) \/ SaveCheckpoint(p)
         \/ RecoveryStep(p) \/ HeldStep(p)
  PROVE  SInv'
<1> p \in Procs /\ copy[p] \in Record /\ Fits(p, copy[p], pc[p])
  BY DEF Procs, TypeOK, IInv
<1>1. CASE \/ Assign(p) \/ StartExecution(p) \/ WorkReturns(p)
           \/ SaveCheckpoint(p) \/ RecoverFail(p)
  <2>1. pc[p] \notin Saving \cup {"idle", "held"}
    BY <1>1 DEF Assign, StartExecution, WorkReturns, SaveCheckpoint,
                RecoverFail, Saving
  <2>2. \A s \in Procs : pc[s] \in Saving => job[s] # job[p]
    BY <2>1, NotBeingSubmitted
  <2>3. \E r, n : n \in PC /\ n \notin Saving \cup {"idle", "held"} /\ SaveAndGo(p, r, n)
    <3>1. CASE Assign(p)
      BY <3>1 DEF Assign, PC, Saving
    <3>2. CASE StartExecution(p)
      BY <3>2 DEF StartExecution, PC, Saving
    <3>3. CASE WorkReturns(p)
      BY <3>3 DEF WorkReturns, PC, Saving
    <3>4. CASE SaveCheckpoint(p)
      BY <3>4 DEF SaveCheckpoint, PC, Saving
    <3>5. CASE RecoverFail(p)
      BY <3>5 DEF RecoverFail, PC, Saving
    <3> QED BY <1>1, <3>1, <3>2, <3>3, <3>4, <3>5
  <2> QED BY <2>1, <2>2, <2>3, SaveAndGoSInv
<1>2. CASE \/ RefuseUnauthorized(p) \/ WorkFails(p) \/ CompleteExecution(p)
           \/ RecoverRetry(p) \/ RetryHeld(p) \/ ValidateSave(p)
           \/ ResumeFromCheckpoint(p)
  <2>1. /\ pc[p] \notin Saving \cup {"idle"}
        /\ ~(pc[p] = "held" /\ copy[p].state \in {"CREATED", "CANCELLED"})
    BY <1>2 DEF RefuseUnauthorized, WorkFails, CompleteExecution, RecoverRetry,
                RetryHeld, ScheduleRetry, ValidateSave, ResumeFromCheckpoint, Saving
  <2>2. \A s \in Procs : pc[s] \in Saving => job[s] # job[p]
    BY <2>1, NotBeingSubmitted
  <2>3. TypeOK'
    BY <1>2, WorkerInv, RecoveryInv, HeldInv DEF WorkerStep, RecoveryStep, HeldStep
  <2>4. \E r : SaveAndReturn(p, r)
    BY <1>2 DEF RefuseUnauthorized, WorkFails, CompleteExecution, RecoverRetry,
                RetryHeld, ScheduleRetry, ValidateSave, ResumeFromCheckpoint
  <2>5. PICK r : SaveAndReturn(p, r)
    BY <2>4
  <2>6. r \in Record
    BY <2>1, <2>3, <2>5 DEF SaveAndReturn, TypeOK
  <2> QED BY <2>1, <2>2, <2>5, <2>6, SaveAndReturnSInv
<1>3. CASE Cancel(p)
  <2> DEFINE r == [copy[p] EXCEPT !.state = CancelTarget(@), !.lease = NoLease]
  <2>1. copy[p].state \in JobState
    BY <1>3 DEF Cancel, Fits, Record
  <2>2. CancelTarget(copy[p].state) = "CANCELLED"
    BY <1>3, <2>1, CancelOnlyEarly DEF Cancel
  <2>3. r \in Record /\ r.state = "CANCELLED" /\ r.worker = copy[p].worker
    BY <2>2 DEF Record, JobState
  <2> QED BY <1>3, <2>3, SaveAndReturnSInv DEF Cancel, Saving
<1>4. CASE ExecuteSpecificJob(p)
  <2>1. \A s \in Procs : pc[s] \in Saving => job[s] # job[p]
    BY <1>4, NotBeingSubmitted DEF ExecuteSpecificJob, Saving
  <2> QED BY <1>4, <2>1, SaveAndGoSInv DEF ExecuteSpecificJob, PC, Saving
<1>5. CASE ValidateCheck(p)
  <2>1. \A s \in Procs : pc[s] \in Saving => job[s] # job[p]
    BY <1>5, NotBeingSubmitted DEF ValidateCheck, Saving
  <2>2. /\ pc[p] = "held" /\ copy' = copy /\ store' = store /\ job' = job
        /\ \E n \in {"val_dup", "val_fresh"} : pc' = [pc EXCEPT ![p] = n]
    BY <1>5 DEF ValidateCheck
  <2>3. Roles' /\ Unseen' /\ HalfSeen'
    BY <2>1, <2>2 DEF SInv, Roles, Unseen, HalfSeen, TypeOK, Saving
  <2>4. CreatedAtMostQueued' /\ OwnedIsFresh' /\ NoStaleCopy'
    BY <2>2 DEF SInv, CreatedAtMostQueued, OwnedIsFresh, NoStaleCopy, TypeOK, Procs
  <2> QED BY <2>3, <2>4 DEF SInv
<1>6. CASE Drop(p)
  BY <1>6, ForgetSInv DEF Drop
<1>7. CASE RenewLease(p)
  <2> DEFINE r == [copy[p] EXCEPT !.lease = LeaseTicks + 1]
  <2>1. copy[p].worker # NoWorker /\ pc[p] \in {"running", "held"}
    BY <1>7, ConstantsOK DEF RenewLease
  <2>2. r.state # "CREATED"
    BY <2>1 DEF Record, TypeOK, IInv, Legal
  <2>3. \A s \in Procs : pc[s] \in Saving => job[s] # job[p]
    BY <2>1, NotBeingSubmitted DEF Saving
  <2> QED BY <1>7, <2>1, <2>2, <2>3, SaveAndGoSInv DEF RenewLease, PC, Saving
<1> QED BY <1>1, <1>2, <1>3, <1>4, <1>5, <1>6, <1>7 DEF WorkerStep, RecoveryStep, HeldStep

LEMMA NextSInv ==
  ASSUME SingleOperator, TypeOK, IInv, SInv, [Next]_vars
  PROVE  SInv'
<1>1. CASE \E p \in Submitters : (\E j \in Jobs : EnqueueFind(p, j)) \/ SubmitterStep(p)
  BY <1>1, SubmitterSInv
<1>2. CASE \E p \in Operators, j \in Jobs :
             GetNextQueued(p, j) \/ RecoverLoad(p, j) \/ Load(p, j)
  BY <1>2, BeginSInv DEF GetNextQueued, RecoverLoad, Load, PC, Saving, Absent
<1>3. CASE \E p \in Operators :
             \/ WorkerStep(p) \/ RenewLease(p) \/ SaveCheckpoint(p)
             \/ RecoveryStep(p) \/ HeldStep(p)
  BY <1>3, OperatorSInv
<1>4. CASE \E p \in Procs : Crash(p)
  BY <1>4, ForgetSInv DEF Crash
<1>5. CASE Tick
  <2>1. /\ job' = job /\ pc' = pc
        /\ \A j \in Jobs : /\ store'[j] = Aged(store[j])
                            /\ store'[j].state = store[j].state
                            /\ store'[j].worker = store[j].worker
        /\ \A p \in Procs : /\ copy'[p] = Aged(copy[p])
                             /\ copy'[p].state = copy[p].state
                             /\ copy'[p].worker = copy[p].worker
    BY <1>5, AgedLegal DEF Tick, TypeOK
  <2>2. Roles' /\ Unseen' /\ HalfSeen'
    BY <2>1 DEF SInv, Roles, Unseen, HalfSeen, TypeOK, Saving
  <2>3. CreatedAtMostQueued' /\ OwnedIsFresh' /\ NoStaleCopy'
    BY <2>1 DEF SInv, CreatedAtMostQueued, OwnedIsFresh, NoStaleCopy, TypeOK, Procs
  <2> QED BY <2>2, <2>3 DEF SInv
<1>6. CASE UNCHANGED vars
  BY <1>6 DEF vars, SInv, Roles, Unseen, HalfSeen, CreatedAtMostQueued,
     OwnedIsFresh, NoStaleCopy
<1> QED BY <1>1, <1>2, <1>3, <1>4, <1>5, <1>6 DEF Next

LEMMA InitSInv == Init => SInv
  BY DEF Init, SInv, Roles, Unseen, HalfSeen, CreatedAtMostQueued, OwnedIsFresh,
         NoStaleCopy,
         Saving, Procs

LEMMA SingleInvariance ==
  ASSUME SingleOperator
  PROVE  Spec => [](TypeOK /\ IInv /\ SInv)
<1>1. TypeOK /\ IInv /\ SInv /\ [Next]_vars => (TypeOK /\ IInv /\ SInv)'
  BY NextInv, NextSInv
<1> QED BY InitInv, InitSInv, <1>1, PTL DEF Spec

\* With one operator, however many submitters enqueue meanwhile and wherever
\* anybody dies, the record the operator holds is the stored one, unless it was
\* loaded between the two saves of an enqueue.  (The submitter's second save is
\* not an operator's: it may overwrite a cancellation.)
THEOREM OneOperatorNeverStale ==
  ASSUME SingleOperator
  PROVE  Spec => []NoStaleCopy
<1>1. SInv => NoStaleCopy
  BY DEF SInv
<1> QED BY <1>1, SingleInvariance, PTL

-----------------------------------------------------------------------------
LEMMA OperatorStepIsFinal ==
  ASSUME SingleOperator, TypeOK, IInv, SInv, NEW p \in Operators,
         \/ WorkerStep(p) \/ RenewLease(p) \/ SaveCheckpoint(p)
         \/ RecoveryStep(p) \/ HeldStep(p),
         NEW j \in Jobs
  PROVE  FinalStep(j)
<1> p \in Procs /\ copy[p] \in Record /\ Fits(p, copy[p], pc[p])
  BY DEF Procs, TypeOK, IInv
<1>1. CASE store'[j].state = store[j].state
  BY <1>1 DEF FinalStep
<1>2. CASE store'[j].state # store[j].state
  <2>1. j = job[p] /\ pc[p] # "idle"
    BY <1>2 DEF WorkerStep, RecoveryStep, HeldStep, Assign, RefuseUnauthorized,
       StartExecution, WorkReturns, WorkFails, CompleteExecution, RenewLease,
       SaveCheckpoint, RecoverFail, RecoverRetry, RetryHeld, ScheduleRetry, Cancel,
       ResumeFromCheckpoint, ExecuteSpecificJob, ValidateCheck, ValidateSave, Drop, SaveAndGo,
       SaveAndReturn, TypeOK
  <2>2. CASE Cancel(p)
    <3>1. copy[p].state \in JobState
      BY <2>2 DEF Cancel, Fits, Record
    <3>2. copy[p].state \in {"CREATED", "AUTHORIZED", "QUEUED", "ASSIGNED"}
      BY <2>2, <3>1, CancelOnlyEarly DEF Cancel
    <3>3. store[j].state \in {"CREATED", "AUTHORIZED", "QUEUED", "ASSIGNED"}
      BY <2>1, <2>2, <3>2 DEF SInv, NoStaleCopy, CreatedAtMostQueued, Cancel
    <3> QED BY <3>3 DEF FinalStep, IsTerminal, TERMINAL_STATES
  <2>3. CASE ValidateSave(p)
    <3>1. copy[p].state = "COMPLETED"
      BY <2>3 DEF ValidateSave, Fits
    <3>2. store[j].state = "COMPLETED"
      BY <2>1, <3>1 DEF SInv, NoStaleCopy
    <3>3. store'[j].state \in {"COMPLETED", "RESULT_REJECTED"}
      BY <2>1, <2>3, <3>1 DEF ValidateSave, SaveAndReturn, TypeOK, Record
    <3> QED BY <3>2, <3>3 DEF FinalStep
  <2>4. CASE RenewLease(p)
    <3>1. copy[p] = store[j]
      BY <2>1, <2>4, ConstantsOK DEF RenewLease, SInv, OwnedIsFresh
    <3>2. store'[j].state = store[j].state
      BY <2>1, <2>4, <3>1 DEF RenewLease, SaveAndGo, TypeOK, Record
    <3> QED BY <3>2 DEF FinalStep
  <2>5. CASE ~Cancel(p) /\ ~ValidateSave(p) /\ ~RenewLease(p)
    <3>1. copy[p].state \in {"QUEUED", "ASSIGNED", "RUNNING", "CHECKPOINTED",
                             "FAILED_RETRYABLE"}
      BY <1>2, <2>5 DEF WorkerStep, RecoveryStep, HeldStep, Assign, RefuseUnauthorized,
         StartExecution, WorkReturns, WorkFails, CompleteExecution, SaveCheckpoint,
         RecoverFail, RecoverRetry, RetryHeld, ScheduleRetry,
         ResumeFromCheckpoint, ExecuteSpecificJob, ValidateCheck, Drop, Fits, Executing
    <3>2. store[j].state = copy[p].state
      BY <2>1, <3>1 DEF SInv, NoStaleCopy
    <3> QED BY <3>1, <3>2 DEF FinalStep, IsTerminal, TERMINAL_STATES
  <2> QED BY <2>2, <2>3, <2>4, <2>5
<1> QED BY <1>1, <1>2

LEMMA NextIsFinal ==
  ASSUME SingleOperator, TypeOK, IInv, SInv, [Next]_vars, NEW j \in Jobs,
         ~Submitting(j)
  PROVE  FinalStep(j)
<1>1. CASE \E p \in Submitters : (\E k \in Jobs : EnqueueFind(p, k)) \/ SubmitterStep(p)
  <2>1. store'[j] = store[j]
    BY <1>1 DEF EnqueueFind, Begin, SubmitterStep, EnqueueSaveCreated,
       EnqueueSaveQueued, SaveAndGo, SaveAndReturn, Submitting, TypeOK
  <2> QED BY <2>1 DEF FinalStep
<1>2. CASE \E p \in Operators, k \in Jobs :
             GetNextQueued(p, k) \/ RecoverLoad(p, k) \/ Load(p, k)
  BY <1>2 DEF GetNextQueued, RecoverLoad, Load, Begin, FinalStep
<1>3. CASE \E p \in Operators :
             \/ WorkerStep(p) \/ RenewLease(p) \/ SaveCheckpoint(p)
             \/ RecoveryStep(p) \/ HeldStep(p)
  BY <1>3, OperatorStepIsFinal
<1>4. CASE \E p \in Procs : Crash(p)
  BY <1>4 DEF Crash, FinalStep
<1>5. CASE Tick
  BY <1>5, AgedLegal DEF Tick, TypeOK, FinalStep
<1>6. CASE UNCHANGED vars
  BY <1>6 DEF vars, FinalStep
<1> QED BY <1>1, <1>2, <1>3, <1>4, <1>5, <1>6 DEF Next

\* With one operator, a job whose enqueue has returned never leaves a terminal
\* state on disk, but for the rejection of a completed result.
THEOREM SettledStaysSettled ==
  ASSUME SingleOperator
  PROVE  Spec => SettledIsFinal
<1>1. TypeOK /\ IInv /\ SInv /\ [Next]_vars
        => [\A j \in Jobs : ~Submitting(j) => FinalStep(j)]_vars
  BY NextIsFinal
<1> QED BY <1>1, SingleInvariance, PTL DEF Spec, SettledIsFinal

-----------------------------------------------------------------------------
(* The queue worked on by one operator implements the machine of DurableJobs. *)

Shown == [j \in Jobs |-> IF Submitting(j) THEN Absent ELSE store[j].state]

\* The lifecycle manager of the specification is the one of the queue.
LEMMA SameManager ==
  /\ Durable!Absent = Absent
  /\ Durable!JobState = JobState
  /\ \A s, t : Durable!Accepts(s, t) <=> Accepts(s, t)
<1>1. Durable!ALLOWED_TRANSITIONS = ALLOWED_TRANSITIONS
  BY DEF Durable!ALLOWED_TRANSITIONS, ALLOWED_TRANSITIONS
<1>2. Durable!TERMINAL_STATES = TERMINAL_STATES
  BY DEF Durable!TERMINAL_STATES, TERMINAL_STATES
<1> QED BY <1>1, <1>2 DEF Durable!Absent, Absent, Durable!JobState, JobState,
        Durable!Accepts, Accepts, Durable!CanTransition, CanTransition

\* A save of one job, by somebody who is not submitting one, that moves the
\* stored state along one or two transitions, unless the job is being submitted.
LEMMA SaveIsTransition ==
  ASSUME TypeOK, NEW j \in Jobs, NEW r, store' = [store EXCEPT ![j] = r],
         \A k \in Jobs : Submitting(k)' <=> Submitting(k),
         r.state \in JobState,
         \/ Submitting(j)
         \/ r.state = store[j].state
         \/ store[j].state # Absent /\ Accepts(store[j].state, r.state)
         \/ /\ store[j].state # Absent
            /\ \E mid \in JobState : Accepts(store[j].state, mid) /\ Accepts(mid, r.state)
  PROVE  Durable!Next \/ Shown' = Shown
<1>1. CASE Submitting(j) \/ r.state = store[j].state
  BY <1>1 DEF Shown, TypeOK
<1> SUFFICES ASSUME ~Submitting(j) PROVE Durable!Next \/ Shown' = Shown
  BY <1>1
<1>2. Shown' = [Shown EXCEPT ![j] = r.state]
  BY DEF Shown, TypeOK
<1>3. Shown[j] = store[j].state
  BY DEF Shown
<1>4. CASE store[j].state # Absent /\ Accepts(store[j].state, r.state)
  <2>1. Durable!Transition(j, r.state)
    BY <1>2, <1>3, <1>4, SameManager DEF Durable!Transition, Shown
  <2> QED BY <2>1, SameManager DEF Durable!Next
<1>5. CASE /\ store[j].state # Absent
           /\ \E mid \in JobState : Accepts(store[j].state, mid) /\ Accepts(mid, r.state)
  <2>1. PICK mid \in JobState : Accepts(store[j].state, mid) /\ Accepts(mid, r.state)
    BY <1>5
  <2>2. Durable!DoubleTransition(j, mid)
    BY <1>2, <1>3, <1>5, <2>1, SameManager DEF Durable!DoubleTransition, Shown
  <2> QED BY <2>1, <2>2, SameManager DEF Durable!Next
<1> QED BY <1>1, <1>4, <1>5

\* A submission that ends, with its return or the death of its caller, shows
\* the job in the state it left it in; until then nobody sees it.
LEMMA SubmissionEnds ==
  ASSUME TypeOK, SInv, NEW p \in Submitters, pc[p] = "save_queued",
         pc' = [pc EXCEPT ![p] = "idle"], job' = [job EXCEPT ![p] = NoJob],
         store' \in [Jobs -> Record],
         \A k \in Jobs \ {job[p]} : store'[k] = store[k],
         store'[job[p]].state \in {"QUEUED", "CREATED", "CANCELLED"}
  PROVE  Durable!Next
<1>1. PICK j \in Jobs : j = job[p]
  BY DEF Procs, TypeOK
<1> p \in Procs
  BY DEF Procs
<1>2. Submitting(j) /\ ~Submitting(j)'
  <2>1. \A s \in Submitters : s # p => ~(pc[s] \in Saving /\ job[s] = j)
    BY <1>1 DEF SInv, HalfSeen, Procs, Saving
  <2>2. ~Submitting(j)'
    BY <1>1, <2>1 DEF Submitting, TypeOK, Procs, Saving
  <2>3. Submitting(j)
    BY <1>1 DEF Submitting
  <2> QED BY <2>2, <2>3
<1>3. \A k \in Jobs \ {j} : Submitting(k)' <=> Submitting(k)
  BY <1>1 DEF Submitting, TypeOK, Procs
<1>4. Shown[j] = Absent /\ Shown' = [Shown EXCEPT ![j] = store'[j].state]
  BY <1>1, <1>2, <1>3 DEF Shown
<1>5. Durable!Submit(j)
  BY <1>1, <1>4, SameManager DEF Durable!Submit, Shown
<1> QED BY <1>1, <1>5 DEF Durable!Next

LEMMA SubmitterImplements ==
  ASSUME TypeOK, IInv, SInv, NEW p \in Submitters,
         (\E j \in Jobs : EnqueueFind(p, j)) \/ SubmitterStep(p) \/ Crash(p)
  PROVE  Durable!Next \/ Shown' = Shown
<1> p \in Procs /\ copy[p] \in Record /\ Fits(p, copy[p], pc[p])
  BY DEF Procs, TypeOK, IInv
<1>1. CASE \E j \in Jobs : EnqueueFind(p, j)
  <2>1. PICK j \in Jobs : EnqueueFind(p, j)
    BY <1>1
  <2>2. /\ store[j].state = Absent /\ store' = store /\ pc[p] = "idle"
        /\ job' = [job EXCEPT ![p] = j] /\ pc' = [pc EXCEPT ![p] = "save_created"]
    BY <2>1 DEF EnqueueFind, Begin
  <2>3. \A k \in Jobs \ {j} : Submitting(k)' <=> Submitting(k)
    BY <2>2 DEF Submitting, TypeOK, Procs
  <2> QED BY <2>2, <2>3 DEF Shown
<1>2. CASE EnqueueSaveCreated(p)
  <2>1. /\ pc[p] = "save_created" /\ job' = job /\ job[p] \in Jobs
        /\ store' = [store EXCEPT ![job[p]] = copy[p]]
        /\ pc' = [pc EXCEPT ![p] = "save_queued"]
    BY <1>2 DEF EnqueueSaveCreated, SaveAndGo, TypeOK
  <2>2. \A k \in Jobs : Submitting(k)' <=> Submitting(k)
    BY <2>1 DEF Submitting, TypeOK, Procs
  <2>3. Submitting(job[p])
    BY <2>1 DEF Submitting
  <2> QED BY <2>1, <2>2, <2>3 DEF Shown, TypeOK
<1>3. CASE EnqueueSaveQueued(p)
  <2> DEFINE r == Moved(copy[p], "QUEUED")
  <2>1. /\ pc[p] = "save_queued" /\ pc' = [pc EXCEPT ![p] = "idle"]
        /\ job' = [job EXCEPT ![p] = NoJob] /\ job[p] \in Jobs
        /\ store' = [store EXCEPT ![job[p]] = r]
    BY <1>3 DEF EnqueueSaveQueued, SaveAndReturn, Forget, TypeOK
  <2>2. r \in Record /\ r.state = "QUEUED"
    BY DEF Moved, Record, JobState
  <2> HIDE DEF r
  <2>3. /\ store' \in [Jobs -> Record] /\ store'[job[p]].state = "QUEUED"
        /\ \A k \in Jobs \ {job[p]} : store'[k] = store[k]
    BY <2>1, <2>2 DEF TypeOK
  <2> QED BY <2>1, <2>3, SubmissionEnds
<1>4. CASE Crash(p)
  <2>1. /\ pc' = [pc EXCEPT ![p] = "idle"] /\ job' = [job EXCEPT ![p] = NoJob]
        /\ store' = store /\ pc[p] # "idle" /\ job[p] \in Jobs
    BY <1>4 DEF Crash, Forget, TypeOK
  <2>2. CASE pc[p] = "save_queued"
    <3>1. store[job[p]].state \in {"CREATED", "CANCELLED"}
      BY <2>2 DEF SInv, HalfSeen
    <3> QED BY <2>1, <2>2, <3>1, SubmissionEnds DEF TypeOK
  <2>3. CASE pc[p] # "save_queued"
    <3>1. \A k \in Jobs \ {job[p]} : Submitting(k)' <=> Submitting(k)
      BY <2>1 DEF Submitting, TypeOK, Procs
    <3>2. CASE pc[p] = "save_created"
      <4>1. store[job[p]].state = Absent
        BY <3>2 DEF SInv, Unseen
      <4> QED BY <2>1, <3>1, <4>1 DEF Shown
    <3>3. CASE pc[p] # "save_created"
      <4>1. \A k \in Jobs : Submitting(k)' <=> Submitting(k)
        BY <2>1, <2>3, <3>3 DEF Submitting, TypeOK, Procs
      <4> QED BY <2>1, <4>1 DEF Shown
    <3> QED BY <3>2, <3>3
  <2> QED BY <2>2, <2>3
<1> QED BY <1>1, <1>2, <1>3, <1>4 DEF SubmitterStep

\* What an operator does ends no submission and begins none.
LEMMA OperatorSubmitsNothing ==
  ASSUME TypeOK, NEW p \in Operators, NEW n, n \notin Saving,
         pc[p] \notin Saving, pc' = [pc EXCEPT ![p] = n],
         \A q \in Procs \ {p} : job'[q] = job[q]
  PROVE  \A k \in Jobs : Submitting(k)' <=> Submitting(k)
  BY DEF Submitting, TypeOK, Procs, Saving

LEMMA OperatorKeepsSubmissions ==
  ASSUME TypeOK, NEW p \in Operators,
         \/ WorkerStep(p) \/ RenewLease(p) \/ SaveCheckpoint(p)
         \/ RecoveryStep(p) \/ HeldStep(p)
  PROVE  \A k \in Jobs : Submitting(k)' <=> Submitting(k)
<1> DEFINE Elsewhere(n) == /\ n \notin Saving /\ pc[p] \notin Saving
                           /\ pc' = [pc EXCEPT ![p] = n]
                           /\ \A q \in Procs \ {p} : job'[q] = job[q]
<1>1. CASE Assign(p) \/ StartExecution(p) \/ WorkReturns(p) \/ SaveCheckpoint(p)
  <2>1. Elsewhere("assigned") \/ Elsewhere("running") \/ Elsewhere("result")
    BY <1>1 DEF Assign, StartExecution, WorkReturns, SaveCheckpoint, SaveAndGo, Saving
  <2> QED BY <2>1, OperatorSubmitsNothing
<1>2. CASE RecoverFail(p) \/ ExecuteSpecificJob(p) \/ RenewLease(p)
  <2>1. Elsewhere("recover_retry") \/ Elsewhere("running") \/ Elsewhere("held")
    BY <1>2 DEF RecoverFail, ExecuteSpecificJob, RenewLease, SaveAndGo, Saving
  <2> QED BY <2>1, OperatorSubmitsNothing
<1>3. CASE ValidateCheck(p)
  <2>1. Elsewhere("val_dup") \/ Elsewhere("val_fresh")
    BY <1>3 DEF ValidateCheck, Saving
  <2> QED BY <2>1, OperatorSubmitsNothing
<1>4. CASE \/ RefuseUnauthorized(p) \/ WorkFails(p) \/ CompleteExecution(p)
           \/ RecoverRetry(p) \/ RetryHeld(p) \/ ValidateSave(p)
           \/ ResumeFromCheckpoint(p) \/ Cancel(p) \/ Drop(p)
  <2>1. Forget(p) /\ pc[p] \notin Saving
    BY <1>4 DEF RefuseUnauthorized, WorkFails, CompleteExecution, RecoverRetry,
       RetryHeld, ScheduleRetry, ValidateSave, ResumeFromCheckpoint, Cancel, Drop,
       SaveAndReturn, Saving
  <2>2. Elsewhere("idle")
    BY <2>1 DEF Forget, TypeOK, Saving
  <2> QED BY <2>2, OperatorSubmitsNothing
<1> QED BY <1>1, <1>2, <1>3, <1>4 DEF WorkerStep, RecoveryStep, HeldStep

\* Each save of an operator is a transition, two, or none, or hidden by the
\* submission it falls into.
LEMMA OperatorImplements ==
  ASSUME TypeOK, IInv, SInv, NEW p \in Operators,
         \/ WorkerStep(p) \/ RenewLease(p) \/ SaveCheckpoint(p)
         \/ RecoveryStep(p) \/ HeldStep(p)
  PROVE  Durable!Next \/ Shown' = Shown
<1> DEFINE Implemented == Durable!Next \/ Shown' = Shown
           s == copy[p].state
<1> p \in Procs /\ copy[p] \in Record /\ Fits(p, copy[p], pc[p])
  BY DEF Procs, TypeOK, IInv
<1> SUFFICES Implemented
  OBVIOUS
<1>0. \A k \in Jobs : Submitting(k)' <=> Submitting(k)
  BY OperatorKeepsSubmissions
\* What is left to show of a save: the state it writes follows the one in hand,
\* which is the stored one.
<1>1. ASSUME NEW r, pc[p] # "idle",
             s \notin {"CREATED", "CANCELLED"} \/ copy[p].worker # NoWorker,
             store' = [store EXCEPT ![job[p]] = r], r.state \in JobState,
             \/ r.state = s
             \/ s # Absent /\ Accepts(s, r.state)
             \/ s # Absent /\ \E mid \in JobState : Accepts(s, mid) /\ Accepts(mid, r.state)
      PROVE  Implemented
  <2>1. job[p] \in Jobs /\ store[job[p]].state = s
    BY <1>1 DEF TypeOK, SInv, NoStaleCopy, OwnedIsFresh
  <2> QED BY <1>0, <1>1, <2>1, SaveIsTransition
<1>2. ASSUME store' = store PROVE Implemented
  BY <1>0, <1>2 DEF Shown
<1> HIDE DEF Implemented
<1>3. CASE Assign(p)
  <2> DEFINE r == [copy[p] EXCEPT !.state = "ASSIGNED", !.worker = p,
                                  !.lease = LeaseTicks + 1]
  <2>1. r.state = "ASSIGNED"
    BY DEF Record
  <2>2. store' = [store EXCEPT ![job[p]] = r] /\ pc[p] = "claimed"
    BY <1>3 DEF Assign, SaveAndGo
  <2>3. s = "QUEUED" /\ s # Absent /\ Accepts(s, "ASSIGNED")
    BY <1>3 DEF Assign, Absent
  <2> HIDE DEF r
  <2> QED BY <1>1, <2>1, <2>2, <2>3 DEF JobState
<1>4. CASE StartExecution(p) \/ ExecuteSpecificJob(p) \/ ResumeFromCheckpoint(p)
  <2> DEFINE r == Moved(copy[p], "RUNNING")
  <2>1. r.state = "RUNNING"
    BY DEF Moved, Record
  <2>2. /\ store' = [store EXCEPT ![job[p]] = r]
        /\ pc[p] \in {"assigned", "held"}
    BY <1>4 DEF StartExecution, ExecuteSpecificJob, ResumeFromCheckpoint,
                SaveAndGo, SaveAndReturn
  <2>3. s \in {"ASSIGNED", "CHECKPOINTED"} /\ s # Absent /\ Accepts(s, "RUNNING")
    BY <1>4 DEF StartExecution, ExecuteSpecificJob, ResumeFromCheckpoint, Absent
  <2> HIDE DEF r
  <2> QED BY <1>1, <2>1, <2>2, <2>3 DEF JobState
<1>5. CASE WorkReturns(p) \/ RenewLease(p)
  <2>1. PICK r : /\ store' = [store EXCEPT ![job[p]] = r]
                 /\ r.state = s
    BY <1>5 DEF WorkReturns, RenewLease, SaveAndGo, Record
  <2>2. pc[p] \in {"running", "held"}
    BY <1>5 DEF WorkReturns, RenewLease
  <2>3. s \in JobState
    BY <2>2 DEF Fits, Record, JobState, Absent
  <2>4. s \notin {"CREATED", "CANCELLED"} \/ copy[p].worker # NoWorker
    <3>1. CASE WorkReturns(p)
      BY <3>1 DEF WorkReturns, Fits
    <3>2. CASE RenewLease(p)
      BY <3>2, ConstantsOK DEF RenewLease
    <3> QED BY <1>5, <3>1, <3>2
  <2> QED BY <1>1, <2>1, <2>2, <2>3, <2>4
<1>6. CASE SaveCheckpoint(p)
  <2> DEFINE r == Moved(copy[p], "CHECKPOINTED")
  <2>1. r.state = "CHECKPOINTED"
    BY DEF Moved, Record
  <2>2. store' = [store EXCEPT ![job[p]] = r] /\ pc[p] = "running"
    BY <1>6 DEF SaveCheckpoint, SaveAndGo
  <2>3. s \in {"RUNNING", "CHECKPOINTED"}
    BY <2>2 DEF Fits
  <2>4. Accepts("RUNNING", "CHECKPOINTED")
    BY DEF Accepts, CanTransition, ALLOWED_TRANSITIONS, TERMINAL_STATES
  <2> HIDE DEF r
  <2> QED BY <1>1, <2>1, <2>2, <2>3, <2>4 DEF JobState, Absent
<1>7. CASE RefuseUnauthorized(p) \/ WorkFails(p)
  <2>1. PICK terminal \in BOOLEAN :
          /\ SaveAndReturn(p, MarkedFailed(copy[p], terminal))
          /\ Accepts(s, IF terminal THEN "FAILED_TERMINAL" ELSE "FAILED_RETRYABLE")
    BY <1>7 DEF RefuseUnauthorized, WorkFails
  <2> DEFINE r == MarkedFailed(copy[p], terminal)
  <2>2. r.state = IF terminal THEN "FAILED_TERMINAL" ELSE "FAILED_RETRYABLE"
    BY DEF MarkedFailed, Record
  <2>3. pc[p] \in {"assigned", "running"} /\ store' = [store EXCEPT ![job[p]] = r]
    BY <1>7, <2>1 DEF RefuseUnauthorized, WorkFails, SaveAndReturn
  <2>4. s \in {"ASSIGNED", "RUNNING", "CHECKPOINTED"} /\ s # Absent
    BY <2>3 DEF Fits, Absent
  <2>5. r.state \in JobState
    BY <2>2 DEF JobState
  <2> HIDE DEF r
  <2> QED BY <1>1, <2>1, <2>2, <2>3, <2>4, <2>5
<1>8. CASE CompleteExecution(p)
  <2>1. PICK res \in Results :
          SaveAndReturn(p, [copy[p] EXCEPT !.state = "COMPLETED",
                                           !.lease = NoLease, !.result = res])
    BY <1>8 DEF CompleteExecution
  <2> DEFINE r == [copy[p] EXCEPT !.state = "COMPLETED",
                                  !.lease = NoLease, !.result = res]
  <2>2. r.state = "COMPLETED"
    BY DEF Record
  <2>3. store' = [store EXCEPT ![job[p]] = r] /\ pc[p] = "result"
    BY <1>8, <2>1 DEF CompleteExecution, SaveAndReturn
  <2>4. s = "RUNNING" /\ s # Absent /\ Accepts(s, "COMPLETED")
    BY <1>8 DEF CompleteExecution, Absent
  <2> HIDE DEF r
  <2> QED BY <1>1, <2>2, <2>3, <2>4 DEF JobState
<1>9. CASE RecoverFail(p)
  <2> DEFINE r == [copy[p] EXCEPT !.state = "FAILED_RETRYABLE",
                                  !.lease = NoLease, !.worker = NoWorker]
  <2>1. r.state = "FAILED_RETRYABLE"
    BY DEF Record
  <2>2. store' = [store EXCEPT ![job[p]] = r] /\ pc[p] = "recover_fail"
    BY <1>9 DEF RecoverFail, SaveAndGo
  <2>3. /\ s \in {"ASSIGNED", "RUNNING"} /\ s # Absent
        /\ Accepts(s, "FAILED_RETRYABLE")
    BY <1>9, <2>2 DEF RecoverFail, Fits, Absent
  <2> HIDE DEF r
  <2> QED BY <1>1, <2>1, <2>2, <2>3 DEF JobState
<1>10. CASE RecoverRetry(p) \/ RetryHeld(p)
  <2> DEFINE r == Retried(copy[p])
  <2>1. /\ s = "FAILED_RETRYABLE" /\ Accepts(s, "FAILED_TERMINAL")
        /\ Accepts(s, "RETRY_PENDING") /\ Accepts("RETRY_PENDING", "QUEUED")
        /\ pc[p] \in {"recover_retry", "held"}
        /\ store' = [store EXCEPT ![job[p]] = r]
    BY <1>10 DEF RecoverRetry, RetryHeld, ScheduleRetry, SaveAndReturn
  <2>2. r.state \in {"FAILED_TERMINAL", "QUEUED"}
    BY DEF Retried, Moved, Record
  <2> HIDE DEF r
  <2> QED BY <1>1, <2>1, <2>2 DEF JobState, Absent
\* Loaded as CREATED and queued since, a job is cancelled all the same.
<1>11. CASE Cancel(p)
  <2> DEFINE r == [copy[p] EXCEPT !.state = CancelTarget(@), !.lease = NoLease]
  <2>1. /\ pc[p] = "held" /\ Accepts(s, CancelTarget(s)) /\ s \in JobState
        /\ store' = [store EXCEPT ![job[p]] = r]
    BY <1>11 DEF Cancel, SaveAndReturn, Fits, Record
  <2>2. s \in {"CREATED", "AUTHORIZED", "QUEUED", "ASSIGNED"} /\ CancelTarget(s) = "CANCELLED"
    BY <2>1, CancelOnlyEarly
  <2>3. r.state = "CANCELLED"
    BY <2>2 DEF Record
  <2> HIDE DEF r
  <2>4. CASE s # "CREATED"
    BY <1>1, <2>1, <2>2, <2>3, <2>4 DEF JobState, Absent
  <2>5. CASE s = "CREATED"
    <3>1. job[p] \in Jobs /\ store[job[p]].state \in {"CREATED", "QUEUED"}
      BY <2>1, <2>5 DEF TypeOK, SInv, CreatedAtMostQueued
    <3>2. Accepts("CREATED", "CANCELLED") /\ Accepts("QUEUED", "CANCELLED")
      BY DEF Accepts, CanTransition, ALLOWED_TRANSITIONS, TERMINAL_STATES
    <3> QED BY <1>0, <2>1, <2>3, <3>1, <3>2, SaveIsTransition DEF JobState, Absent, Implemented
  <2> QED BY <2>4, <2>5
<1>12. CASE ValidateSave(p)
  <2> DEFINE verdict == Verdict(job[p], copy[p], pc[p] = "val_dup")
             r == [copy[p] EXCEPT
                     !.decision = verdict,
                     !.state = IF verdict = "REJECTED" THEN "RESULT_REJECTED" ELSE @]
  <2>1. r.state = IF verdict = "REJECTED" THEN "RESULT_REJECTED" ELSE s
    BY DEF Record
  <2>2. /\ pc[p] \in {"val_fresh", "val_dup"} /\ store' = [store EXCEPT ![job[p]] = r]
        /\ verdict = "REJECTED" => Accepts(s, "RESULT_REJECTED")
    BY <1>12 DEF ValidateSave, SaveAndReturn
  <2>3. s = "COMPLETED"
    BY <2>2 DEF Fits
  <2>4. r.state \in JobState
    BY <2>1, <2>3 DEF JobState
  <2> HIDE DEF r, verdict
  <2> QED BY <1>1, <2>1, <2>2, <2>3, <2>4 DEF Absent
<1>13. CASE ValidateCheck(p) \/ Drop(p)
  BY <1>2, <1>13 DEF ValidateCheck, Drop
<1> QED BY <1>3, <1>4, <1>5, <1>6, <1>7, <1>8, <1>9, <1>10, <1>11, <1>12, <1>13
        DEF WorkerStep, RecoveryStep, HeldStep

LEMMA NextImplements ==
  ASSUME TypeOK, IInv, SInv, [Next]_vars
  PROVE  Durable!Next \/ Shown' = Shown
<1>1. CASE \E p \in Submitters :
             (\E j \in Jobs : EnqueueFind(p, j)) \/ SubmitterStep(p) \/ Crash(p)
  BY <1>1, SubmitterImplements
<1>2. CASE \E p \in Operators, j \in Jobs :
             GetNextQueued(p, j) \/ RecoverLoad(p, j) \/ Load(p, j)
  <2>1. PICK p \in Operators, j \in Jobs, n \in {"claimed", "recover_fail", "held"} :
          Begin(p, j, store[j], n)
    BY <1>2 DEF GetNextQueued, RecoverLoad, Load
  <2>2. /\ store' = store /\ pc[p] = "idle" /\ pc' = [pc EXCEPT ![p] = n]
        /\ job' = [job EXCEPT ![p] = j]
    BY <2>1 DEF Begin
  <2>3. \A k \in Jobs : Submitting(k)' <=> Submitting(k)
    BY <2>2, OperatorSubmitsNothing DEF Saving, TypeOK
  <2> QED BY <2>2, <2>3 DEF Shown
<1>3. CASE \E p \in Operators :
             \/ WorkerStep(p) \/ RenewLease(p) \/ SaveCheckpoint(p)
             \/ RecoveryStep(p) \/ HeldStep(p)
  BY <1>3, OperatorImplements
<1>4. CASE \E p \in Procs \ Submitters : Crash(p)
  <2>1. PICK p \in Procs \ Submitters : Crash(p)
    BY <1>4
  <2>2. p \in Operators /\ pc[p] \notin Saving
    BY DEF Procs, SInv, Roles
  <2>3. /\ store' = store /\ pc' = [pc EXCEPT ![p] = "idle"]
        /\ job' = [job EXCEPT ![p] = NoJob]
    BY <2>1 DEF Crash, Forget
  <2>4. \A k \in Jobs : Submitting(k)' <=> Submitting(k)
    BY <2>2, <2>3, OperatorSubmitsNothing DEF Saving, TypeOK
  <2> QED BY <2>3, <2>4 DEF Shown
<1>5. CASE Tick
  BY <1>5, TickMoves DEF Shown, Submitting
<1>6. CASE UNCHANGED vars
  BY <1>6 DEF vars, Shown, Submitting
<1> QED BY <1>1, <1>2, <1>3, <1>4, <1>5, <1>6 DEF Next

\* With one operator, any number of submitters and a crash anywhere, the
\* persisted state of every submitted job moves along transitions the lifecycle
\* manager accepts, one or two at a time, and along nothing else.
THEOREM QueueIsDurable ==
  ASSUME SingleOperator
  PROVE  Spec => ImplementsDurableJobs
<1>1. Init => Durable!Init
  BY SameManager DEF Init, NoRecord, Durable!Init
<1>2. TypeOK /\ IInv /\ SInv /\ [Next]_vars
        => [Durable!Next]_([j \in Jobs |-> IF Submitting(j) THEN Absent ELSE store[j].state])
  BY NextImplements DEF Shown
<1> QED BY SingleInvariance, <1>1, <1>2, PTL DEF Spec, ImplementsDurableJobs, Durable!Spec
=============================================================================
