# vision-M in TLA+

Models, model-checking runs and proofs about **vision-M**, a Python system that sends discovery
jobs (scraping, data mining, security review) to workers, follows the findings from one engine to
the next under a manager's authorization, and takes work in through a scheduler and webhooks.
The reference is the code under `src/`; line numbers below are those of its files, and
`L1` stands for `src/layer1_orchestration`.

Contents: [inventory](#inventory), [modules](#modules-and-the-code-they-model),
[runs](#runs), [proofs](#proofs), [what the code does other than it says](#disagreements-between-code-and-documentation),
[what is not modelled](#not-modelled), [plan](#plan).

## Inventory

| Component | State it keeps | Operations | What is hard | What makes it correct |
|---|---|---|---|---|
| Job contract and lifecycle (`execution/job_contract.py`, `job_lifecycle.py`) | state and history of one record | `transition`, `can_transition`, `is_terminal` | two functions judge a transition, one with more guards than the other | terminal states are final, but for the rejection of a completed result |
| Job store (`execution/job_store.py`) | one JSON file per job | `save`, `load`, `delete`, `list_jobs`, `find_by_idempotency_key` | a lock on an inode while the name is renamed, a process that dies in the middle, two writers | a load sees one whole record, and a returned save is not lost |
| Job queue (`execution/job_queue.py`) | none but the store | `enqueue`, `assign`, `start_execution`, `complete_execution`, `renew_lease`, `recover_abandoned_jobs`, `mark_failed`, `schedule_retry`, `cancel`, `get_next_queued` | every call works on a copy loaded earlier and saves it whole; crashes between two saves; leases and backoff | one job per key, no lost update, bounded retries, a lease on every taken job, abandoned jobs are taken back |
| Base worker, checkpoint manager (`execution/worker_contract.py`) | checkpoints of a job | `claim_and_execute`, `execute_specific_job`, `save_checkpoint`, `resume_from_checkpoint` | claim and assignment are two accesses of the store | a job is executed by its owner, an unauthorized one never |
| Real workers (`execution/real_workers.py`) | progress through fixed steps | one pipeline each, a checkpoint per step, alerts, reports | effects before completion, attempts that repeat them, the checkpoint after the last step | consumption covers the requests, alerts are bounded, the job comes to an end |
| Result validator (`execution/result_validator.py`) | verdict in the record | `validate` | reads the record twice | only sound results of authorized completed jobs are accepted |
| Job events (`execution/job_events.py`) | a log per job | append, read | - | - |
| Scheduler (`scheduler/scheduler.py`) | JSON file of schedules, flags, and a backend: APScheduler when it is installed (pyproject.toml declares it), else the file's own heap and thread | `add_schedule`, `remove_schedule`, `start_scheduler`, `stop_scheduler`, the loop and the fire | threads without a common lock; restart; a loop that outlives a stop | stored schedules fire, at their interval; removed ones stop |
| Webhook receiver (`webhook/receiver.py`) | rate-limit lists, failed events in memory and on disk | `POST /webhook`, `POST /webhook/failed/retry`, handlers | redelivery, restart, an `await` between limit and work | a failure waits for a retry, one scan is one job, the limit is kept |
| Chain coordinator (`orchestration/finding_chain_coordinator.py`) | the graph, decisions, consumed budget, visited work | `register_finding`, `validate_finding`, `generate_hypotheses`, `request_authorization`, `execute_in_lab` | many early returns that leave half of an update; decisions that outlive a refusal | engines run only under a standing authorization, once per work, within the budget |
| Findings graph, planner, gate, routing matrix, dispatch contract (`security/*.py`) | nodes, edges, hypotheses | `add_edge`, drafts of hypotheses, ten gates, `resolve`, `normalize_asset` | the gate reads what earlier calls left in the graph | edges join known nodes, every direction can be routed |
| Discovery coordinator and event bus (`discovery/discovery_coordinator.py`, `event_bus.py`) | the list of perspectives of a call, the events | `process_discovery`, `run_failure_scenario_1` to `_6`, the certification report, `publish` | `publish` runs the subscribers before it returns, and what they raise ends the call | no decision before every required review; the report finds nothing wrong with an undisturbed run |
| Discovery register, reviews, sharing, broadcast (`discovery_register.py`, `manager_review.py`, `cross_sharing.py`, `discovery_broadcast.py`) | record and status, acknowledgments, versions of perspectives, contradictions, synthesis and decision | `register_discovery`, `record_acknowledgment`, `add_perspective`, `submit_to_manager`, `review`, `update_perspective`, `publish_approved_perspective`, `open_contradiction` | caller and register share objects; acknowledgments are kept twice | the status never runs ahead of the records behind it |
| Discovery gates and decisions (`perspective_gate.py`, `decision_control.py`, `evidence_synthesis.py`, `management_decision.py`) | none of weight | `evaluate`, `check_decision`, `synthesize`, `evaluate_and_decide` | the gate is told by its caller who acknowledged | all four approved when the gate passes; no contradiction is lost |
| Gear engines (`discovery/gear_engines.py`, `discovery_types.py`) | none | `analyze` of four engines | words written in one file are looked for in another | - |
| Core (`core/*.py`) | a map of sessions, the audit file | checks and output | - | - |
| Bridges, scripts (`src/bridge`, `src/*.py`) | none | sequential pipelines | - | - |

How they interact. A submitter (a script, a fired schedule, a webhook handler) calls
`JobQueue.enqueue`. A worker process polls `get_next_queued`, assigns, starts, works and
completes; some process calls `recover_abandoned_jobs`; a validator judges completed jobs.
All of them meet only in the files of `JobStore`: there is no lock above one `save` or `load`.
The scheduler and the webhook receiver each keep a file of their own beside the queue. The
chain coordinator is one object used by one thread, but its callers choose the order of its
calls, with whichever hypothesis and decision they hold. Discovery drives its parts from one
method, over a synchronous event bus. Nothing in `src/` outside the tests calls
`recover_abandoned_jobs`, `cancel`, `schedule_retry`, `claim_and_execute` or the coordinator: they are
the interface to a deployment, and the models let a caller use them in any order.

## Modules and the code they model

| Module | Models | Its abstractions |
|---|---|---|
| `JobLifecycle` | states, transition table, the guards of `transition`, what `cancel` asks for | history left out |
| `DurableJobs` | abstract specification: the persisted state of each job, brought in by an `enqueue` (`Submit`) and then moved by one transition per save, two for `schedule_retry` and for a recovery's retry (`DoubleTransition`) | no copies, workers or leases |
| `JobQueue` (`MCJobQueue`) | queue, base worker, checkpoints, validator, as processes over a store of whole records | timestamps as ticks to go; results as one of three kinds |
| `AtomicStore` | abstract specification: a save replaces the record at once, a load returns the record of one instant | versions are numbers |
| `JobStoreFile` (`MCJobStore`) | `save` and `load` call by call of the operating system | a record is a sequence of numbered blocks |
| `Scheduler` (`MCScheduler`) | `VisionScheduler`, `ScheduleStore` and both backends as threads: `_HeapScheduler`, and APScheduler as the library the code takes it for | one tick is a second; an entry is the seconds it has to go |
| `Webhook` | receiver, rate limit, failed events, retry | a list of failed events as counts, a list of timestamps as the ages of numbered requests |
| `RoutingMatrix` | the nine rules and `resolve` | - |
| `FindingChain` (`MCFindingChain`) | coordinator, graph, gate, planner, dispatch contract | gates that look only at the data of a request are a choice |
| `WorkerPipeline` | one job and the process that works on it: base worker, the three real workers, checkpoints, recovery, retry, resumption | a subtask is a call of the bridge or none; what the bridge returns is whether the job is critical |
| `GearAnalysis` | what the four engines write, the synthesis, the director's choice, as operators | a text is the set of looked-for words in it |
| `ReviewedDecision` | abstract specification: a decision needs a gate that passed in a moment when every gear had its approval | approvals come and go freely |
| `Discovery` | register, broadcast, reviews, sharing, gate, freeze, synthesis, decision, event bus and its subscribers | a version of a perspective is its status and its words |
| `DiscoveryScripts` (`MCDiscovery`) | the methods of the coordinator, as sequences of instructions for `Discovery` | logs and reports left out |

**JobQueue.** Each process has `copy[p]`, the Python object it holds, and a program counter. An
action is what the process does from one access of the store to the next, so two calls can
interleave exactly where two processes can. `enqueue` is `EnqueueFind`, `EnqueueSaveCreated`,
`EnqueueSaveQueued` (job_queue.py:54-77); `claim_and_execute` is `GetNextQueued`, `Assign`,
`StartExecution` or `RefuseUnauthorized`, then `RenewLease`, `SaveCheckpoint`, and `WorkReturns` or
`WorkFails`, then `CompleteExecution` (worker_contract.py:52-96); recovery of one job is
`RecoverLoad`, `RecoverFail`, `RecoverRetry` (152-177); the calls that take a record are made on one
that was `Load`ed at any time before: `Cancel`, `ScheduleRetry`, `ExecuteSpecificJob`,
`ResumeFromCheckpoint`, and `ValidateCheck` with `ValidateSave`. `Drop` is the exception of
`transition`. `Crash` loses a process's copy and leaves the files. `Referenced` are the jobs whose contract has an
`authorization_reference`, which is all the validator asks for (result_validator.py:137); `Authorized` those that have a
tenant too, which `claim_and_execute` wants (worker_contract.py:133-137) and `execute_specific_job` does not look at.
That `save` and `load` are one step each is what `JobStoreFile` establishes, see below.

**JobStoreFile.** `path` and `tmp` are names, `data` the inodes behind them, `holders` the flocks.
The actions are the system calls in the order `save` and `load` make them. `open(tmp, "w")` empties
the inode before the lock is asked for; the lock is released before the rename; `Stop` is the death
of the process or an exception of `json.dump` or `fsync`. A block written beyond the end of a file
that another process emptied leaves a hole.

**Scheduler.** Callers are threads that use the public methods, of which `Managers` also start
and stop; `Loops` are the backend threads. A method is cut at every access of the store, of a
flag and of the backend. `Init` chooses the backend (`HAS_APSCHEDULER`), and each place where the code asks which one it has is an
action per backend. Over the heap: `AddArm`, `RemoveDisarm`, `RestoreOne`, `StartBackend` with `Spawn`, `StopBackend`
with `StopReturns`, which may give up the join, so an old loop can go on beside a new one; a loop is `LoopCheck`, `LoopWait`, `LoopTake`,
`FireLoad`, `FireEnqueue` or `FireFails`, `Requeue`. Over APScheduler: `AddToLibrary` with `AddKeep` (the entry of
`_apscheduler_jobs`), `RemovePop` with `RemoveFromLibrary`, `RestoreToLibrary` with `RestoreKeep`, `StartLibrary`, `StopLibrary`. The
library is external and is what the code relies on: `add_job` replaces the job of the same id, a shutdown forgets the jobs, a due job is
fired on a thread of a pool, one run of it at a time (`LibraryFires`, `RunReturns`), or skipped when late (`LibrarySkips`). Nothing is claimed of
firing once it was shut down and started again.

**Webhook.** `Accept` is the rate limit up to the `await` of the body. A handler that submits a job is two steps, `LookUp` and
`Save`, since another receiver may come between `find_by_idempotency_key` and the save of `enqueue` (job_queue.py:58-68); likewise
in a retry, `RetryLooksUp` and `RetrySaves`. `SaveRaises` is a handler that fails in between. The writing of a failed event, each retry, the clearing of the list and the removal
of the file are steps of their own, because the process may die between any two of them.

**FindingChain.** The public methods of the coordinator are actions, with their early returns as
disjuncts: `StopRequest` is a request that ends before the gate (with `reviewed_by` already
written), `Decide` one that reaches it, `StopDispatch` a dispatch refused after the work was
registered, `DispatchRaises`, `DispatchFails`, `DispatchSucceeds` the three ends of a dispatch.
`Linked` says which edges the update adds before `add_edge` would raise.

**WorkerPipeline.** `Claim`, `RefuseUnauthorized`, `StartExecution`, then per subtask `Subtask` and, where the
worker has one, `Checkpoint`; `Alert` before the work returns; then `CompletionCheckpoint` and
`CompleteExecution` for a plain worker, `CompletionCheckpointFails` for the three real ones, whose `_checkpoint` wants one
argument more (real_workers.py:183). `MarkFailed` is the `except` of `claim_and_execute`. `ScheduleRetry`, `RecoverFail` with
`RecoverRetry`, and `ResumeFromCheckpoint` are the ways back; `Crash` may fall between any two saves.
The process makes one call at a time, so its record is the one on disk; what several processes do
to each other is `JobQueue`'s subject.

**Discovery.** A method of the coordinator is a script: its calls in order, as pairs of an operation and a
gear or a status. Each action of `Discovery` is one operation, up to and with the event it
publishes; one that publishes two is two actions (`ReceiveDiscovery`, `AcknowledgeReceipt`, discovery_broadcast.py:141). Everything runs in one thread, but `publish` calls the subscribers before it returns
(event_bus.py:119-137), so between two instructions of which the first published, subscribers may act:
`Resubmit`, `Approve`, `SendBack`, `Reject`, `Escalate`, `MarkTimedOut`, `Supersede` (a new version), `Contradict`, or
`HandlerRaises`, which ends the call where it stands. The repository registers no such subscriber:
they are the interface, and do what the review and sharing classes offer. `held` is the
caller's list, `versions` the register's; both name the same objects, which is how an
approval withdrawn by a subscriber reaches the gate. `GearAnalysis` keeps of a text only
whether it contains the words the synthesis looks for, and of numbers only those compared.

## Runs

Twelve runs; each passing one explores its whole state space. Bounds are constants named `Max...`
and the sizes of the sets.

| Run | Question | Bounds and why they are enough |
|---|---|---|
| `JobQueueRace` | what holds however operators race | two operators (any pair of calls can interleave; one has the real workers' checkpoints), a submitter, three jobs of which its key lets in one, whichever: authorized, with a reference but no tenant, or with neither; one retry, a lease of a tick, one crash (that of the submitter between its two saves included) |
| `JobQueueOneOperator` | what holds when one process operates, beside submitters, and that every save is a step of `DurableJobs` | two submitters, two jobs, one of them without a tenant, two crashes: a crash in recovery and one in the claim that follows |
| `JobQueueDuplicateKey` (violation) | is a submission idempotent by its key | two submitters, two jobs with one key, no crash |
| `JobQueueDouble` (violation) | may two workers execute one job | two operators, no crash |
| `JobStore` | do `save` and `load` implement `AtomicStore` | one writer that may die, two readers, three saves of records of two, one and two blocks (shorter over longer and back), four inodes: path, tmp and one per reader |
| `JobStoreTorn` (violation) | does the lock make concurrent saves safe | two writers, two saves, one reader |
| `Scheduler` | stored schedules fire at their interval, removed ones stop, over either backend | two threads, two loops, two starts (a restart over a loop still running), one crash; schedules do not interact but through the flags, so one is enough; an interval of two seconds has a state in which an entry is neither due nor new; 118,304 states |
| `Webhook` | no failure is forgotten, no named scan doubled, no client over the limit or shut out | one receiver (the code starts one), four events: named scan, unnamed scan, bad one, other; three deliveries, two handler failures, an `OSError`, a crash; a limit of two per window of two ticks; 254,752 states |
| `FindingChain` | dispatch once, authorized, within budget; graph updates whole | two findings, three hypotheses of which two name one asset in two spellings and one follows up an observation; a budget of two requests and dispatches of up to two, so that one can overrun |
| `WorkerPipeline` | what attempts, crashes and retries add up to, and that a job ends | six subtasks as in the code, two retries (the last attempt differs from one before it), two crashes (one while the job is recovered), every kind of worker on authorized and other, critical and other jobs; 694,720 states |
| `WorkerCompletes` (violation) | is a job completed whose work returned | no crash |
| `Discovery` | decisions, statuses, contradictions, certification | `process_discovery` on four discoveries (the richest, the poorest, one between, one refused) and the six failure scenarios; three replies, so an approval can be withdrawn, given back and withdrawn again, or a version replaced, reviewed and disputed; repliers are the gear analyzed first and the one whose authorization the gate reads; 264,688 states |

What they show. In the presence of races the lease, the retry bound and the soundness of
accepted results survive (`LeaseCoversExecution`, `RetriesBounded`, `AcceptedIsCompleted`),
a submission is stranded only by a crash (`OnlyCrashStrandsSubmission`), and a job left in ASSIGNED or RUNNING is taken back (`AbandonedIsRecovered`). Two submitters can store
one key twice, which `JobQueueDuplicateKey` shows and one submitter never does (`OneJobPerKey` is proved for it). That final
states are final holds **only with one operator process** (`SettledIsFinal`, from `NoStaleCopy`): with two,
stale saves reopen terminal jobs. A worker's recorded consumption covers its requests but for one per bad
end of an attempt (`RequestsCovered`), though it is far from a count of them; alerts repeat with every attempt, at
most `max_retries + 1` times and once more per crash (`AlertsBounded`); and a job that is worked on,
recovered and retried again and again ends (`Settles`), whatever state a crash left it in. In
discovery nothing that subscribers do gets a decision past an unapproved perspective
(`ImplementsReviewedDecision`), a status past its records (`StatusBacked`), or a gate past a missing acknowledgment
(`PassedWasAcknowledged`), though the coordinator asserts the acknowledgments as a literal; a contradiction
registered in time is in the synthesis (`DisputesSurvive`); and every decision is the same one of eight
(`OneChoiceOnly`), because the engines always write the words that lead to it. Three type invariants carry more than types: the
scheduler's backend holds entries of registered schedules only (`EntriesRegistered`), and no `save` or `load`, raising half way included,
leaves a file open or a lock held (`NothingLeftOpen`), and the caller's list of perspectives refers only to ones the register holds
(`ListedIsRegistered`). `JobStore` has one writer; with two, `JobStoreTorn` shows
an empty job file. Whole records, which `JobQueue` takes for granted, are therefore justified where one
process saves a job at a time: in `JobQueueOneOperator`, but for a call on a job whose
`enqueue` has not returned. In `JobQueueRace` they are an assumption, and the empty file comes on top
of what that run shows.

### Fairness

- `JobQueue!FairSpec`: time passes; a process inside `claim_and_execute`, recovery or a call on a held
  record goes on (weak fairness: nothing else blocks it). `SF(RecoverLoad)`: the deployment calls
  `recover_abandoned_jobs` again and again, and one of these calls meets the job while its lease
  is out. Nobody in `src/` does that; the property says what follows when someone does.
- `Scheduler!FairSpec`: time passes, methods go on once begun, loop threads run. `SF(LoopTake)` per schedule: the
  heap gives its earliest entry first, so a due entry is overtaken only finitely often. `SF` too that the library, while open, fires
  a job that is due again and again: it may skip a run that comes late, not all of them.
  Nothing makes a caller start the scheduler.
- `Webhook!FairSpec`: time passes and a call goes on once begun. Nothing makes a sender send.
- `WorkerPipeline!FairSpec`: the worker goes on, a lease runs out, and the operator's calls (recovery, retry,
  resumption, the next claim) are made again and again. Nothing in `src/` makes them in a loop; `Settles` says
  that no state of the job resists whoever does.
- `FindingChain`, `JobStoreFile`, `Discovery`: none; they have safety properties only.

## Proofs

Proved with TLAPS for every value of the constants that satisfies the named assumptions:

| Module | Theorems | Argument |
|---|---|---|
| `JobQueueProofs` | `TypeOK`, `LeaseCoversExecution`, `RetriesBounded`, `AcceptedIsCompleted`, and that a state passed through in memory is never found on disk (`OnlyWholeSteps`), for any number of submitters, operators and crashes; `OnlyCrashStrandsSubmission` likewise; `OneJobPerKey` for one submitter (`OneSubmitter`), any number of jobs, keys and operators | the invariant says the same of the **copies** as of the store: every record anyone holds or has stored is `Legal`, and `Fits` the place its holder is at. A stale save then replaces one legal record with another, which is why these properties survive races. For the stranded submissions, `Roles` keeps the submitters' saves apart from the operators', and `Known` says that whoever has a job in hand past the first save has one that is stored: so no operator brings a record into being or writes CREATED, and a CREATED record has a submitter about to save it or one that crashed. `KeyIsFree`: what `find_by_idempotency_key` found stays true up to the save, since nobody else creates records; with a second submitter it does not, and the property is false (`JobQueueDuplicateKey`) |
| `JobQueueSingleProofs` | `NoStaleCopy`, `SettledIsFinal` and `Spec => ImplementsDurableJobs` for one operator (`SingleOperator`), any number of submitters, jobs, leases, retries and crashes | `SInv`: before its first save a submission is unknown to others (`Unseen`); between its saves it can be loaded and cancelled but not owned (`HalfSeen`, `CreatedAtMostQueued`); whoever holds an owned record holds what is stored (`OwnedIsFresh`). Without them `NoStaleCopy` is not inductive, because the second save of `enqueue` is itself a blind save: it overwrites a cancellation that came between the two, which is why `NoStaleCopy` exempts that window, `SettledIsFinal` speaks of jobs whose `enqueue` returned, and the refinement maps a job to `Absent` until its submitter has returned or died (`Shown`). From then on every save is one or two transitions of the stored record, and every other step a stutter |
| `FindingChainProofs` | `TypeOK`, `OneDispatchPerWork`, `OverrunBounded`, `ObservationIsLinked`, `CascadeEnds`, `DispatchIsAuthorized`; every one of the nine directions can be routed | `IInv` adds: an approval stands for a request no gate refused and for parents in the graph (`ApprovalStands`), the log lists registered work only (`LogFits`) and lists it once (`LogIsSet`). Routing: the rules are written in the order the resolver sorts them into, so the best of a non-empty set of candidates is its first |
| `JobStoreProofs` | `TypeOK`, `StoredIsReadable`, `SavedIsKept`, and `Spec => ImplementsAtomicStore`, for one writer (`SingleWriter`), any number of readers, any records, a writer that dies anywhere | a reader never has the inode of `tmp` open, and what it has open is whole (`ReaderFits`); `tmp` holds the first `offset` blocks of the version being saved (`WriterFits`); the file holds an older version than the one being saved (`PathFits`). The refinement maps a rename to `Put`, an `open` of the file to `Look`, its close to `Return`, and every other step to a stutter |
| `SchedulerProofs` | `TypeOK` with `EntriesRegistered`, over either backend; `StoredIsArmed` over the heap with **several managers** too (two that race can leave the scheduler without a thread, but lose no schedule), over APScheduler for one thread that starts and stops (`OneManager`); `FrequencyKept` over the heap; for any schedules, intervals, threads, starts and crashes | `NoneForgotten`: a stored schedule is being added, or armed, or no start has passed it by yet (`ToBeRestored`); it needs `Places`, that what is being removed is no longer stored. With the library a start that began before another manager's stop would end over a backend that has forgotten its jobs, hence `OneManager`. `OnceInFlight`: what was registered once has at most one entry or is with one loop, and the seconds since the last job and those the entry has to go make up the interval; without the former a second entry could be taken in between |
| `WebhookProofs` | `TypeOK` with the rate limit, and `OneJobPerScan`, for any finite number of receivers: a scan with an id makes no more jobs than there are receivers, one with one; `DiskMatchesMemory`, `FailureAwaitsRetry` for a receiver alone, any events, clients, faults and restarts | `Bounded`: the jobs of a scan and the receivers about to save one together are no more than the receivers, since a look-up that finds a job makes none. `InStep`: between the append and the write the list is the file and one entry more, between the clearing and the removal the list is empty and nothing is owed, and what is owed is in the file **and**, during a retry, in the rest of it or in hand. The limit: the list of a client is replaced by some of its entries, or by fewer than `RateLimitMax` of them and one more (`ListReplaced`) |
| `WorkerPipelineProofs` | `TypeOK`, `RequestsCovered`, `AlertsBounded` for pipelines of any length, any numbers of retries and crashes | `Placed` ties the state on disk to the place of the process; `AlertsCounted` charges each alert to a counted failure, a crash, or the attempt at hand |
| `DiscoveryProofs` | `TypeOK` with `ListedIsRegistered`, `Spec => ImplementsReviewedDecision`, `StatusBacked`, `PassedWasAcknowledged`, `OneChoiceOnly`, `DisputesSurvive`, `UndisturbedIsCertified`, for any discoveries, repliers and replies, a handler that raises anywhere, and any scripts that satisfy the assumptions below | `GateAnswers`: when an exit is reached the gate's answer is the last one logged, though subscribers ran since; `ExitMeansPassed`; `AnalyzedIsHeld`, so that the caller's list names versions that exist. `GatePasses` maps to `Pass`, the decision of a guarded method to `Decide`, all else to `Review` or a stutter. `RInv` ties the register to `Done`, the instructions executed: an action does its `Effect` and joins `Done`, subscribers touch neither. `ListSaysAnalysis`: subscribers change the status of a listed version or add versions that are not listed, so its words remain those of the engine, and every synthesis recommends a phase (`SynthesisReads`, `DirectorApproves`). `UInv`, of an undisturbed call: listed versions are the latest (`Newest`), a last review that passed stands (`Standing`), the last question prepared for is answered with yes (`Answered`) |

Every strengthening was checked by TLC on the instance of the run before it was proved.
Only model-checked: the liveness properties (`AbandonedIsRecovered`, `ScheduledFires`, `RemovedStops`,
`NotShutOut`, `Settles`), which rest on fairness. Every invariant and every action property that a passing run
checks, and every refinement, is also proved.

The assumptions are those of the `ASSUME`s, which TLC evaluates in the runs. `ConstantsOK`, `StoreAssumption` and
the like say that the sets are disjoint and the bounds natural numbers. Those of `Discovery` are about
scripts, and TLC finds that the seven methods of the coordinator satisfy them:

- `ScriptAssumption`: arguments have their types, a perspective is reviewed after it was made, an exit follows a
  gate, a guarded method decides after an exit.
- `OrderAssumption`: an acknowledgment is recorded after it was heard, all four before a gate or a status; a
  status follows the records it announces; a synthesis follows four perspectives, a decision a synthesis. What the theorems add is
  that no reply, exception or later instruction undoes what was recorded.
- `PurposeAssumption`, used by `UndisturbedIsCertified` alone: what a method sets out to do. The theorem says that it gets there.

The hypotheses `SingleOperator`, `SingleWriter`, `OneManager` and the one receiver of `Webhook` are theorem by theorem those of the runs that
check the property. They cannot be dropped: with two operators one saves over what the other did (`JobQueueDouble` begins
so), with two writers the file can be empty (`JobStoreTorn`). `OneSubmitter` is the condition under which the promise that
`JobQueueDuplicateKey` sees broken holds.

## Disagreements between code and documentation

Shown by a run: two workers execute one job (`JobQueueDouble`, against job_queue.py:31); two submissions at the same time store
two jobs under one key (`JobQueueDuplicateKey`, job_queue.py:55); a second `save` empties
the file the first one renames (`JobStoreTorn`, job_store.py:22); a job whose pipeline returned is marked
failed, since `_checkpoint` of the real workers raises `TypeError`, so none of their jobs is ever COMPLETED and
each retry repeats its requests and its alert (`WorkerCompletes`, worker_contract.py:53).

Met while modelling, without a run of their own:

- *Lifecycle.* the table, and with it `can_transition`, lets TIMED_OUT and RESULT_REJECTED jobs go to
  RETRY_PENDING ("Can retry after timeout", job_contract.py:101); `transition` refuses it, as both states are terminal. `cancel` of a job
  past ASSIGNED raises: it asks for CANCEL_REQUESTED, which no entry of the table lists
  (job_queue.py:242), although "Cancellation signaling" is a listed capability (:37). A submitter
  that dies between its two saves leaves a CREATED job nobody takes (:30), a worker that dies in CHECKPOINTED one that
  recovery does not look at (:160). A cancel between the two saves of `enqueue` is overwritten.
- *Workers.* `execute_specific_job` skips the authorization check, and though "used for recovery" it cannot
  start a recovered job, which is QUEUED. A second validation of an accepted job can reject it. Budgets are not looked at
  while the work goes on; `save_checkpoint` adds up totals that are totals already; the context given to a resumed job
  carries no subtask's data, so it starts over.
- *Jobs of the scheduler and the webhook* carry no `authorization_reference`, so every worker refuses them.
- *Scheduler.* `add_schedule` before `start_scheduler`, the documented order (scheduler.py:343), puts the
  schedule on the heap twice and both entries keep firing; `FrequencyKept` is stated for schedules that
  were registered once. Two threads that start and stop at once can leave the scheduler marked as running
  over a stopped backend. An interval of "0s" is accepted. With APScheduler installed its jobs are replaced,
  so the doubling is that of the fallback; but its `shutdown` forgets the jobs and a second start of what was shut down is not what the
  library offers, so `ScheduledFires` stops there.
- *Webhook.* The retry endpoint clears entries whose retry failed. Two receivers clear each other's entries, and each
  makes a job when both look up one key at once. A
  scan without an id gets a new job on every delivery.
- *Chain.* Parents joined by a third finding are refused, though the gate asks for a chain of edges "directly or
  transitively" (chain_authorization_gate.py:534). The gate reads the key `reference` where the coordinator writes `authorization_reference`. A
  request for a parent that is not in the graph raises before the gate's own refusal of it, with `reviewed_by` already
  written. A confidence of 0.0 reads as 1.0. The last gate compares the parents' evidence with a set that contains
  it and cannot refuse. Observations belong to the engine LAB_EXECUTOR, for which there is no rule, so
  nothing follows an observation (`CascadeEnds`), and `max_cascade_depth` stops only a caller whose context states a `cascade_depth`
  above it (finding_chain_coordinator.py:493-512). Visited work is not part of `save`.
- *Discovery.* `DecisionFreeze.PROHIBITED_DECISIONS` (decision_control.py:41-48) lists names such as CLOSE_DISCOVERY, none
  of which is a value of `DecisionType`, so no management decision is ever frozen. A handler that raises in
  `publish` skips the audit entry and ends `process_discovery` half way. The gate is told that all four gears have acknowledged
  whether they have or not. Seven of the eight decision types are never chosen.

## Not modelled

Job events, audit writer, alerts and reports
only write. The credential guard, the command classifier and the terminal wrapper match patterns in
strings. The bridges are sequential calls of `layer2_execution`, whose packages hold abstract interfaces only (four `__init__.py` of 311 lines, without
a body); the engines behind them are not in the repository. Modules that are
imported but absent (`chain_prioritizer`, `chain_execution_guard`, `chain_impact`, `targeted_recon`,
`controlled_lab_executor`, `authorization_decision`, `engine_adapters`) are modelled by how the coordinator uses
them: they may refuse, raise or answer. Cross-gear perspectives build descriptions that nothing reads to decide. The session guard builds a map of
sessions once and from then on compares paths with it. Inside modelled components:
`JobStore.delete` (no caller), `get_next_queued` with a tenant (no caller; it returns fewer of
the jobs it returns without one, so the safety properties hold of it too), `add_rule`, the graph's impacts and queries, the webhook's
GET endpoints; of discovery `check_for_timeouts` (publishes only, nothing calls it), the logs of observations, challenges and
clarifications (nothing reads them back), and the set of active freezes (no check consults it).

## Plan

In order; 1 to 8 are done.

1. `JobLifecycle`, `DurableJobs`, `JobQueue`, with proofs: the core everything else feeds.
2. `Scheduler`, with proofs.
3. `Webhook`, with proofs.
4. `RoutingMatrix`, `FindingChain`, with proofs.
5. `AtomicStore`, `JobStoreFile`, with proofs: what (1) takes for granted about the store.
6. `WorkerPipeline`, with proofs: the subtasks, checkpoints, retries and alerts of the real workers over the base worker.
7. `GearAnalysis`, `ReviewedDecision`, `Discovery`, `DiscoveryScripts`, with the refinement proved.
8. The proofs (1) to (7) had left: of `JobQueue` the stranded submissions, the keys and the refinement of `DurableJobs`, of
   `Webhook` the types and the rate limit, of `Discovery` all properties from assumptions on the scripts.
9. Left to model: the concurrency bound of `get_next_queued` with a tenant (no caller), a check before an act; the
   planner's choice of templates against a reference definition; the file protocol of the schedule store.
