------------------------------ MODULE Scheduler ------------------------------
(***************************************************************************)
(* The recurring-job scheduler of layer1_orchestration/scheduler:          *)
(* VisionScheduler with its ScheduleStore, over each of its two backends:  *)
(* APScheduler when it is installed (HAS_APSCHEDULER, chosen by Init), and *)
(* the _HeapScheduler of this file otherwise.  APScheduler is a library:   *)
(* it is modelled by what the code relies on.  add_job replaces the job of *)
(* the same id, a shutdown forgets every job and refuses to happen twice,  *)
(* and a job is fired on a thread of a pool, one run of it at a time.      *)
(*                                                                         *)
(* Callers are the threads of one process that use the public methods;     *)
(* Loops are the backend's threads, those that successive starts create or *)
(* those of the pool.  A method                                            *)
(* holds no lock of its own (VisionScheduler._lock is never taken), so it  *)
(* is cut at every access of the store, of a flag and of the backend;      *)
(* what the backend does under its lock is one step.                       *)
(*                                                                         *)
(* One Tick is a second.  An entry of the heap is kept as the number of    *)
(* seconds before it is due, 0 once it is; which of the due entries a loop *)
(* takes is left open.                                                     *)
(***************************************************************************)
EXTENDS Integers, FiniteSets

CONSTANTS
  Schedules,    \* schedule ids; add_schedule draws a fresh one each time
  Interval,     \* Interval[s]: what parse_frequency makes of its frequency
  Callers,      \* threads that add and remove schedules
  Managers,     \* callers that also start and stop the scheduler
  Loops,        \* backend threads
  NoSchedule, NoLoop,
  MaxStarts,    \* bound: calls of start_scheduler
  MaxCrashes    \* bound: deaths of the process

ASSUME ConstantsOK ==
  /\ Interval \in [Schedules -> Nat]
  /\ Managers \subseteq Callers
  /\ Callers \cap Loops = {}
  /\ NoSchedule \notin Schedules /\ NoLoop \notin Loops
  /\ MaxStarts \in Nat /\ MaxCrashes \in Nat

VARIABLES
  stored,     \* the schedules in the JSON file
  known,      \* the ids handed out so far
  heap,       \* heap[s][d]: entries of s that are due in d seconds
  callbacks,  \* _HeapScheduler._callbacks
  ticking,    \* _HeapScheduler._running
  thread,     \* _HeapScheduler._thread
  running,    \* VisionScheduler._running
  jobs,       \* VisionScheduler._apscheduler_jobs
  library,    \* "none" without APScheduler, else "open", or "shut" once
              \* this process has shut it down
  todo,       \* todo[c]: what _restore_schedules has yet to re-register
  pc, at,     \* where each thread is, and the schedule it works on
  since,      \* since[s]: seconds since s last enqueued a job, up to its
              \* interval (history variable)
  armed,      \* armed[s]: add_job calls for s in this process, up to 2
              \* (history variable)
  starts, crashes

backend == <<heap, callbacks, ticking, thread>>
history == <<since, armed>>
aps == <<library, jobs>>
bounds == <<starts, crashes>>
vars == <<stored, known, backend, running, todo, pc, at, history, aps, bounds>>

Apscheduler == library # "none"   \* HAS_APSCHEDULER

Threads == Callers \cup Loops

CallerPC == {"idle", "add", "add_keep", "remove", "remove_job", "load",
             "restore", "restore_keep", "backend", "spawn", "started", "stop",
             "join"}
LoopPC == {"dead", "top", "select", "fire", "enqueue", "fired"}

\* Seconds to go of an entry of s.
Due(s) == 0..Interval[s]
EmptyHeap == [s \in Schedules |-> [d \in Due(s) |-> 0]]

\* The backend threads that are running the callback of s.
InFlight(s) ==
  {t \in Loops : pc[t] \in {"fire", "enqueue", "fired"} /\ at[t] = s}

Typed ==
  /\ stored \subseteq known /\ known \subseteq Schedules
  /\ heap = [s \in Schedules |-> heap[s]]
  /\ \A s \in Schedules : heap[s] \in [Due(s) -> Nat]
  /\ callbacks \subseteq known
  /\ ticking \in BOOLEAN /\ running \in BOOLEAN
  /\ thread \in Loops \cup {NoLoop}
  /\ todo \in [Managers -> SUBSET known]
  /\ pc \in [Threads -> CallerPC \cup LoopPC]
  /\ \A c \in Callers : pc[c] \in CallerPC
  /\ \A t \in Loops : pc[t] \in LoopPC
  /\ at \in [Threads -> Schedules \cup {NoSchedule}]
  /\ since \in [Schedules -> Nat] /\ \A s \in Schedules : since[s] \in Due(s)
  /\ armed \in [Schedules -> 0..2]
  /\ library \in {"none", "open", "shut"} /\ jobs \subseteq known
  /\ starts \in 0..MaxStarts /\ crashes \in 0..MaxCrashes

\* The backend holds entries of registered callbacks only: no entry of a
\* removed schedule goes round for ever, whatever was under way at its removal.
EntriesRegistered ==
  \A s \in Schedules : \A d \in Due(s) : heap[s][d] > 0 => s \in callbacks

\* The types of the state, and the backend's entries against its callbacks.
TypeOK == Typed /\ EntriesRegistered

\* A process that has just constructed its VisionScheduler.
NothingTodo == [c \in Managers |-> {}]
NoCall == [p \in Threads |-> IF p \in Callers THEN "idle" ELSE "dead"]
NoWork == [p \in Threads |-> NoSchedule]
NeverArmed == [s \in Schedules |-> 0]

Init ==
  /\ stored = {} /\ known = {}
  /\ heap = EmptyHeap /\ callbacks = {}
  /\ ticking = FALSE /\ thread = NoLoop /\ running = FALSE
  /\ library \in {"none", "open"} /\ jobs = {}
  /\ todo = NothingTodo /\ pc = NoCall /\ at = NoWork
  /\ since = Interval /\ armed = NeverArmed
  /\ starts = 0 /\ crashes = 0

Goto(p, from, to) == pc[p] = from /\ pc' = [pc EXCEPT ![p] = to]
WorkOn(p, s) == at' = [at EXCEPT ![p] = s]

-----------------------------------------------------------------------------
\* _HeapScheduler.add_job and remove_job, each under the backend's lock.
\* add_job pushes an entry whether or not the schedule has one already.

Push(s) == heap' = [heap EXCEPT ![s][Interval[s]] = @ + 1]

Arm(s) ==
  /\ Push(s)
  /\ callbacks' = callbacks \cup {s}
  /\ armed' = [armed EXCEPT ![s] = IF @ < 2 THEN @ + 1 ELSE @]

Disarm(s) ==
  /\ heap' = [heap EXCEPT ![s] = [d \in Due(s) |-> 0]]
  /\ callbacks' = callbacks \ {s}

-----------------------------------------------------------------------------
\* The library's add_job with replace_existing, remove_job and the next run
\* of a job it has fired or let pass, which is its own to choose.

OnlyEntry(s, d) == [e \in Due(s) |-> IF e = d THEN 1 ELSE 0]

AddJob(s) ==
  /\ heap' = [heap EXCEPT ![s] = OnlyEntry(s, Interval[s])]
  /\ callbacks' = callbacks \cup {s}

NextRun(s) == \E d \in Due(s) : heap' = [heap EXCEPT ![s] = OnlyEntry(s, d)]

-----------------------------------------------------------------------------
\* add_schedule and remove_schedule: the store first, then the backend.

AddSave(c, s) ==
  /\ s \notin known
  /\ Goto(c, "idle", "add") /\ WorkOn(c, s)
  /\ known' = known \cup {s}
  /\ stored' = stored \cup {s}
  /\ UNCHANGED <<backend, running, todo, history, aps, bounds>>

\* Without APScheduler, add_schedule ends with the backend's add_job.
AddArm(c) ==
  /\ ~Apscheduler
  /\ Goto(c, "add", "idle") /\ WorkOn(c, NoSchedule)
  /\ Arm(at[c])
  /\ UNCHANGED <<stored, known, ticking, thread, running, todo, since, aps, bounds>>

\* With it, the job that add_job returned is then kept under its id.
AddToLibrary(c) ==
  /\ Apscheduler
  /\ Goto(c, "add", "add_keep")
  /\ AddJob(at[c])
  /\ UNCHANGED <<stored, known, ticking, thread, running, todo, at, history, aps, bounds>>

AddKeep(c) ==
  /\ Apscheduler
  /\ Goto(c, "add_keep", "idle") /\ WorkOn(c, NoSchedule)
  /\ jobs' = jobs \cup {at[c]}
  /\ UNCHANGED <<stored, known, backend, running, todo, history, library, bounds>>

RemoveDelete(c, s) ==
  /\ s \in known
  /\ Goto(c, "idle", "remove") /\ WorkOn(c, s)
  /\ stored' = stored \ {s}
  /\ UNCHANGED <<known, backend, running, todo, history, aps, bounds>>

RemoveDisarm(c) ==
  /\ ~Apscheduler
  /\ Goto(c, "remove", "idle") /\ WorkOn(c, NoSchedule)
  /\ Disarm(at[c])
  /\ UNCHANGED <<stored, known, ticking, thread, running, todo, history, aps, bounds>>

\* With APScheduler only a job that was kept is removed, if it is still there.
RemovePop(c) ==
  /\ Apscheduler
  /\ IF at[c] \in jobs
     THEN Goto(c, "remove", "remove_job") /\ UNCHANGED at
     ELSE Goto(c, "remove", "idle") /\ WorkOn(c, NoSchedule)
  /\ jobs' = jobs \ {at[c]}
  /\ UNCHANGED <<stored, known, backend, running, todo, history, library, bounds>>

RemoveFromLibrary(c) ==
  /\ Apscheduler
  /\ Goto(c, "remove_job", "idle") /\ WorkOn(c, NoSchedule)
  /\ Disarm(at[c])
  /\ UNCHANGED <<stored, known, ticking, thread, running, todo, history, aps, bounds>>

-----------------------------------------------------------------------------
\* start_scheduler.

StartCheck(c) ==
  /\ ~running /\ starts < MaxStarts
  /\ Goto(c, "idle", "load")
  /\ starts' = starts + 1
  /\ UNCHANGED <<stored, known, backend, running, todo, at, history, aps, crashes>>

\* _restore_schedules: load_all, then add_job for each schedule in turn.
RestoreLoad(c) ==
  /\ Goto(c, "load", "restore")
  /\ todo' = [todo EXCEPT ![c] = stored]
  /\ UNCHANGED <<stored, known, backend, running, at, history, aps, bounds>>

RestoreOne(c, s) ==
  /\ ~Apscheduler
  /\ pc[c] = "restore" /\ s \in todo[c]
  /\ todo' = [todo EXCEPT ![c] = @ \ {s}]
  /\ Arm(s)
  /\ UNCHANGED <<stored, known, ticking, thread, running, pc, at, since, aps, bounds>>

RestoreToLibrary(c, s) ==
  /\ Apscheduler
  /\ s \in todo[c]
  /\ Goto(c, "restore", "restore_keep") /\ WorkOn(c, s)
  /\ todo' = [todo EXCEPT ![c] = @ \ {s}]
  /\ AddJob(s)
  /\ UNCHANGED <<stored, known, ticking, thread, running, history, aps, bounds>>

RestoreKeep(c) ==
  /\ Apscheduler
  /\ Goto(c, "restore_keep", "restore") /\ WorkOn(c, NoSchedule)
  /\ jobs' = jobs \cup {at[c]}
  /\ UNCHANGED <<stored, known, backend, running, todo, history, library, bounds>>

RestoreDone(c) ==
  /\ todo[c] = {}
  /\ Goto(c, "restore", "backend")
  /\ UNCHANGED <<stored, known, backend, running, todo, at, history, aps, bounds>>

\* Mutant: stop_scheduler's flag is taken for a backend that still runs.
StartBackendOnce(c) ==
  /\ ~Apscheduler
  /\ IF thread # NoLoop THEN Goto(c, "backend", "started")
                        ELSE Goto(c, "backend", "spawn")
  /\ UNCHANGED <<stored, known, backend, running, todo, at, history, aps, bounds>>

\* _HeapScheduler.start looks at its own flag ...
StartBackend(c) ==
  /\ ~Apscheduler
  /\ IF ticking THEN Goto(c, "backend", "started")
                ELSE Goto(c, "backend", "spawn")
  /\ UNCHANGED <<stored, known, backend, running, todo, at, history, aps, bounds>>

\* ... and creates a thread.  Loops bounds how many live at the same time.
Spawn(c, t) ==
  /\ pc[c] = "spawn" /\ pc[t] = "dead"
  /\ ticking' = TRUE
  /\ thread' = t
  /\ pc' = [pc EXCEPT ![c] = "started", ![t] = "top"]
  /\ UNCHANGED <<stored, known, heap, callbacks, running, todo, at, history, aps, bounds>>

\* The library raises when it runs already, and _running is not set.
StartLibrary(c) ==
  /\ Apscheduler
  /\ IF ticking THEN Goto(c, "backend", "idle") ELSE Goto(c, "backend", "started")
  /\ ticking' = TRUE
  /\ UNCHANGED <<stored, known, heap, callbacks, thread, running, todo, at, history,
                 aps, bounds>>

StartReturns(c) ==
  /\ Goto(c, "started", "idle")
  /\ running' = TRUE
  /\ UNCHANGED <<stored, known, backend, todo, at, history, aps, bounds>>

-----------------------------------------------------------------------------
\* stop_scheduler.

StopCheck(c) ==
  /\ running
  /\ Goto(c, "idle", "stop")
  /\ UNCHANGED <<stored, known, backend, running, todo, at, history, aps, bounds>>

StopBackend(c) ==
  /\ ~Apscheduler
  /\ Goto(c, "stop", "join")
  /\ ticking' = FALSE
  /\ UNCHANGED <<stored, known, heap, callbacks, thread, running, todo, at, history, aps, bounds>>

\* shutdown(wait=False) forgets the jobs and leaves the runs under way alone;
\* it raises when the library does not run.
StopLibrary(c) ==
  /\ Apscheduler
  /\ IF ticking
     THEN /\ Goto(c, "stop", "join")
          /\ heap' = EmptyHeap /\ callbacks' = {}
          /\ ticking' = FALSE /\ library' = "shut"
     ELSE Goto(c, "stop", "idle") /\ UNCHANGED <<heap, callbacks, ticking, library>>
  /\ UNCHANGED <<stored, known, thread, running, todo, at, history, jobs, bounds>>

\* The join ends with the thread, or after 5 seconds if a callback is longer.
StopReturns(c) ==
  /\ \/ thread = NoLoop
     \/ thread # NoLoop /\ pc[thread] \in {"dead", "fire", "enqueue"}
  /\ Goto(c, "join", "idle")
  /\ running' = FALSE
  /\ UNCHANGED <<stored, known, backend, todo, at, history, aps, bounds>>

-----------------------------------------------------------------------------
\* _HeapScheduler._loop.

LoopCheck(t) ==
  /\ IF ticking THEN Goto(t, "top", "select") ELSE Goto(t, "top", "dead")
  /\ UNCHANGED <<stored, known, backend, running, todo, at, history, aps, bounds>>

\* Nothing is due: wait on the condition and look at the flag again.
LoopWait(t) ==
  /\ \A s \in Schedules : heap[s][0] = 0
  /\ Goto(t, "select", "top")
  /\ UNCHANGED <<stored, known, backend, running, todo, at, history, aps, bounds>>

\* Pop a due entry; an entry without a callback is dropped.
LoopTake(t, s) ==
  /\ pc[t] = "select" /\ heap[s][0] > 0
  /\ heap' = [heap EXCEPT ![s][0] = @ - 1]
  /\ IF s \in callbacks
     THEN Goto(t, "select", "fire") /\ WorkOn(t, s)
     ELSE Goto(t, "select", "top") /\ UNCHANGED at
  /\ UNCHANGED <<stored, known, callbacks, ticking, thread, running, todo, history, aps, bounds>>

\* Mutant: the callback uses the configuration it was registered with.
FireLoadCached(t) ==
  /\ Goto(t, "fire", "enqueue")
  /\ UNCHANGED <<stored, known, backend, running, todo, at, history, aps, bounds>>

\* _on_schedule_fire looks the schedule up in the store again ...
FireLoad(t) ==
  /\ IF at[t] \in stored THEN Goto(t, "fire", "enqueue")
                         ELSE Goto(t, "fire", "fired")
  /\ UNCHANGED <<stored, known, backend, running, todo, at, history, aps, bounds>>

\* ... and enqueues a job under the key sched:<id>:<second>, which is the
\* same job if s enqueued one earlier in this second.
FireEnqueue(t) ==
  /\ Goto(t, "enqueue", "fired")
  /\ since' = [since EXCEPT ![at[t]] = 0]
  /\ UNCHANGED <<stored, known, backend, running, todo, at, armed, aps, bounds>>

\* Mutant: the exception skips the code that puts the entry back.
FireFailsForGood(t) ==
  /\ Goto(t, "enqueue", "top") /\ WorkOn(t, NoSchedule)
  /\ UNCHANGED <<stored, known, backend, running, todo, history, aps, bounds>>

\* Building the contract or enqueue raised; the exception is logged.
FireFails(t) ==
  /\ Goto(t, "enqueue", "fired")
  /\ UNCHANGED <<stored, known, backend, running, todo, at, history, aps, bounds>>

\* Mutant: the new entry is due at once, next_ts + interval after a slow callback.
RequeueAtOnce(t) ==
  /\ Goto(t, "fired", "top") /\ WorkOn(t, NoSchedule)
  /\ heap' = IF at[t] \in callbacks THEN [heap EXCEPT ![at[t]][0] = @ + 1] ELSE heap
  /\ UNCHANGED <<stored, known, callbacks, ticking, thread, running, todo, history, aps, bounds>>

\* Mutant: the entry goes back on the heap though its schedule was removed.
RequeueUnchecked(t) ==
  /\ Goto(t, "fired", "top") /\ WorkOn(t, NoSchedule)
  /\ Push(at[t])
  /\ UNCHANGED <<stored, known, callbacks, ticking, thread, running, todo, history, aps, bounds>>

\* Back on the heap, unless the schedule was removed meanwhile.
Requeue(t) ==
  /\ Goto(t, "fired", "top") /\ WorkOn(t, NoSchedule)
  /\ IF at[t] \in callbacks THEN Push(at[t]) ELSE UNCHANGED heap
  /\ UNCHANGED <<stored, known, callbacks, ticking, thread, running, todo, history, aps, bounds>>

-----------------------------------------------------------------------------
\* The library's scheduler thread hands a due job to a thread of the pool,
\* unless a run of it is under way, or lets a run pass that comes too late.

LibraryFires(t, s) ==
  /\ Apscheduler /\ ticking
  /\ heap[s][0] > 0 /\ InFlight(s) = {}
  /\ Goto(t, "dead", "fire") /\ WorkOn(t, s)
  /\ NextRun(s)
  /\ UNCHANGED <<stored, known, callbacks, ticking, thread, running, todo, history, aps, bounds>>

LibrarySkips(s) ==
  /\ Apscheduler /\ ticking
  /\ heap[s][0] > 0
  /\ NextRun(s)
  /\ UNCHANGED <<stored, known, callbacks, ticking, thread, running, todo, pc, at,
                 history, aps, bounds>>

RunReturns(t) ==
  /\ Apscheduler
  /\ Goto(t, "fired", "dead") /\ WorkOn(t, NoSchedule)
  /\ UNCHANGED <<stored, known, backend, running, todo, history, aps, bounds>>

-----------------------------------------------------------------------------
Closer(s) ==   \* heap[s] one second later
  [d \in Due(s) |-> (IF d < Interval[s] THEN heap[s][d + 1] ELSE 0)
                    + (IF d = 0 THEN heap[s][0] ELSE 0)]

Tick ==
  /\ heap' = [s \in Schedules |-> Closer(s)]
  /\ since' = [s \in Schedules |-> IF since[s] < Interval[s] THEN since[s] + 1
                                                             ELSE since[s]]
  /\ UNCHANGED <<stored, known, callbacks, ticking, thread, running, todo, pc,
                 at, armed, aps, bounds>>

\* The process dies and is started again: only the file is left.
Crash ==
  /\ crashes < MaxCrashes
  /\ crashes' = crashes + 1
  /\ heap' = EmptyHeap /\ callbacks' = {}
  /\ ticking' = FALSE /\ thread' = NoLoop /\ running' = FALSE
  /\ library' = (IF Apscheduler THEN "open" ELSE "none") /\ jobs' = {}
  /\ todo' = NothingTodo /\ pc' = NoCall /\ at' = NoWork
  /\ armed' = NeverArmed
  /\ UNCHANGED <<stored, known, since, starts>>

InCall(c) ==
  \/ AddArm(c) \/ AddToLibrary(c) \/ AddKeep(c)
  \/ RemoveDisarm(c) \/ RemovePop(c) \/ RemoveFromLibrary(c)
  \/ c \in Managers /\
     \/ RestoreLoad(c) \/ RestoreKeep(c) \/ RestoreDone(c)
     \/ \E s \in Schedules : RestoreOne(c, s) \/ RestoreToLibrary(c, s)
     \/ StartBackend(c) \/ StartLibrary(c) \/ \E t \in Loops : Spawn(c, t)
     \/ StartReturns(c)
     \/ StopBackend(c) \/ StopLibrary(c) \/ StopReturns(c)

CallerStep(c) ==
  \/ \E s \in Schedules : AddSave(c, s) \/ RemoveDelete(c, s)
  \/ c \in Managers /\ (StartCheck(c) \/ StopCheck(c))
  \/ InCall(c)

LoopStep(t) ==
  \/ ~Apscheduler /\ \/ LoopCheck(t) \/ LoopWait(t) \/ Requeue(t)
                     \/ \E s \in Schedules : LoopTake(t, s)
  \/ FireLoad(t) \/ FireEnqueue(t) \/ FireFails(t)
  \/ RunReturns(t)

Next ==
  \/ \E c \in Callers : CallerStep(c)
  \/ \E t \in Loops : LoopStep(t)
  \/ \E s \in Schedules : LibrarySkips(s) \/ \E t \in Loops : LibraryFires(t, s)
  \/ Tick
  \/ Crash

Spec == Init /\ [][Next]_vars

\* Threads run, calls go on once begun and time passes.  The heap gives its
\* earliest entry first, so a due entry is not overtaken for ever; the library
\* fires a job that is due again and again, unless it was shut down before.
FairSpec ==
  /\ Spec
  /\ WF_vars(Tick)
  /\ \A c \in Callers : WF_vars(InCall(c))
  /\ \A t \in Loops : WF_vars(LoopStep(t))
  /\ \A s \in Schedules : SF_vars(\E t \in Loops : LoopTake(t, s))
  /\ \A s \in Schedules :
       SF_vars(library = "open" /\ \E t \in Loops : LibraryFires(t, s))

-----------------------------------------------------------------------------
\* While the scheduler runs, every stored schedule whose add_schedule has
\* told the backend has a callback and is on the heap, or is with a loop that
\* will put it back: no interleaving of add_schedule, remove_schedule, a restart
\* and a fire that fails loses a schedule.
StoredIsArmed ==
  \A s \in stored :
    running /\ ticking /\ ~(\E c \in Callers : pc[c] = "add" /\ at[c] = s) =>
      /\ s \in callbacks
      /\ (\E d \in Due(s) : heap[s][d] > 0) \/ InFlight(s) # {}

\* Without APScheduler, a schedule that the process registered once enqueues no new job sooner
\* than its interval after the last one, crashes and slow callbacks included.
FrequencyKept ==
  \A t \in Loops : ~Apscheduler /\ pc[t] = "enqueue" /\ armed[at[t]] <= 1 =>
    since[at[t]] \in {0, Interval[at[t]]}

\* A running scheduler fires every stored schedule again and again.  Nothing
\* in the code says that APScheduler does once it was shut down and restarted.
ScheduledFires ==
  \A s \in Schedules :
    (running /\ s \in stored /\ library # "shut") ~>
      \/ \E t \in Loops : pc[t] = "enqueue" /\ at[t] = s
      \/ ~running \/ s \notin stored

\* A removed schedule stops for good, though remove_schedule may meet a
\* restore that puts its entry back on the heap, or a fire already under way.
RemovedStops ==
  \A s \in Schedules :
    (s \in known \ stored) ~>
      [](\A t \in Loops : ~(pc[t] = "enqueue" /\ at[t] = s))
=============================================================================
