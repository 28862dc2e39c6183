------------------------------- MODULE Webhook -------------------------------
(***************************************************************************)
(* The webhook receiver of layer1_orchestration/webhook/receiver.py: the   *)
(* rate limit, process_webhook with its built-in handlers, the failed      *)
(* events kept in memory and in _failed_events.json, and the retry         *)
(* endpoint.                                                               *)
(*                                                                         *)
(* A receiver is a process with one event loop: POST /webhook gives way to *)
(* other requests only where it awaits its body, and the retry endpoint    *)
(* nowhere.  Another receiver on the same directory, or a death of the     *)
(* process, can come between any two effects, so these are steps: so are   *)
(* the look-up of a job's key and the save of the job in JobQueue.enqueue. *)
(*                                                                         *)
(* The entries of one event are alike, so a list of failed events is the   *)
(* number of entries of each event; a list of timestamps is the age of     *)
(* each request in it.  The requests served and _recent_events, which only *)
(* GET /webhook/status shows, are left out.                                *)
(***************************************************************************)
EXTENDS Integers, FiniteSets

CONSTANTS
  Receivers,      \* processes that share FAILED_EVENTS_PATH
  Clients,        \* client addresses, the keys of _rate_limiter
  Events,         \* deliveries that differ; a sender may repeat each of them
  Scans,          \* events whose handler enqueues a job (scan_request)
  Rejected,       \* events with a bad signature, bad JSON or no event_type
  Named,          \* scans that carry a scan_id or an event_id
  NoEvent,
  Window,         \* RATE_LIMIT_WINDOW, in ticks
  RateLimitMax,   \* RATE_LIMIT_MAX
  MaxSent,        \* bound: requests accepted
  MaxFaults,      \* bound: handler exceptions
  MaxIOErrors,    \* bound: OSErrors on the file of failed events
  MaxCrashes      \* bound: deaths of a receiver

ASSUME ConstantsOK ==
  /\ Scans \subseteq Events /\ Rejected \subseteq Events
  /\ Scans \cap Rejected = {} /\ Named \subseteq Scans
  /\ NoEvent \notin Events /\ IsFiniteSet(Receivers)
  /\ Window \in Nat \ {0} /\ RateLimitMax \in Nat \ {0}
  /\ {MaxSent, MaxFaults, MaxIOErrors, MaxCrashes} \subseteq Nat

VARIABLES
  stamps,   \* stamps[r][c][n]: the age of c's request, the n-th accepted
  waiting,  \* waiting[r]: accepted requests that await their body
  failed,   \* failed[r]: _failed_events
  file,     \* _failed_events.json
  todo,     \* todo[r]: what the retry endpoint has yet to retry
  jobs,     \* jobs[e]: how many jobs were made from e
  pc, hand, \* where r is, and the event it saves a job for or whose failure
            \* it records
  owed,     \* failed scans answered 500 after their entry was written, that
            \* no retry has run again (history variable)
  sent, faults, ioErrors, crashes   \* what has happened, against the bounds

limiter == <<stamps, sent>>
flow == <<pc, hand>>
bounds == <<faults, ioErrors, crashes>>
vars == <<limiter, waiting, failed, file, todo, jobs, flow, owed, bounds>>

EmptyList == [n \in {} |-> 0]

None == [e \in Events |-> 0]
Add(bag, e) == [bag EXCEPT ![e] = @ + 1]
Less(bag, e) == [bag EXCEPT ![e] = @ - 1]

\* Idle in the event loop; about to save a job; writing an entry; inside the
\* retry endpoint; about to save a job there; removing the file.
PC == {"idle", "save", "persist", "retry", "resave", "clear"}

\* Lists of timestamps: ages of some of the accepted requests.
Lists == UNION {[requests -> 0..Window] : requests \in SUBSET (1..MaxSent)}

\* Every field has its type, and no client has more than RATE_LIMIT_MAX
\* requests in the list, fresh ones or ones not pruned yet.
TypeOK ==
  /\ stamps \in [Receivers -> [Clients -> Lists]]
  /\ \A r \in Receivers, c \in Clients :
       Cardinality(DOMAIN stamps[r][c]) <= RateLimitMax
  /\ waiting \in [Receivers -> SUBSET Events]
  /\ failed \in [Receivers -> [Events -> Nat]]
  /\ file \in [Events -> Nat]
  /\ todo \in [Receivers -> [Events -> Nat]]
  /\ jobs \in [Events -> Nat]
  /\ pc \in [Receivers -> PC]
  /\ hand \in [Receivers -> Events \cup {NoEvent}]
  /\ owed \subseteq Scans
  /\ sent \in 0..MaxSent
  /\ faults \in 0..MaxFaults /\ ioErrors \in 0..MaxIOErrors
  /\ crashes \in 0..MaxCrashes

Init ==
  /\ stamps = [r \in Receivers |-> [c \in Clients |-> EmptyList]]
  /\ waiting = [r \in Receivers |-> {}]
  /\ failed = [r \in Receivers |-> None]
  /\ file = None
  /\ todo = [r \in Receivers |-> None]
  /\ jobs = None
  /\ pc = [r \in Receivers |-> "idle"]
  /\ hand = [r \in Receivers |-> NoEvent]
  /\ owed = {}
  /\ sent = 0 /\ faults = 0 /\ ioErrors = 0 /\ crashes = 0

Goto(r, from, to) == pc[r] = from /\ pc' = [pc EXCEPT ![r] = to]

-----------------------------------------------------------------------------
\* _check_rate_limit, then the await of the body.

Fresh(r, c) == {n \in DOMAIN stamps[r][c] : stamps[r][c][n] < Window}

\* Mutant: one request too many.
FullLate(r, c) == Cardinality(Fresh(r, c)) > RateLimitMax
Full(r, c) == Cardinality(Fresh(r, c)) >= RateLimitMax

Accept(r, c, e) ==
  /\ pc[r] = "idle" /\ sent < MaxSent /\ e \notin waiting[r]
  /\ ~Full(r, c)
  /\ sent' = sent + 1
  /\ stamps' = [stamps EXCEPT ![r][c] =
       [n \in Fresh(r, c) \cup {sent + 1} |-> IF n = sent + 1 THEN 0 ELSE @[n]]]
  /\ waiting' = [waiting EXCEPT ![r] = @ \cup {e}]
  /\ UNCHANGED <<failed, file, todo, jobs, flow, owed, bounds>>

\* Mutant: a refused request renews those that fill the window.
RefuseCounted(r, c) ==
  /\ pc[r] = "idle"
  /\ Full(r, c)
  /\ stamps' = [stamps EXCEPT ![r][c] = [n \in Fresh(r, c) |-> 0]]
  /\ UNCHANGED <<sent, waiting, failed, file, todo, jobs, flow, owed, bounds>>

\* Answered 429; the list is pruned and the request is not added to it.
Refuse(r, c) ==
  /\ pc[r] = "idle"
  /\ Full(r, c)
  /\ stamps' = [stamps EXCEPT ![r][c] = [n \in Fresh(r, c) |-> @[n]]]
  /\ UNCHANGED <<sent, waiting, failed, file, todo, jobs, flow, owed, bounds>>

-----------------------------------------------------------------------------
\* process_webhook.

Received(r, e) ==
  /\ e \in waiting[r]
  /\ waiting' = [waiting EXCEPT ![r] = @ \ {e}]

\* Mutant: the key is drawn afresh for every delivery.
KnownNever(e) == FALSE

\* The queue has a job with the key webhook_scan_<id>; a scan without an id
\* gets a fresh uuid each time.
Known(e) == e \in Named /\ jobs[e] > 0

\* The scan handler: enqueue returns the job it finds, answered 200 ...
HandleKnown(r, e) ==
  /\ e \in Scans /\ pc[r] = "idle" /\ Received(r, e)
  /\ Known(e)
  /\ UNCHANGED <<limiter, failed, file, todo, jobs, flow, owed, bounds>>

\* ... or has found none and is about to save one ...
LookUp(r, e) ==
  /\ e \in Scans /\ Received(r, e)
  /\ ~Known(e)
  /\ Goto(r, "idle", "save")
  /\ hand' = [hand EXCEPT ![r] = e]
  /\ UNCHANGED <<limiter, failed, file, todo, jobs, owed, bounds>>

\* ... whatever has been saved since.
Save(r) ==
  /\ Goto(r, "save", "idle")
  /\ jobs' = Add(jobs, hand[r])
  /\ hand' = [hand EXCEPT ![r] = NoEvent]
  /\ UNCHANGED <<limiter, waiting, failed, file, todo, owed, bounds>>

\* An event without a handler, or one whose handler changes no state.
Acknowledge(r, e) ==
  /\ e \notin Scans \cup Rejected /\ pc[r] = "idle" /\ Received(r, e)
  /\ UNCHANGED <<limiter, failed, file, todo, jobs, flow, owed, bounds>>

\* _record_failed: the list first, then the file.
RecordFailed(r, from, e) ==
  /\ Goto(r, from, "persist")
  /\ hand' = [hand EXCEPT ![r] = e]
  /\ failed' = [failed EXCEPT ![r] = Add(@, e)]

Reject(r, e) ==
  /\ e \in Rejected /\ Received(r, e)
  /\ RecordFailed(r, "idle", e)
  /\ UNCHANGED <<limiter, file, todo, jobs, owed, bounds>>

\* The handler raises before it has looked up the key ...
HandlerRaises(r, e) ==
  /\ e \in Scans /\ Received(r, e)
  /\ faults < MaxFaults
  /\ faults' = faults + 1
  /\ RecordFailed(r, "idle", e)
  /\ UNCHANGED <<limiter, file, todo, jobs, owed, ioErrors, crashes>>

\* ... or in enqueue, before its first save or after it.
SaveRaises(r) ==
  /\ faults < MaxFaults
  /\ faults' = faults + 1
  /\ jobs' \in {jobs, Add(jobs, hand[r])}
  /\ RecordFailed(r, "save", hand[r])
  /\ UNCHANGED <<limiter, waiting, file, todo, owed, ioErrors, crashes>>

\* Mutant: the entry stays in memory.
PersistLazily(r) ==
  /\ Goto(r, "persist", "idle")
  /\ hand' = [hand EXCEPT ![r] = NoEvent]
  /\ owed' = IF hand[r] \in Scans THEN owed \cup {hand[r]} ELSE owed
  /\ UNCHANGED <<limiter, waiting, failed, file, todo, jobs, bounds>>

\* _persist_failed_event appends a line, and the error is answered.
Persist(r) ==
  /\ Goto(r, "persist", "idle")
  /\ hand' = [hand EXCEPT ![r] = NoEvent]
  /\ file' = Add(file, hand[r])
  /\ owed' = IF hand[r] \in Scans THEN owed \cup {hand[r]} ELSE owed
  /\ UNCHANGED <<limiter, waiting, failed, todo, jobs, bounds>>

\* The OSError is swallowed: only the list holds the entry.
PersistFails(r) ==
  /\ ioErrors < MaxIOErrors
  /\ ioErrors' = ioErrors + 1
  /\ Goto(r, "persist", "idle")
  /\ hand' = [hand EXCEPT ![r] = NoEvent]
  /\ UNCHANGED <<limiter, waiting, failed, file, todo, jobs, owed, faults, crashes>>

-----------------------------------------------------------------------------
\* POST /webhook/failed/retry.

Retry(r) ==
  /\ Goto(r, "idle", "retry")
  /\ todo' = [todo EXCEPT ![r] = failed[r]]
  /\ UNCHANGED <<limiter, waiting, failed, file, jobs, hand, owed, bounds>>

RetryNext(r, e) ==
  /\ pc[r] = "retry" /\ todo[r][e] > 0
  /\ todo' = [todo EXCEPT ![r] = Less(@, e)]

\* The handler runs on an entry that has a payload and an event_type: it is
\* done when it finds the job, or raises (result "retry_failed") ...
RetryRuns(r, e) ==
  /\ e \in Scans /\ RetryNext(r, e)
  /\ owed' = owed \ {e}
  /\ \/ Known(e) /\ UNCHANGED bounds
     \/ /\ faults < MaxFaults
        /\ faults' = faults + 1
        /\ UNCHANGED <<ioErrors, crashes>>
  /\ UNCHANGED <<limiter, waiting, failed, file, jobs, flow>>

\* ... or has found none and is about to save one ...
RetryLooksUp(r, e) ==
  /\ e \in Scans /\ RetryNext(r, e)
  /\ ~Known(e)
  /\ Goto(r, "retry", "resave")
  /\ hand' = [hand EXCEPT ![r] = e]
  /\ UNCHANGED <<limiter, waiting, failed, file, jobs, owed, bounds>>

\* ... which may raise, before the first save or after it.
RetrySaves(r) ==
  /\ Goto(r, "resave", "retry")
  /\ owed' = owed \ {hand[r]}
  /\ hand' = [hand EXCEPT ![r] = NoEvent]
  /\ \/ jobs' = Add(jobs, hand[r]) /\ UNCHANGED bounds
     \/ /\ faults < MaxFaults
        /\ faults' = faults + 1
        /\ jobs' \in {jobs, Add(jobs, hand[r])}
        /\ UNCHANGED <<ioErrors, crashes>>
  /\ UNCHANGED <<limiter, waiting, failed, file, todo>>

\* ... and the others are passed over.
RetrySkips(r, e) ==
  /\ e \notin Scans /\ RetryNext(r, e)
  /\ UNCHANGED <<limiter, waiting, failed, file, jobs, flow, owed, bounds>>

\* clear_failed empties the list, whatever the retries gave ...
ClearFailed(r) ==
  /\ todo[r] = None
  /\ Goto(r, "retry", "clear")
  /\ failed' = [failed EXCEPT ![r] = None]
  /\ UNCHANGED <<limiter, waiting, file, todo, jobs, hand, owed, bounds>>

\* Mutant: the list is emptied and the file stays.
RemoveNothing(r) ==
  /\ Goto(r, "clear", "idle")
  /\ UNCHANGED <<limiter, waiting, failed, file, todo, jobs, hand, owed, bounds>>

\* ... and removes the file, with the entries of every receiver.
RemoveFile(r) ==
  /\ Goto(r, "clear", "idle")
  /\ file' = None
  /\ UNCHANGED <<limiter, waiting, failed, todo, jobs, hand, owed, bounds>>

RemoveFails(r) ==
  /\ ioErrors < MaxIOErrors
  /\ ioErrors' = ioErrors + 1
  /\ Goto(r, "clear", "idle")
  /\ UNCHANGED <<limiter, waiting, failed, file, todo, jobs, hand, owed, faults, crashes>>

-----------------------------------------------------------------------------
\* The process dies, its connections with it, and a new one loads the file.
Restart(r) ==
  /\ crashes < MaxCrashes
  /\ crashes' = crashes + 1
  /\ \/ failed' = [failed EXCEPT ![r] = file] /\ UNCHANGED ioErrors
     \/ /\ ioErrors < MaxIOErrors   \* _load_failed_events swallows an OSError
        /\ ioErrors' = ioErrors + 1
        /\ failed' = [failed EXCEPT ![r] = None]
  /\ stamps' = [stamps EXCEPT ![r] = [c \in Clients |-> EmptyList]]
  /\ waiting' = [waiting EXCEPT ![r] = {}]
  /\ todo' = [todo EXCEPT ![r] = None]
  /\ pc' = [pc EXCEPT ![r] = "idle"]
  /\ hand' = [hand EXCEPT ![r] = NoEvent]
  /\ UNCHANGED <<sent, file, jobs, owed, faults>>

\* What is older than the window stays so, and is pruned by the next request.
Older(age) == IF age < Window THEN age + 1 ELSE age

Tick ==
  /\ stamps' = [r \in Receivers |-> [c \in Clients |->
       [n \in DOMAIN stamps[r][c] |-> Older(stamps[r][c][n])]]]
  /\ UNCHANGED <<sent, waiting, failed, file, todo, jobs, flow, owed, bounds>>

InCall(r) ==
  \/ Save(r) \/ SaveRaises(r) \/ Persist(r) \/ PersistFails(r)
  \/ \E e \in Events : RetryRuns(r, e) \/ RetryLooksUp(r, e) \/ RetrySkips(r, e)
  \/ RetrySaves(r)
  \/ ClearFailed(r) \/ RemoveFile(r) \/ RemoveFails(r)

ReceiverStep(r) ==
  \/ \E c \in Clients, e \in Events : Accept(r, c, e)
  \/ \E c \in Clients : Refuse(r, c)
  \/ \E e \in Events :
       \/ HandleKnown(r, e) \/ LookUp(r, e) \/ HandlerRaises(r, e)
       \/ Acknowledge(r, e) \/ Reject(r, e)
  \/ Retry(r)
  \/ InCall(r)
  \/ Restart(r)

Next == Tick \/ \E r \in Receivers : ReceiverStep(r)

Spec == Init /\ [][Next]_vars

\* Time passes and a call goes on once begun; nothing makes a sender send.
FairSpec ==
  Spec /\ WF_vars(Tick) /\ \A r \in Receivers : WF_vars(InCall(r))

-----------------------------------------------------------------------------
\* A scan that names itself becomes at most as many jobs as there are
\* receivers, one with one receiver: redelivery after a lost answer, a retry of
\* a handler that failed halfway, and entries that a restart reloads and that
\* are retried once more, all meet the same key.  Receivers that look it up at
\* the same time each make a job (job_queue.py:58-68), and no more come.
OneJobPerScan == \A e \in Named : jobs[e] <= Cardinality(Receivers)

\* But for the moments when an entry is being written or the file removed, the
\* list is what the file says, so a restart changes nothing: one receiver, no
\* OSError.
DiskMatchesMemory ==
  \A r \in Receivers :
    Receivers = {r} /\ ioErrors = 0 /\ pc[r] \notin {"persist", "clear"} => failed[r] = file

\* A scan whose failure was answered and written is in the list that the next
\* retry works through, or under way or to come in a retry that has begun,
\* across restarts.
FailureAwaitsRetry ==
  \A r \in Receivers, e \in owed :
    Receivers = {r} /\ ioErrors = 0 =>
      IF pc[r] \in {"retry", "resave"}
        THEN todo[r][e] > 0 \/ (pc[r] = "resave" /\ hand[r] = e)
        ELSE failed[r][e] > 0

\* A client that goes on sending while it is refused is accepted again.
NotShutOut ==
  \A r \in Receivers, c \in Clients : []<>~Full(r, c)
=============================================================================
