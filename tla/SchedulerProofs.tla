---------------------------- MODULE SchedulerProofs ----------------------------
(***************************************************************************)
(* Proofs about Scheduler, for any schedules with any intervals, any       *)
(* number of callers, managers and loops, starts and crashes.              *)
(***************************************************************************)
EXTENDS Scheduler, TLAPS

Flying(t) == pc[t] \in {"fire", "enqueue", "fired"}

AtSchedule == {"add", "add_keep", "remove", "remove_job", "restore_keep"}
Removing == {"remove", "remove_job"}

\* Who works on a schedule works on one that exists; what is being removed
\* is no longer stored, and ids are never given out again.
Places ==
  /\ \A c \in Callers : pc[c] \in AtSchedule => at[c] \in known
  /\ \A c \in Callers : pc[c] \in Removing => at[c] \notin stored
  /\ \A t \in Loops : Flying(t) => at[t] \in Schedules

OnHeap(s) == \E d \in Due(s) : heap[s][d] > 0
\* A loop of the heap has the entry of the schedule it fires; the library's stays.
Held(s) == ~Apscheduler /\ \E t \in Loops : Flying(t) /\ at[t] = s
Armed(s) == s \in callbacks /\ (OnHeap(s) \/ Held(s))
BeingAdded(s) == \E c \in Callers : pc[c] = "add" /\ at[c] = s

\* No start has passed s by, and none has come to its end.  The library forgets
\* its jobs when it is stopped, and until then a stop may be under way.
ToBeRestored(s) ==
  /\ IF Apscheduler THEN ~ticking ELSE ~running
  /\ \A c \in Managers :
       \/ pc[c] \in {"idle", "add", "add_keep", "remove", "remove_job", "load"}
       \/ Apscheduler /\ pc[c] \in {"stop", "join"}
       \/ pc[c] \in {"restore", "restore_keep"} /\ s \in todo[c]

\* With the library, a start that began before another manager's stop would
\* end over a backend that has forgotten its jobs.
OneManager == \A b, c \in Managers : b = c
Accounted(s) == BeingAdded(s) \/ Armed(s) \/ ToBeRestored(s)
NoneForgotten == (Apscheduler => OneManager) => \A s \in stored : Accounted(s)

\* A schedule that was registered once has one entry or is with one loop, and
\* the entry is due when its interval has passed.
NoEntry(s) == \A d \in Due(s) : heap[s][d] = 0
Single(s) ==
  /\ \A d, e \in Due(s) : heap[s][d] <= 1 /\ (heap[s][d] > 0 /\ heap[s][e] > 0 => d = e)
  /\ \A t \in Loops : Flying(t) /\ at[t] = s => NoEntry(s)
  /\ \A t, u \in Loops : Flying(t) /\ at[t] = s /\ Flying(u) /\ at[u] = s => t = u
  /\ \A d \in Due(s) : heap[s][d] > 0 => since[s] + d >= Interval[s]
  /\ \A t \in Loops : pc[t] \in {"fire", "enqueue"} /\ at[t] = s => since[s] = Interval[s]
Untouched(s) == NoEntry(s) /\ \A t \in Loops : Flying(t) => at[t] # s

OnceInFlight(s) ==
  ~Apscheduler => /\ armed[s] = 0 => Untouched(s)
                  /\ armed[s] <= 1 => Single(s)

IInv == Typed /\ Places /\ NoneForgotten /\ \A s \in Schedules : OnceInFlight(s)

LEMMA InitHolds == Init => IInv
<1>. SUFFICES ASSUME Init PROVE IInv
  OBVIOUS
<1>. USE ConstantsOK DEF Init, NothingTodo, NoCall, NoWork, NeverArmed, EmptyHeap
<1>1. Typed
  <2>1. \A s \in Schedules : heap[s] = [d \in Due(s) |-> 0] /\ heap[s] \in [Due(s) -> Nat]
    BY DEF Due
  <2>2. heap = [s \in Schedules |-> heap[s]]
    OBVIOUS
  <2>3. since \in [Schedules -> Nat] /\ \A s \in Schedules : since[s] \in Due(s)
    BY DEF Due
  <2>4. /\ pc \in [Threads -> CallerPC \cup LoopPC]
        /\ \A c \in Callers : pc[c] \in CallerPC
        /\ \A t \in Loops : pc[t] \in LoopPC
    BY DEF Threads, CallerPC, LoopPC
  <2>5. /\ stored \subseteq known /\ known \subseteq Schedules /\ callbacks \subseteq known
        /\ ticking \in BOOLEAN /\ running \in BOOLEAN /\ thread \in Loops \cup {NoLoop}
    OBVIOUS
  <2>6. todo \in [Managers -> SUBSET known]
    OBVIOUS
  <2>7. at \in [Threads -> Schedules \cup {NoSchedule}]
    OBVIOUS
  <2>8. armed \in [Schedules -> 0 .. 2]
    OBVIOUS
  <2>9. /\ starts \in 0 .. MaxStarts /\ crashes \in 0 .. MaxCrashes
        /\ library \in {"none", "open", "shut"} /\ jobs \subseteq known
    OBVIOUS
  <2>. HIDE DEF Init, EmptyHeap
  <2>. QED BY <2>1, <2>2, <2>3, <2>4, <2>5, <2>6, <2>7, <2>8, <2>9 DEF Typed
<1>2. \A p \in Threads : pc[p] \in {"idle", "dead"}
  OBVIOUS
<1>3. Places
  BY <1>2 DEF Places, AtSchedule, Removing, Flying, Threads
<1>4. NoneForgotten
  BY DEF NoneForgotten, Accounted, Apscheduler
<1>5. ASSUME NEW s \in Schedules PROVE OnceInFlight(s)
  BY <1>2 DEF OnceInFlight, Apscheduler, Untouched, Single, NoEntry, Flying, Threads
<1>. QED BY <1>1, <1>3, <1>4, <1>5 DEF IInv

\* What a caller does, as the loops see it: nothing.
LEMMA MoveFits ==
  ASSUME Typed, NEW p \in Threads, NEW from, NEW to, Goto(p, from, to)
  PROVE  /\ pc[p] = from /\ pc'[p] = to
         /\ \A q \in Threads \ {p} : pc'[q] = pc[q]
         /\ p \in Callers /\ to \in CallerPC =>
              /\ pc' \in [Threads -> CallerPC \cup LoopPC]
              /\ \A c \in Callers : pc'[c] \in CallerPC
              /\ \A t \in Loops : pc'[t] \in LoopPC /\ pc'[t] = pc[t]
         /\ p \in Loops /\ to \in LoopPC =>
              /\ pc' \in [Threads -> CallerPC \cup LoopPC]
              /\ \A c \in Callers : pc'[c] \in CallerPC /\ pc'[c] = pc[c]
              /\ \A t \in Loops : pc'[t] \in LoopPC
  BY ConstantsOK DEF Typed, Goto, Threads

LEMMA WorkFits ==
  ASSUME Typed, NEW p \in Threads, NEW s \in Schedules \cup {NoSchedule}, WorkOn(p, s)
  PROVE  /\ at' \in [Threads -> Schedules \cup {NoSchedule}] /\ at'[p] = s
         /\ \A q \in Threads \ {p} : at'[q] = at[q]
  BY DEF Typed, WorkOn

-----------------------------------------------------------------------------
(* The heap.                                                                *)

LEMMA PushFits ==
  ASSUME Typed, NEW s \in Schedules, Push(s)
  PROVE  /\ heap' = [r \in Schedules |-> heap'[r]]
         /\ \A r \in Schedules : heap'[r] \in [Due(r) -> Nat]
         /\ \A r \in Schedules \ {s} : heap'[r] = heap[r]
         /\ \A d \in Due(s) \ {Interval[s]} : heap'[s][d] = heap[s][d]
         /\ Interval[s] \in Due(s)
         /\ heap'[s][Interval[s]] = heap[s][Interval[s]] + 1
<1>1. /\ heap[s] \in [Due(s) -> Nat] /\ heap = [r \in Schedules |-> heap[r]]
      /\ \A r \in Schedules : heap[r] \in [Due(r) -> Nat]
  BY DEF Typed
<1>2. Interval[s] \in Due(s)
  BY ConstantsOK DEF Due
<1>. DEFINE h == [heap[s] EXCEPT ![Interval[s]] = @ + 1]
<1>3. /\ h \in [Due(s) -> Nat] /\ h[Interval[s]] = heap[s][Interval[s]] + 1
      /\ \A d \in Due(s) \ {Interval[s]} : h[d] = heap[s][d]
  BY <1>1, <1>2
<1>4. heap' = [heap EXCEPT ![s] = h]
  BY DEF Push
<1>. HIDE DEF h
<1>5. heap' = [r \in Schedules |-> IF r = s THEN h ELSE heap[r]]
  BY <1>1, <1>4
<1>. QED BY <1>1, <1>2, <1>3, <1>5

LEMMA DisarmFits ==
  ASSUME Typed, NEW s \in Schedules, Disarm(s)
  PROVE  /\ heap' = [r \in Schedules |-> heap'[r]]
         /\ \A r \in Schedules : heap'[r] \in [Due(r) -> Nat]
         /\ \A r \in Schedules \ {s} : heap'[r] = heap[r]
         /\ \A d \in Due(s) : heap'[s][d] = 0
<1>. DEFINE h == [d \in Due(s) |-> 0]
<1>1. h \in [Due(s) -> Nat] /\ \A d \in Due(s) : h[d] = 0
  OBVIOUS
<1>2. heap' = [heap EXCEPT ![s] = h]
  BY DEF Disarm
<1>. HIDE DEF h
<1>3. heap' = [r \in Schedules |-> IF r = s THEN h ELSE heap[r]]
  BY <1>2 DEF Typed
<1>. QED BY <1>1, <1>3 DEF Typed

LEMMA TakeFits ==
  ASSUME Typed, NEW s \in Schedules, heap[s][0] > 0, heap' = [heap EXCEPT ![s][0] = @ - 1]
  PROVE  /\ heap' = [r \in Schedules |-> heap'[r]]
         /\ \A r \in Schedules : heap'[r] \in [Due(r) -> Nat]
         /\ \A r \in Schedules \ {s} : heap'[r] = heap[r]
         /\ \A d \in Due(s) \ {0} : heap'[s][d] = heap[s][d]
         /\ 0 \in Due(s) /\ heap'[s][0] = heap[s][0] - 1
<1>1. heap[s] \in [Due(s) -> Nat] /\ 0 \in Due(s)
  BY ConstantsOK DEF Typed, Due
<1>. DEFINE h == [heap[s] EXCEPT ![0] = @ - 1]
<1>2. /\ h \in [Due(s) -> Nat] /\ h[0] = heap[s][0] - 1
      /\ \A d \in Due(s) \ {0} : h[d] = heap[s][d]
  BY <1>1
<1>3. heap' = [heap EXCEPT ![s] = h]
  OBVIOUS
<1>. HIDE DEF h
<1>4. heap' = [r \in Schedules |-> IF r = s THEN h ELSE heap[r]]
  BY <1>3 DEF Typed
<1>. QED BY <1>1, <1>2, <1>4 DEF Typed

LEMMA CloserFits ==
  ASSUME Typed, NEW s \in Schedules
  PROVE  /\ Closer(s) \in [Due(s) -> Nat]
         /\ Interval[s] = 0 => \A d \in Due(s) : Closer(s)[d] = heap[s][d]
         /\ Interval[s] > 0 => Closer(s)[0] = heap[s][1] + heap[s][0]
         /\ \A d \in Due(s) \ {0} :
              Closer(s)[d] = IF d < Interval[s] THEN heap[s][d + 1] ELSE 0
<1>1. heap[s] \in [Due(s) -> Nat] /\ Interval[s] \in Nat
  BY ConstantsOK DEF Typed
<1>2. \A d \in Due(s) : d \in Nat /\ (d < Interval[s] => d + 1 \in Due(s))
  BY <1>1 DEF Due
<1>3. \A d \in Due(s) : Closer(s)[d] = (IF d < Interval[s] THEN heap[s][d + 1] ELSE 0)
                                        + (IF d = 0 THEN heap[s][0] ELSE 0)
  BY DEF Closer
<1>4. ASSUME NEW d \in Due(s) PROVE Closer(s)[d] \in Nat
  <2>1. d < Interval[s] => heap[s][d + 1] \in Nat
    BY <1>1, <1>2
  <2>2. heap[s][0] \in Nat
    BY <1>1 DEF Due
  <2>. QED BY <1>3, <2>1, <2>2
<1>5. Closer(s) \in [Due(s) -> Nat]
  BY <1>4 DEF Closer
<1>6. 0 \in Due(s)
  BY <1>1 DEF Due
<1>7. ASSUME Interval[s] = 0 PROVE \A d \in Due(s) : Closer(s)[d] = heap[s][d]
  BY <1>1, <1>2, <1>3, <1>7 DEF Due
<1>8. ASSUME Interval[s] > 0 PROVE Closer(s)[0] = heap[s][1] + heap[s][0]
  <2>1. Closer(s)[0] = (IF 0 < Interval[s] THEN heap[s][0 + 1] ELSE 0) + heap[s][0]
    BY <1>3, <1>6
  <2>. QED BY <1>8, <2>1
<1>9. ASSUME NEW d \in Due(s) \ {0}
      PROVE  Closer(s)[d] = IF d < Interval[s] THEN heap[s][d + 1] ELSE 0
  BY <1>1, <1>2, <1>3
<1>. QED BY <1>5, <1>7, <1>8, <1>9

-----------------------------------------------------------------------------
(* What keeps the parts of the invariant.                                   *)

\* Loops only go on with what they have, and no entry is touched.
LEMMA FlightsEndKeep ==
  ASSUME NEW s \in Schedules, OnceInFlight(s),
         heap' = heap, since' = since, armed' = armed, library' = library,
         \A t \in Loops : Flying(t)' => Flying(t) /\ at'[t] = at[t],
         \A t \in Loops : pc'[t] \in {"fire", "enqueue"} => pc[t] \in {"fire", "enqueue"}
  PROVE  OnceInFlight(s)'
  BY DEF OnceInFlight, Apscheduler, Untouched, Single, NoEntry, Flying

LoopsLeftAlone == \A t \in Loops : pc'[t] = pc[t] /\ at'[t] = at[t]

LEMMA ArmKeeps ==
  ASSUME IInv, ~Apscheduler, NEW s \in Schedules, Arm(s), since' = since, library' = library,
         LoopsLeftAlone
  PROVE  /\ \A r \in Schedules : OnceInFlight(r)'
         /\ Armed(s)'
         /\ \A r \in Schedules : Armed(r) => Armed(r)'
<1>1. /\ \A r \in Schedules \ {s} : heap'[r] = heap[r]
      /\ \A d \in Due(s) \ {Interval[s]} : heap'[s][d] = heap[s][d]
      /\ Interval[s] \in Due(s)
      /\ heap'[s][Interval[s]] = heap[s][Interval[s]] + 1
      /\ callbacks' = callbacks \cup {s}
  BY PushFits DEF IInv, Arm
<1>2. /\ \A r \in Schedules \ {s} : armed'[r] = armed[r]
      /\ armed'[s] = IF armed[s] < 2 THEN armed[s] + 1 ELSE armed[s]
      /\ armed[s] \in 0 .. 2
  BY DEF IInv, Typed, Arm
<1>3. \A d \in Due(s) : d \in Nat /\ heap[s][d] \in Nat
  <2>1. heap[s] \in [Due(s) -> Nat]
    BY DEF IInv, Typed
  <2>. QED BY <2>1, ConstantsOK DEF Due
<1>4. ASSUME NEW r \in Schedules, r # s PROVE OnceInFlight(r)'
  BY <1>1, <1>2, <1>4
  DEF IInv, OnceInFlight, Apscheduler, Untouched, Single, NoEntry, Flying, LoopsLeftAlone
<1>5. OnceInFlight(s)'
  <2>1. armed'[s] # 0
    BY <1>2
  <2>2. SUFFICES ASSUME armed'[s] <= 1 PROVE Single(s)'
    BY <2>1 DEF OnceInFlight, Apscheduler
  <2>3. Untouched(s)
    BY <1>2, <2>2 DEF IInv, OnceInFlight, Apscheduler
  <2>4. \A d \in Due(s) : heap'[s][d] = IF d = Interval[s] THEN 1 ELSE 0
    BY <1>1, <1>3, <2>3 DEF Untouched, NoEntry
  <2>5. \A t \in Loops : Flying(t)' => at'[t] # s
    BY <2>3 DEF Untouched, Flying, LoopsLeftAlone
  <2>6. since'[s] \in Nat /\ Interval[s] \in Nat
    BY ConstantsOK DEF IInv, Typed
  <2>. QED BY <1>3, <2>4, <2>5, <2>6 DEF Single, Flying
<1>6. Armed(s)'
  BY <1>1, <1>3 DEF Armed, OnHeap, Held, Apscheduler
<1>7. ASSUME NEW r \in Schedules, Armed(r), r # s PROVE Armed(r)'
  <2>1. r \in callbacks' /\ heap'[r] = heap[r]
    BY <1>1, <1>7 DEF Armed
  <2>2. \A t \in Loops : Flying(t) /\ at[t] = r => Flying(t)' /\ at'[t] = r
    BY DEF Flying, LoopsLeftAlone
  <2>. QED BY <1>7, <2>1, <2>2 DEF Armed, OnHeap, Held, Apscheduler
<1>. QED BY <1>4, <1>5, <1>6, <1>7

-----------------------------------------------------------------------------
(* Callers.                                                                 *)

LEMMA CallerMoves ==
  ASSUME Typed, NEW c \in Callers, NEW from, NEW to \in CallerPC, Goto(c, from, to),
         at' = at \/ \E s \in Schedules \cup {NoSchedule} : WorkOn(c, s)
  PROVE  /\ LoopsLeftAlone /\ pc[c] = from /\ pc'[c] = to
         /\ \A b \in Callers \ {c} : pc'[b] = pc[b] /\ at'[b] = at[b]
         /\ pc' \in [Threads -> CallerPC \cup LoopPC]
         /\ \A b \in Callers : pc'[b] \in CallerPC
         /\ \A t \in Loops : pc'[t] \in LoopPC
         /\ at' \in [Threads -> Schedules \cup {NoSchedule}]
<1>1. c \in Threads /\ Loops \subseteq Threads \ {c} /\ Callers \subseteq Threads
  BY ConstantsOK DEF Threads
<1>2. /\ at' \in [Threads -> Schedules \cup {NoSchedule}]
      /\ \A q \in Threads \ {c} : at'[q] = at[q]
  BY <1>1, WorkFits DEF Typed
<1>. QED BY <1>1, <1>2, MoveFits DEF LoopsLeftAlone

\* Between two calls of the backend a start or a stop touches no schedule.
LEMMA ManagerKeeps ==
  ASSUME IInv, NEW c \in Managers, NEW from \in CallerPC \ AtSchedule,
         NEW to \in CallerPC \ AtSchedule, Goto(c, from, to),
         UNCHANGED <<stored, known, heap, callbacks, thread, at, history, aps>>,
         ticking' \in BOOLEAN, running' \in BOOLEAN,
         todo' \in [Managers -> SUBSET known],
         starts' \in 0 .. MaxStarts, crashes' = crashes,
         \A s \in stored : ToBeRestored(s) => ToBeRestored(s)'
  PROVE  IInv'
<1>1. c \in Callers /\ Typed
  BY ConstantsOK DEF IInv
<1>. DEFINE same == UNCHANGED <<stored, known, heap, callbacks, thread, at, since, armed,
                               library, jobs>>
<1>0. same
  BY DEF history, aps
<1>2. /\ LoopsLeftAlone /\ pc[c] = from /\ pc'[c] = to
      /\ \A b \in Callers \ {c} : pc'[b] = pc[b]
      /\ pc' \in [Threads -> CallerPC \cup LoopPC]
      /\ \A b \in Callers : pc'[b] \in CallerPC
      /\ \A t \in Loops : pc'[t] \in LoopPC
  BY <1>1, CallerMoves
<1>3. Typed'
  BY <1>0, <1>1, <1>2 DEF Typed
<1>4. Places'
  BY <1>0, <1>1, <1>2 DEF IInv, Places, AtSchedule, Removing, Flying, LoopsLeftAlone
<1>5. ASSUME Apscheduler => OneManager, NEW s \in stored PROVE Accounted(s)'
  <2>1. BeingAdded(s) => BeingAdded(s)'
    BY <1>0, <1>2 DEF BeingAdded, AtSchedule
  <2>2. Armed(s) => Armed(s)'
    BY <1>0, <1>2 DEF Armed, OnHeap, Held, Apscheduler, Flying, LoopsLeftAlone
  <2>. QED BY <1>5, <2>1, <2>2 DEF IInv, NoneForgotten, Accounted
<1>6. ASSUME NEW s \in Schedules PROVE OnceInFlight(s)'
  BY <1>0, <1>2, FlightsEndKeep DEF IInv, Flying, LoopsLeftAlone
<1>. QED BY <1>0, <1>3, <1>4, <1>5, <1>6 DEF IInv, NoneForgotten, Accounted, Apscheduler

LEMMA StartKeeps ==
  ASSUME IInv, NEW c \in Managers,
         StartCheck(c) \/ RestoreLoad(c) \/ RestoreDone(c) \/ StartBackend(c) \/ StartReturns(c)
  PROVE  IInv'
<1>. USE DEF CallerPC, AtSchedule, backend, history, aps, bounds
<1>0. Typed /\ c \in Callers /\ c \in Threads
  BY ConstantsOK DEF IInv, Threads
<1>1. \A s \in Schedules : ToBeRestored(s) => c \in Managers /\ pc[c] \notin {"backend", "started"}
  BY DEF ToBeRestored, Apscheduler
<1>2. CASE StartCheck(c)
  <2>1. \A s \in stored : ToBeRestored(s) => ToBeRestored(s)'
    BY <1>0, <1>2, MoveFits, ConstantsOK DEF StartCheck, ToBeRestored, Apscheduler, Threads
  <2>2. starts' \in 0 .. MaxStarts
    BY <1>0, <1>2, ConstantsOK DEF StartCheck, Typed
  <2>. QED BY <1>0, <1>2, <2>1, <2>2, ManagerKeeps DEF StartCheck, Typed
<1>3. CASE RestoreLoad(c)
  <2>1. todo' = [todo EXCEPT ![c] = stored] /\ todo' \in [Managers -> SUBSET known]
    BY <1>0, <1>3 DEF RestoreLoad, Typed
  <2>2. \A s \in stored : ToBeRestored(s) => ToBeRestored(s)'
    BY <1>0, <1>3, <2>1, MoveFits, ConstantsOK DEF RestoreLoad, ToBeRestored, Apscheduler, Threads, Typed
  <2>. QED BY <1>0, <1>3, <2>1, <2>2, ManagerKeeps DEF RestoreLoad, Typed
<1>4. CASE RestoreDone(c)
  <2>1. \A s \in stored : ~ToBeRestored(s)
    BY <1>4 DEF RestoreDone, ToBeRestored, Apscheduler, Goto
  <2>. QED BY <1>0, <1>4, <2>1, ManagerKeeps DEF RestoreDone, Typed
<1>5. CASE StartBackend(c)
  <2>1. \A s \in stored : ~ToBeRestored(s)
    BY <1>5 DEF StartBackend, ToBeRestored, Apscheduler, Goto
  <2>. QED BY <1>0, <1>5, <2>1, ManagerKeeps DEF StartBackend, Typed
<1>6. CASE StartReturns(c)
  <2>1. \A s \in stored : ~ToBeRestored(s)
    BY <1>6 DEF StartReturns, ToBeRestored, Apscheduler, Goto
  <2>. QED BY <1>0, <1>6, <2>1, ManagerKeeps DEF StartReturns, Typed
<1>. QED BY <1>2, <1>3, <1>4, <1>5, <1>6

LEMMA StopKeeps ==
  ASSUME IInv, NEW c \in Managers, StopCheck(c) \/ StopBackend(c) \/ StopReturns(c)
  PROVE  IInv'
<1>. USE DEF CallerPC, AtSchedule, backend, history, aps, bounds
<1>0. Typed /\ c \in Callers /\ c \in Threads
  BY ConstantsOK DEF IInv, Threads
<1>1. CASE StopCheck(c)
  <2>1. \A s \in stored : ToBeRestored(s) => ToBeRestored(s)'
    BY <1>0, <1>1, MoveFits, ConstantsOK DEF StopCheck, ToBeRestored, Apscheduler, Threads
  <2>. QED BY <1>0, <1>1, <2>1, ManagerKeeps DEF StopCheck, Typed
<1>2. CASE StopBackend(c)
  <2>1. \A s \in stored : ~ToBeRestored(s)
    BY <1>2 DEF StopBackend, ToBeRestored, Apscheduler, Goto
  <2>. QED BY <1>0, <1>2, <2>1, ManagerKeeps DEF StopBackend, Typed
<1>3. CASE StopReturns(c)
  <2>1. \A s \in stored : ToBeRestored(s) => ToBeRestored(s)'
    BY <1>0, <1>3, MoveFits, ConstantsOK DEF StopReturns, ToBeRestored, Apscheduler, Threads
  <2>. QED BY <1>0, <1>3, <2>1, ManagerKeeps DEF StopReturns, Typed
<1>. QED BY <1>1, <1>2, <1>3

LEMMA SpawnKeeps ==
  ASSUME IInv, NEW c \in Managers, NEW t \in Loops, Spawn(c, t)
  PROVE  IInv'
<1>1. /\ Typed /\ c \in Callers /\ c \in Threads /\ t \in Threads /\ t # c
      /\ Loops \cap Callers = {} /\ Loops \subseteq Threads /\ Callers \subseteq Threads
  BY ConstantsOK DEF IInv, Threads
<1>2. /\ pc[c] = "spawn" /\ pc[t] = "dead" /\ pc'[c] = "started" /\ pc'[t] = "top"
      /\ \A q \in Threads \ {c, t} : pc'[q] = pc[q]
      /\ pc' \in [Threads -> CallerPC \cup LoopPC]
      /\ \A b \in Callers : pc'[b] \in CallerPC
      /\ \A u \in Loops : pc'[u] \in LoopPC
  BY <1>1 DEF Spawn, Typed, CallerPC, LoopPC
<1>3. Typed'
  BY <1>1, <1>2 DEF Typed, Spawn, history, aps, bounds
<1>4. \A u \in Loops : (Flying(u)' <=> Flying(u)) /\ at'[u] = at[u]
                        /\ (pc'[u] \in {"fire", "enqueue"} => pc[u] \in {"fire", "enqueue"})
  BY <1>1, <1>2 DEF Flying, Spawn
<1>5. Places'
  BY <1>1, <1>2, <1>4 DEF IInv, Places, AtSchedule, Removing, Spawn
<1>6. ASSUME Apscheduler => OneManager, NEW s \in stored PROVE Accounted(s)'
  <2>1. BeingAdded(s) => BeingAdded(s)'
    BY <1>1, <1>2 DEF BeingAdded, Spawn
  <2>2. Armed(s) => Armed(s)'
    BY <1>4 DEF Armed, OnHeap, Held, Apscheduler, Spawn, aps
  <2>3. ~ToBeRestored(s)
    BY <1>2 DEF ToBeRestored, Apscheduler
  <2>. QED BY <1>6, <2>1, <2>2, <2>3 DEF IInv, NoneForgotten, Accounted, Apscheduler
<1>7. ASSUME NEW s \in Schedules PROVE OnceInFlight(s)'
  BY <1>4, FlightsEndKeep DEF IInv, Spawn, history, aps
<1>. QED BY <1>3, <1>5, <1>6, <1>7 DEF IInv, NoneForgotten, Apscheduler, Spawn, aps

\* A new id is in nobody's hands yet; a removed one stays out of the store.
LEMMA StoreKeeps ==
  ASSUME IInv, NEW c \in Callers, NEW s \in Schedules, AddSave(c, s) \/ RemoveDelete(c, s)
  PROVE  IInv'
<1>. USE DEF CallerPC, backend, history, aps, bounds
<1>1. Typed
  BY DEF IInv
<1>2. PICK to \in {"add", "remove"} :
        /\ Goto(c, "idle", to) /\ WorkOn(c, s)
        /\ to = "add" => s \notin known /\ known' = known \cup {s} /\ stored' = stored \cup {s}
        /\ to = "remove" => s \in known /\ known' = known /\ stored' = stored \ {s}
  BY DEF AddSave, RemoveDelete
<1>3. UNCHANGED <<heap, callbacks, ticking, thread, running, todo, since,
                    armed, starts, crashes, library, jobs>>
  BY DEF AddSave, RemoveDelete
<1>4. /\ LoopsLeftAlone /\ pc[c] = "idle" /\ pc'[c] = to /\ at'[c] = s
      /\ \A b \in Callers \ {c} : pc'[b] = pc[b] /\ at'[b] = at[b]
      /\ pc' \in [Threads -> CallerPC \cup LoopPC]
      /\ \A b \in Callers : pc'[b] \in CallerPC
      /\ \A t \in Loops : pc'[t] \in LoopPC
      /\ at' \in [Threads -> Schedules \cup {NoSchedule}]
  <2>1. to \in CallerPC /\ c \in Threads /\ s \in Schedules \cup {NoSchedule}
    BY DEF Threads
  <2>2. Goto(c, "idle", to) /\ WorkOn(c, s)
    BY <1>2
  <2>3. at'[c] = s
    BY <1>1, <2>1, <2>2, WorkFits
  <2>. HIDE DEF CallerPC
  <2>. QED BY <1>1, <2>1, <2>2, <2>3, CallerMoves
<1>5. known \subseteq known' /\ known' \subseteq Schedules /\ stored' \subseteq known' /\ s \in known'
  BY <1>1, <1>2 DEF Typed
<1>6. Typed'
  <2>1. todo' \in [Managers -> SUBSET known']
    BY <1>1, <1>3, <1>5 DEF Typed
  <2>. QED BY <1>1, <1>3, <1>4, <1>5, <2>1 DEF Typed
<1>7. Places'
  <2>1. \A b \in Callers : pc'[b] \in AtSchedule => at'[b] \in known'
    BY <1>4, <1>5 DEF IInv, Places, AtSchedule, Removing
  <2>2. \A b \in Callers : pc'[b] \in Removing => at'[b] \notin stored'
    BY <1>2, <1>4 DEF IInv, Places, AtSchedule, Removing
  <2>3. \A t \in Loops : Flying(t)' => at'[t] \in Schedules
    BY <1>4, <1>5 DEF IInv, Places, AtSchedule, Removing, Flying, LoopsLeftAlone
  <2>. QED BY <2>1, <2>2, <2>3 DEF Places, AtSchedule, Removing
<1>8. ASSUME Apscheduler => OneManager, NEW r \in stored' PROVE Accounted(r)'
  <2>1. CASE r \notin stored
    <3>1. to = "add" /\ r = s
      BY <1>2, <1>8, <2>1
    <3>. QED BY <1>4, <3>1 DEF BeingAdded, Accounted
  <2>2. CASE r \in stored
    <3>1. BeingAdded(r) => BeingAdded(r)'
      BY <1>4 DEF BeingAdded
    <3>2. Armed(r) => Armed(r)'
      BY <1>3, <1>4 DEF Armed, OnHeap, Held, Apscheduler, Flying, LoopsLeftAlone
    <3>3. ToBeRestored(r) => ToBeRestored(r)'
      BY <1>3, <1>4, ConstantsOK DEF ToBeRestored, Apscheduler
    <3>. QED BY <1>3, <1>8, <2>2, <3>1, <3>2, <3>3 DEF IInv, NoneForgotten, Accounted, Apscheduler
  <2>. QED BY <2>1, <2>2
<1>9. ASSUME NEW r \in Schedules PROVE OnceInFlight(r)'
  BY <1>3, <1>4, FlightsEndKeep DEF IInv, Flying, LoopsLeftAlone
<1>. QED BY <1>3, <1>6, <1>7, <1>8, <1>9 DEF IInv, NoneForgotten, Accounted, Apscheduler

\* The last step of add_schedule.
LEMMA AddArmKeeps ==
  ASSUME IInv, NEW c \in Callers, AddArm(c)
  PROVE  IInv'
<1>0. ~Apscheduler
  BY DEF AddArm
<1>1. PICK s \in Schedules : s = at[c] /\ s \in known /\ Typed
  BY DEF IInv, Typed, Places, AtSchedule, Removing, AddArm, Goto
<1>2. /\ Goto(c, "add", "idle") /\ WorkOn(c, NoSchedule) /\ Arm(s)
      /\ UNCHANGED <<stored, known, ticking, thread, running, todo, since, starts, crashes, library, jobs>>
  BY <1>1 DEF AddArm, aps, bounds
<1>3. /\ LoopsLeftAlone /\ pc[c] = "add" /\ pc'[c] = "idle"
      /\ \A b \in Callers \ {c} : pc'[b] = pc[b] /\ at'[b] = at[b]
      /\ pc' \in [Threads -> CallerPC \cup LoopPC]
      /\ \A b \in Callers : pc'[b] \in CallerPC
      /\ \A t \in Loops : pc'[t] \in LoopPC
      /\ at' \in [Threads -> Schedules \cup {NoSchedule}]
  BY <1>1, <1>2, CallerMoves DEF CallerPC
<1>4. /\ \A r \in Schedules : OnceInFlight(r)'
      /\ Armed(s)' /\ \A r \in Schedules : Armed(r) => Armed(r)'
  BY <1>0, <1>1, <1>2, <1>3, ArmKeeps
<1>5. Typed'
  <2>1. /\ heap' = [r \in Schedules |-> heap'[r]]
        /\ \A r \in Schedules : heap'[r] \in [Due(r) -> Nat]
    BY <1>1, <1>2, PushFits DEF Arm
  <2>2. callbacks' \subseteq known /\ armed' \in [Schedules -> 0 .. 2]
    BY <1>1, <1>2 DEF Arm, Typed
  <2>. QED BY <1>1, <1>2, <1>3, <2>1, <2>2 DEF Typed
<1>6. Places'
  BY <1>2, <1>3 DEF IInv, Places, AtSchedule, Removing, Flying, LoopsLeftAlone
<1>7. ASSUME Apscheduler => OneManager, NEW r \in stored' PROVE Accounted(r)'
  <2>1. r \in stored /\ r \in Schedules
    BY <1>1, <1>2 DEF Typed
  <2>2. CASE r = s
    BY <1>4, <2>2 DEF Accounted
  <2>3. CASE r # s
    <3>1. BeingAdded(r) => BeingAdded(r)'
      BY <1>1, <1>3, <2>3 DEF BeingAdded
    <3>2. ToBeRestored(r) => ToBeRestored(r)'
      BY <1>2, <1>3, ConstantsOK DEF ToBeRestored, Apscheduler
    <3>. QED BY <1>0, <1>4, <2>1, <3>1, <3>2 DEF IInv, NoneForgotten, Accounted, Apscheduler
  <2>. QED BY <2>2, <2>3
<1>. QED BY <1>0, <1>2, <1>4, <1>5, <1>6, <1>7 DEF IInv, NoneForgotten, Accounted, Apscheduler

LEMMA RestoreOneKeeps ==
  ASSUME IInv, NEW c \in Managers, NEW s \in Schedules, RestoreOne(c, s)
  PROVE  IInv'
<1>0. ~Apscheduler
  BY DEF RestoreOne
<1>1. Typed /\ s \in known
  BY DEF IInv, Typed, RestoreOne
<1>2. /\ pc[c] = "restore" /\ s \in todo[c] /\ todo' = [todo EXCEPT ![c] = @ \ {s}] /\ Arm(s)
      /\ UNCHANGED <<stored, known, ticking, thread, running, pc, at, since, starts, crashes, library, jobs>>
  BY DEF RestoreOne, aps, bounds
<1>3. /\ \A r \in Schedules : OnceInFlight(r)'
      /\ Armed(s)' /\ \A r \in Schedules : Armed(r) => Armed(r)'
  BY <1>0, <1>2, ArmKeeps DEF LoopsLeftAlone
<1>4. Typed'
  <2>1. /\ heap' = [r \in Schedules |-> heap'[r]]
        /\ \A r \in Schedules : heap'[r] \in [Due(r) -> Nat]
    BY <1>1, <1>2, PushFits DEF Arm
  <2>2. callbacks' \subseteq known /\ armed' \in [Schedules -> 0 .. 2]
    BY <1>1, <1>2 DEF Arm, Typed
  <2>3. todo' \in [Managers -> SUBSET known]
    BY <1>1, <1>2 DEF Typed
  <2>. QED BY <1>1, <1>2, <2>1, <2>2, <2>3 DEF Typed
<1>5. Places'
  BY <1>2 DEF IInv, Places, AtSchedule, Removing, Flying
<1>6. ASSUME Apscheduler => OneManager, NEW r \in stored' PROVE Accounted(r)'
  <2>1. r \in stored /\ r \in Schedules
    BY <1>1, <1>2 DEF Typed
  <2>2. CASE r = s
    BY <1>3, <2>2 DEF Accounted
  <2>3. CASE r # s
    <3>1. BeingAdded(r) => BeingAdded(r)'
      BY <1>2 DEF BeingAdded
    <3>2. ToBeRestored(r) => ToBeRestored(r)'
      BY <1>1, <1>2, <2>3 DEF ToBeRestored, Apscheduler, Typed
    <3>. QED BY <1>0, <1>3, <2>1, <3>1, <3>2 DEF IInv, NoneForgotten, Accounted, Apscheduler
  <2>. QED BY <2>2, <2>3
<1>. QED BY <1>0, <1>2, <1>3, <1>4, <1>5, <1>6 DEF IInv, NoneForgotten, Accounted, Apscheduler

\* What is disarmed is no longer stored.
LEMMA RemoveDisarmKeeps ==
  ASSUME IInv, NEW c \in Callers, RemoveDisarm(c)
  PROVE  IInv'
<1>1. PICK s \in Schedules : s = at[c] /\ s \in known /\ s \notin stored /\ Typed
  BY DEF IInv, Typed, Places, AtSchedule, Removing, RemoveDisarm, Goto
<1>2. /\ Goto(c, "remove", "idle") /\ WorkOn(c, NoSchedule) /\ Disarm(s)
      /\ UNCHANGED <<stored, known, ticking, thread, running, todo, since,
                     armed, starts, crashes, library, jobs>>
  BY <1>1 DEF RemoveDisarm, history, aps, bounds
<1>3. /\ LoopsLeftAlone /\ pc[c] = "remove" /\ pc'[c] = "idle"
      /\ \A b \in Callers \ {c} : pc'[b] = pc[b] /\ at'[b] = at[b]
      /\ pc' \in [Threads -> CallerPC \cup LoopPC]
      /\ \A b \in Callers : pc'[b] \in CallerPC
      /\ \A t \in Loops : pc'[t] \in LoopPC
      /\ at' \in [Threads -> Schedules \cup {NoSchedule}]
  BY <1>1, <1>2, CallerMoves DEF CallerPC
<1>4. /\ heap' = [r \in Schedules |-> heap'[r]]
      /\ \A r \in Schedules : heap'[r] \in [Due(r) -> Nat]
      /\ \A r \in Schedules \ {s} : heap'[r] = heap[r]
      /\ \A d \in Due(s) : heap'[s][d] = 0
      /\ callbacks' = callbacks \ {s}
  BY <1>1, <1>2, DisarmFits DEF Disarm
<1>5. Typed'
  BY <1>1, <1>2, <1>3, <1>4 DEF Typed
<1>6. Places'
  BY <1>2, <1>3 DEF IInv, Places, AtSchedule, Removing, Flying, LoopsLeftAlone
<1>7. ASSUME Apscheduler => OneManager, NEW r \in stored' PROVE Accounted(r)'
  <2>1. r \in stored /\ r \in Schedules \ {s}
    BY <1>1, <1>2 DEF Typed
  <2>2. BeingAdded(r) => BeingAdded(r)'
    BY <1>3 DEF BeingAdded
  <2>3. Armed(r) => Armed(r)'
    BY <1>2, <1>3, <1>4, <2>1 DEF Armed, OnHeap, Held, Apscheduler, Flying, LoopsLeftAlone
  <2>4. ToBeRestored(r) => ToBeRestored(r)'
    BY <1>2, <1>3, ConstantsOK DEF ToBeRestored, Apscheduler
  <2>. QED BY <1>7, <2>1, <2>2, <2>3, <2>4 DEF IInv, NoneForgotten, Accounted, Apscheduler
<1>8. ASSUME NEW r \in Schedules PROVE OnceInFlight(r)'
  <2>1. \A t \in Loops : (Flying(t)' <=> Flying(t)) /\ at'[t] = at[t] /\ pc'[t] = pc[t]
    BY <1>3 DEF Flying, LoopsLeftAlone
  <2>2. CASE r # s
    BY <1>2, <1>4, <2>1, <2>2 DEF IInv, OnceInFlight, Apscheduler, Untouched, Single, NoEntry
  <2>3. CASE r = s
    BY <1>2, <1>4, <2>1, <2>3 DEF IInv, OnceInFlight, Apscheduler, Untouched, Single, NoEntry
  <2>. QED BY <2>2, <2>3
<1>. QED BY <1>2, <1>5, <1>6, <1>7, <1>8 DEF IInv, NoneForgotten, Accounted, Apscheduler

-----------------------------------------------------------------------------
(* Loops.                                                                   *)

LEMMA LoopMoves ==
  ASSUME Typed, NEW t \in Loops, NEW from, NEW to \in LoopPC, Goto(t, from, to),
         at' = at \/ \E s \in Schedules \cup {NoSchedule} : WorkOn(t, s)
  PROVE  /\ pc[t] = from /\ pc'[t] = to
         /\ \A c \in Callers : pc'[c] = pc[c] /\ at'[c] = at[c]
         /\ \A u \in Loops \ {t} : pc'[u] = pc[u] /\ at'[u] = at[u]
         /\ pc' \in [Threads -> CallerPC \cup LoopPC]
         /\ \A c \in Callers : pc'[c] \in CallerPC
         /\ \A u \in Loops : pc'[u] \in LoopPC
         /\ at' \in [Threads -> Schedules \cup {NoSchedule}]
<1>1. t \in Threads /\ Callers \subseteq Threads \ {t} /\ Loops \subseteq Threads
  BY ConstantsOK DEF Threads
<1>2. /\ at' \in [Threads -> Schedules \cup {NoSchedule}]
      /\ \A q \in Threads \ {t} : at'[q] = at[q]
  BY <1>1, WorkFits DEF Typed
<1>. QED BY <1>1, <1>2, MoveFits

\* What a loop does to callers, store and flags: nothing.
CallersLeftAlone ==
  /\ \A c \in Callers : pc'[c] = pc[c] /\ at'[c] = at[c]
  /\ UNCHANGED <<stored, known, callbacks, ticking, running, todo, library>>

LEMMA LoopNoneForgotten ==
  ASSUME IInv, CallersLeftAlone, \A s \in stored : Armed(s) => Armed(s)'
  PROVE  NoneForgotten'
<1>1. ASSUME Apscheduler => OneManager, NEW s \in stored PROVE Accounted(s)'
  <2>1. BeingAdded(s) => BeingAdded(s)'
    BY DEF BeingAdded, CallersLeftAlone
  <2>2. ToBeRestored(s) => ToBeRestored(s)'
    BY ConstantsOK DEF ToBeRestored, Apscheduler, CallersLeftAlone
  <2>. QED BY <1>1, <2>1, <2>2 DEF IInv, NoneForgotten, Accounted, Apscheduler
<1>. QED BY <1>1 DEF NoneForgotten, Accounted, Apscheduler, CallersLeftAlone

\* A loop that goes on without touching the heap; the fire ends here, too.
LEMMA LoopOnKeeps ==
  ASSUME IInv, NEW t \in Loops,
         LoopCheck(t) \/ LoopWait(t) \/ FireLoad(t) \/ FireFails(t)
  PROVE  IInv'
<1>. USE DEF LoopPC, backend, history, aps, bounds
<1>1. Typed
  BY DEF IInv
<1>2. PICK from \in LoopPC, to \in LoopPC :
        /\ Goto(t, from, to)
        /\ \/ from \in {"top", "select"} /\ to \in {"top", "select", "dead"}
           \/ from \in {"fire", "enqueue"} /\ to \in {"enqueue", "fired"}
  BY DEF LoopCheck, LoopWait, FireLoad, FireFails
<1>3. UNCHANGED <<stored, known, heap, callbacks, ticking, thread, running, todo, at, since,
                  armed, starts, crashes, library, jobs>>
  BY DEF LoopCheck, LoopWait, FireLoad, FireFails
<1>4. /\ pc[t] = from /\ pc'[t] = to
      /\ \A c \in Callers : pc'[c] = pc[c]
      /\ \A u \in Loops \ {t} : pc'[u] = pc[u]
      /\ pc' \in [Threads -> CallerPC \cup LoopPC]
      /\ \A c \in Callers : pc'[c] \in CallerPC
      /\ \A u \in Loops : pc'[u] \in LoopPC
  BY <1>1, <1>2, <1>3, LoopMoves
<1>5. \A u \in Loops : /\ Flying(u)' <=> Flying(u)
                       /\ pc'[u] \in {"fire", "enqueue"} => pc[u] \in {"fire", "enqueue"}
  BY <1>2, <1>4 DEF Flying
<1>6. Typed'
  BY <1>1, <1>3, <1>4 DEF Typed
<1>7. Places'
  BY <1>3, <1>4, <1>5 DEF IInv, Places, AtSchedule, Removing
<1>8. NoneForgotten'
  BY <1>3, <1>4, <1>5, LoopNoneForgotten DEF CallersLeftAlone, Armed, OnHeap, Held, Apscheduler
<1>9. ASSUME NEW s \in Schedules PROVE OnceInFlight(s)'
  BY <1>3, <1>5, FlightsEndKeep DEF IInv
<1>. QED BY <1>6, <1>7, <1>8, <1>9 DEF IInv

\* The entry that is taken was the only one, and its interval has passed.
LEMMA LoopTakeKeeps ==
  ASSUME IInv, NEW t \in Loops, NEW s \in Schedules, ~Apscheduler, LoopTake(t, s)
  PROVE  IInv'
<1>. USE DEF LoopPC
<1>1. Typed
  BY DEF IInv
<1>2. PICK to \in {"fire", "top"} :
        /\ Goto(t, "select", to)
        /\ to = "fire" => s \in callbacks /\ WorkOn(t, s)
        /\ to = "top" => s \notin callbacks /\ at' = at
  BY DEF LoopTake
<1>3. /\ heap[s][0] > 0 /\ heap' = [heap EXCEPT ![s][0] = @ - 1]
      /\ UNCHANGED <<stored, known, callbacks, ticking, thread, running, todo, since,
                     armed, starts, crashes, library, jobs>>
  BY DEF LoopTake, history, aps, bounds
<1>4. /\ heap' = [r \in Schedules |-> heap'[r]]
      /\ \A r \in Schedules : heap'[r] \in [Due(r) -> Nat]
      /\ \A r \in Schedules \ {s} : heap'[r] = heap[r]
      /\ \A d \in Due(s) \ {0} : heap'[s][d] = heap[s][d]
      /\ 0 \in Due(s) /\ heap'[s][0] = heap[s][0] - 1
  BY <1>1, <1>3, TakeFits
<1>5. /\ pc[t] = "select" /\ pc'[t] = to
      /\ \A c \in Callers : pc'[c] = pc[c] /\ at'[c] = at[c]
      /\ \A u \in Loops \ {t} : pc'[u] = pc[u] /\ at'[u] = at[u]
      /\ pc' \in [Threads -> CallerPC \cup LoopPC]
      /\ \A c \in Callers : pc'[c] \in CallerPC
      /\ \A u \in Loops : pc'[u] \in LoopPC
      /\ at' \in [Threads -> Schedules \cup {NoSchedule}]
  BY <1>1, <1>2, LoopMoves
<1>6. to = "fire" => at'[t] = s
  BY <1>1, <1>2, WorkFits DEF Threads
<1>7. Typed'
  BY <1>1, <1>3, <1>4, <1>5 DEF Typed
<1>8. Places'
  <2>1. \A u \in Loops : Flying(u)' => at'[u] \in Schedules
    BY <1>1, <1>2, <1>3, <1>5, <1>6 DEF IInv, Places, AtSchedule, Removing, Flying, Typed
  <2>. QED BY <1>3, <1>5, <2>1 DEF IInv, Places, AtSchedule, Removing
<1>9. NoneForgotten'
  <2>1. ASSUME NEW r \in stored, Armed(r) PROVE Armed(r)'
    <3>1. r \in Schedules
      BY <1>1 DEF Typed
    <3>2. CASE r = s
      BY <1>2, <1>3, <1>5, <1>6, <2>1, <3>2 DEF Armed, Held, Flying, Apscheduler
    <3>3. CASE r # s
      BY <1>3, <1>4, <1>5, <2>1, <3>1, <3>3 DEF Armed, OnHeap, Held, Apscheduler, Flying
    <3>. QED BY <3>2, <3>3
  <2>. QED BY <1>3, <1>5, <2>1, LoopNoneForgotten DEF CallersLeftAlone
<1>10. ASSUME NEW r \in Schedules PROVE OnceInFlight(r)'
  <2>1. \A u \in Loops \ {t} : (Flying(u)' <=> Flying(u)) /\ at'[u] = at[u] /\ pc'[u] = pc[u]
    BY <1>5 DEF Flying
  <2>2. ~Flying(t) /\ (Flying(t)' <=> to = "fire")
    BY <1>2, <1>5 DEF Flying
  <2>3. CASE r # s
    <3>1. heap'[r] = heap[r] /\ since' = since /\ armed' = armed
      BY <1>3, <1>4, <2>3
    <3>2. \A u \in Loops : Flying(u)' /\ at'[u] = r => Flying(u) /\ at[u] = r /\ pc'[u] = pc[u]
      BY <1>6, <2>1, <2>2, <2>3
    <3>3. \A u \in Loops : pc'[u] \in {"fire", "enqueue"} => Flying(u)'
      BY DEF Flying
    <3>. QED BY <3>1, <3>2, <3>3 DEF IInv, OnceInFlight, Apscheduler, Untouched, Single, NoEntry
  <2>4. CASE r = s
    <3>1. \A d \in Due(s) : heap[s][d] \in Nat /\ d \in Nat
      BY <1>1, ConstantsOK DEF Typed, Due
    <3>2. armed[s] # 0
      BY <1>3, <1>4 DEF IInv, OnceInFlight, Apscheduler, Untouched, NoEntry
    <3>3. SUFFICES ASSUME armed[s] <= 1 PROVE Single(s)'
      BY <1>3, <2>4, <3>2 DEF OnceInFlight, Apscheduler
    <3>4. Single(s)
      BY <3>3 DEF IInv, OnceInFlight, Apscheduler
    <3>5. \A d \in Due(s) : heap'[s][d] = 0
      BY <1>3, <1>4, <3>1, <3>4 DEF Single
    <3>6. \A u \in Loops : Flying(u) => at[u] # s
      BY <1>3, <1>4, <3>4 DEF Single, NoEntry
    <3>7. since[s] = Interval[s]
      <4>1. since[s] + 0 >= Interval[s]
        BY <1>3, <1>4, <3>4 DEF Single
      <4>2. since[s] \in 0 .. Interval[s] /\ Interval[s] \in Nat
        BY <1>1, ConstantsOK DEF Typed, Due
      <4>. QED BY <4>1, <4>2
    <3>8. \A u \in Loops : Flying(u)' /\ at'[u] = s => u = t
      BY <2>1, <3>6
    <3>. QED BY <1>3, <3>5, <3>7, <3>8 DEF Single, NoEntry, Flying
  <2>. QED BY <2>3, <2>4
<1>. QED BY <1>7, <1>8, <1>9, <1>10 DEF IInv

LEMMA FireEnqueueKeeps ==
  ASSUME IInv, NEW t \in Loops, FireEnqueue(t)
  PROVE  IInv'
<1>. USE DEF LoopPC
<1>1. PICK s \in Schedules : s = at[t] /\ Typed
  BY DEF IInv, Typed, Places, AtSchedule, Removing, FireEnqueue, Goto, Flying
<1>2. /\ Goto(t, "enqueue", "fired") /\ since' = [since EXCEPT ![s] = 0]
      /\ UNCHANGED <<stored, known, heap, callbacks, ticking, thread, running, todo, at,
                     armed, starts, crashes, library, jobs>>
  BY <1>1 DEF FireEnqueue, backend, aps, bounds
<1>3. /\ pc[t] = "enqueue" /\ pc'[t] = "fired"
      /\ \A c \in Callers : pc'[c] = pc[c]
      /\ \A u \in Loops \ {t} : pc'[u] = pc[u]
      /\ pc' \in [Threads -> CallerPC \cup LoopPC]
      /\ \A c \in Callers : pc'[c] \in CallerPC
      /\ \A u \in Loops : pc'[u] \in LoopPC
  BY <1>1, <1>2, LoopMoves
<1>4. /\ since' \in [Schedules -> Nat] /\ since'[s] = 0
      /\ \A r \in Schedules \ {s} : since'[r] = since[r]
      /\ \A r \in Schedules : since'[r] \in Due(r)
  <2>1. since \in [Schedules -> Nat] /\ \A r \in Schedules : since[r] \in Due(r)
    BY <1>1 DEF Typed
  <2>2. \A r \in Schedules : 0 \in Due(r)
    BY ConstantsOK DEF Due
  <2>. QED BY <1>2, <2>1, <2>2
<1>5. Typed'
  BY <1>1, <1>2, <1>3, <1>4 DEF Typed
<1>6. \A u \in Loops : (Flying(u)' <=> Flying(u))
  BY <1>3 DEF Flying
<1>7. Places'
  BY <1>2, <1>3, <1>6 DEF IInv, Places, AtSchedule, Removing
<1>8. NoneForgotten'
  BY <1>2, <1>3, <1>6, LoopNoneForgotten DEF CallersLeftAlone, Armed, OnHeap, Held, Apscheduler
<1>9. ASSUME NEW r \in Schedules, ~Apscheduler PROVE OnceInFlight(r)'
  <2>1. CASE r # s
    <3>1. since'[r] = since[r] /\ heap' = heap /\ armed' = armed /\ at' = at
      BY <1>2, <1>4, <2>1
    <3>2. \A u \in Loops : pc'[u] \in {"fire", "enqueue"} => pc[u] \in {"fire", "enqueue"}
      BY <1>3
    <3>. QED BY <1>2, <1>6, <1>9, <3>1, <3>2 DEF IInv, OnceInFlight, Apscheduler, Untouched, Single, NoEntry
  <2>2. CASE r = s
    <3>1. Flying(t) /\ at[t] = s
      BY <1>1, <1>3 DEF Flying
    <3>2. armed[s] # 0
      BY <1>9, <3>1 DEF IInv, OnceInFlight, Apscheduler, Untouched
    <3>3. SUFFICES ASSUME armed[s] <= 1 PROVE Single(s)'
      BY <1>2, <2>2, <3>2 DEF OnceInFlight, Apscheduler
    <3>4. Single(s)
      BY <1>9, <3>3 DEF IInv, OnceInFlight, Apscheduler
    <3>5. NoEntry(s) /\ NoEntry(s)' /\ \A u \in Loops : Flying(u) /\ at[u] = s => u = t
      BY <1>2, <3>1, <3>4 DEF Single, NoEntry
    <3>6. \A u \in Loops : Flying(u)' /\ at'[u] = s => u = t
      BY <1>2, <1>6, <3>5
    <3>. QED BY <1>3, <3>5, <3>6 DEF Single, NoEntry, Flying
  <2>. QED BY <2>1, <2>2
<1>10. \A r \in Schedules : OnceInFlight(r)'
  BY <1>2, <1>9 DEF OnceInFlight, Apscheduler
<1>. QED BY <1>5, <1>7, <1>8, <1>10 DEF IInv

\* The entry goes back on the heap, a whole interval from now.
LEMMA RequeueKeeps ==
  ASSUME IInv, NEW t \in Loops, ~Apscheduler, Requeue(t)
  PROVE  IInv'
<1>. USE DEF LoopPC
<1>1. PICK s \in Schedules : s = at[t] /\ Typed
  BY DEF IInv, Typed, Places, AtSchedule, Removing, Requeue, Goto, Flying
<1>2. /\ Goto(t, "fired", "top") /\ WorkOn(t, NoSchedule)
      /\ s \in callbacks => Push(s)
      /\ s \notin callbacks => heap' = heap
      /\ UNCHANGED <<stored, known, callbacks, ticking, thread, running, todo, since,
                     armed, starts, crashes, library, jobs>>
  BY <1>1 DEF Requeue, Push, history, aps, bounds
<1>3. /\ pc[t] = "fired" /\ pc'[t] = "top"
      /\ \A c \in Callers : pc'[c] = pc[c] /\ at'[c] = at[c]
      /\ \A u \in Loops \ {t} : pc'[u] = pc[u] /\ at'[u] = at[u]
      /\ pc' \in [Threads -> CallerPC \cup LoopPC]
      /\ \A c \in Callers : pc'[c] \in CallerPC
      /\ \A u \in Loops : pc'[u] \in LoopPC
      /\ at' \in [Threads -> Schedules \cup {NoSchedule}]
  BY <1>1, <1>2, LoopMoves
<1>4. /\ heap' = [r \in Schedules |-> heap'[r]]
      /\ \A r \in Schedules : heap'[r] \in [Due(r) -> Nat]
      /\ \A r \in Schedules \ {s} : heap'[r] = heap[r]
      /\ Interval[s] \in Due(s)
      /\ \A d \in Due(s) \ {Interval[s]} : heap'[s][d] = heap[s][d]
      /\ heap'[s][Interval[s]] = heap[s][Interval[s]] + (IF s \in callbacks THEN 1 ELSE 0)
  <2>1. CASE s \in callbacks
    BY <1>1, <1>2, <2>1, PushFits
  <2>2. CASE s \notin callbacks
    <3>1. heap' = heap
      BY <1>2, <2>2
    <3>2. /\ heap = [r \in Schedules |-> heap[r]]
          /\ \A r \in Schedules : heap[r] \in [Due(r) -> Nat]
      BY <1>1 DEF Typed
    <3>3. Interval[s] \in Due(s)
      BY ConstantsOK DEF Due
    <3>4. heap[s][Interval[s]] + 0 = heap[s][Interval[s]]
      BY <3>2, <3>3
    <3>. QED BY <2>2, <3>1, <3>2, <3>3, <3>4
  <2>. QED BY <2>1, <2>2
<1>5. Typed'
  BY <1>1, <1>2, <1>3, <1>4 DEF Typed
<1>6. Places'
  BY <1>2, <1>3 DEF IInv, Places, AtSchedule, Removing, Flying
<1>7. \A d \in Due(s) : d \in Nat /\ heap[s][d] \in Nat
  <2>1. heap[s] \in [Due(s) -> Nat]
    BY <1>1 DEF Typed
  <2>. QED BY <2>1, ConstantsOK DEF Due
<1>8. NoneForgotten'
  <2>1. ASSUME NEW r \in stored, Armed(r) PROVE Armed(r)'
    <3>1. r \in Schedules
      BY <1>1 DEF Typed
    <3>2. CASE r = s
      BY <1>2, <1>4, <1>7, <2>1, <3>2 DEF Armed, OnHeap, Held, Apscheduler
    <3>3. CASE r # s
      BY <1>1, <1>2, <1>3, <1>4, <2>1, <3>1, <3>3 DEF Armed, OnHeap, Held, Apscheduler, Flying
    <3>. QED BY <3>2, <3>3
  <2>. QED BY <1>2, <1>3, <2>1, LoopNoneForgotten DEF CallersLeftAlone
<1>9. ASSUME NEW r \in Schedules PROVE OnceInFlight(r)'
  <2>1. ~Flying(t)' /\ Flying(t) /\ at[t] = s
    BY <1>1, <1>3 DEF Flying
  <2>2. \A u \in Loops \ {t} : (Flying(u)' <=> Flying(u)) /\ at'[u] = at[u] /\ pc'[u] = pc[u]
    BY <1>3 DEF Flying
  <2>3. CASE r # s
    <3>1. heap'[r] = heap[r] /\ since' = since /\ armed' = armed
      BY <1>2, <1>4, <2>3
    <3>2. \A u \in Loops : Flying(u)' => u # t
      BY <2>1
    <3>3. \A u \in Loops : pc'[u] \in {"fire", "enqueue"} => Flying(u)'
      BY DEF Flying
    <3>. QED BY <2>2, <3>1, <3>2, <3>3 DEF IInv, OnceInFlight, Apscheduler, Untouched, Single, NoEntry
  <2>4. CASE r = s
    <3>1. armed[s] # 0
      BY <2>1 DEF IInv, OnceInFlight, Apscheduler, Untouched
    <3>2. SUFFICES ASSUME armed[s] <= 1 PROVE Single(s)'
      BY <1>2, <2>4, <3>1 DEF OnceInFlight, Apscheduler
    <3>3. Single(s)
      BY <3>2 DEF IInv, OnceInFlight, Apscheduler
    <3>4. \A d \in Due(s) : heap[s][d] = 0
      BY <2>1, <3>3 DEF Single, NoEntry
    <3>5. \A u \in Loops : Flying(u) /\ at[u] = s => u = t
      BY <2>1, <3>3 DEF Single
    <3>6. \A u \in Loops : Flying(u)' => at'[u] # s
      BY <2>1, <2>2, <3>5
    <3>7. \A d \in Due(s) : heap'[s][d] <= 1 /\ (heap'[s][d] > 0 => d = Interval[s])
      BY <1>4, <3>4
    <3>8. since'[s] \in Nat /\ Interval[s] \in Nat
      BY <1>1, <1>2, ConstantsOK DEF Typed
    <3>. QED BY <3>6, <3>7, <3>8 DEF Single, Flying
  <2>. QED BY <2>3, <2>4
<1>. QED BY <1>5, <1>6, <1>8, <1>9 DEF IInv

-----------------------------------------------------------------------------
(* The library.                                                             *)

LEMMA OnlyEntryFits ==
  ASSUME Typed, NEW s \in Schedules, NEW d \in Due(s),
         heap' = [heap EXCEPT ![s] = OnlyEntry(s, d)]
  PROVE  /\ heap' = [r \in Schedules |-> heap'[r]]
         /\ \A r \in Schedules : heap'[r] \in [Due(r) -> Nat]
         /\ \A r \in Schedules \ {s} : heap'[r] = heap[r]
         /\ OnHeap(s)'
<1>1. OnlyEntry(s, d) \in [Due(s) -> Nat] /\ OnlyEntry(s, d)[d] = 1
  BY DEF OnlyEntry
<1>2. heap' = [r \in Schedules |-> IF r = s THEN OnlyEntry(s, d) ELSE heap[r]]
  BY DEF Typed
<1>3. heap'[s][d] > 0
  BY <1>1, <1>2
<1>. QED BY <1>1, <1>2, <1>3 DEF Typed, OnHeap

LEMMA AddJobFits ==
  ASSUME Typed, NEW s \in Schedules, AddJob(s)
  PROVE  /\ heap' = [r \in Schedules |-> heap'[r]]
         /\ \A r \in Schedules : heap'[r] \in [Due(r) -> Nat]
         /\ \A r \in Schedules \ {s} : heap'[r] = heap[r]
         /\ Armed(s)'
         /\ library' = library /\ Apscheduler =>
              \A r \in Schedules : Armed(r) => Armed(r)'
<1>1. Interval[s] \in Due(s)
  BY ConstantsOK DEF Due
<1>2. /\ heap' = [r \in Schedules |-> heap'[r]]
      /\ \A r \in Schedules : heap'[r] \in [Due(r) -> Nat]
      /\ \A r \in Schedules \ {s} : heap'[r] = heap[r]
      /\ OnHeap(s)'
  BY <1>1, OnlyEntryFits DEF AddJob
<1>3. Armed(s)'
  BY <1>2 DEF Armed, AddJob
<1>4. ASSUME library' = library, Apscheduler, NEW r \in Schedules, r # s, Armed(r)
      PROVE  Armed(r)'
  BY <1>2, <1>4 DEF Armed, OnHeap, Held, AddJob
<1>. QED BY <1>2, <1>3, <1>4

\* A step of a caller over the library, by what it does to the schedules.
LEMMA LibraryCallKeeps ==
  ASSUME IInv, Apscheduler, Apscheduler',
         NEW c \in Callers, NEW from, NEW to \in CallerPC, Goto(c, from, to),
         at' = at \/ \E s \in Schedules \cup {NoSchedule} : WorkOn(c, s),
         to \in AtSchedule => at'[c] \in known, to \in Removing => at'[c] \notin stored,
         UNCHANGED <<stored, known, thread, running, since, armed, starts, crashes>>,
         ticking' \in BOOLEAN, library' \in {"none", "open", "shut"},
         jobs' \subseteq known, callbacks' \subseteq known,
         todo' \in [Managers -> SUBSET known],
         heap' = [r \in Schedules |-> heap'[r]],
         \A r \in Schedules : heap'[r] \in [Due(r) -> Nat],
         OneManager => \A s \in stored : Accounted(s) => Accounted(s)'
  PROVE  IInv'
<1>1. Typed
  BY DEF IInv
<1>2. /\ LoopsLeftAlone /\ pc[c] = from /\ pc'[c] = to
      /\ \A b \in Callers \ {c} : pc'[b] = pc[b] /\ at'[b] = at[b]
      /\ pc' \in [Threads -> CallerPC \cup LoopPC]
      /\ \A b \in Callers : pc'[b] \in CallerPC
      /\ \A t \in Loops : pc'[t] \in LoopPC
      /\ at' \in [Threads -> Schedules \cup {NoSchedule}]
  BY <1>1, CallerMoves
<1>3. Typed'
  BY <1>1, <1>2 DEF Typed
<1>4. Places'
  BY <1>2 DEF IInv, Places, Flying, LoopsLeftAlone
<1>5. NoneForgotten'
  BY DEF IInv, NoneForgotten
<1>6. \A s \in Schedules : OnceInFlight(s)'
  BY DEF OnceInFlight
<1>. QED BY <1>3, <1>4, <1>5, <1>6 DEF IInv

LEMMA AddToLibraryKeeps ==
  ASSUME IInv, NEW c \in Callers, AddToLibrary(c)
  PROVE  IInv'
<1>1. PICK s \in Schedules : s = at[c] /\ s \in known /\ Typed
  BY DEF IInv, Typed, Places, AtSchedule, AddToLibrary, Goto
<1>2. /\ Apscheduler /\ Goto(c, "add", "add_keep") /\ AddJob(s) /\ library' = library
      /\ UNCHANGED <<stored, known, ticking, thread, running, todo, at, since, armed, jobs,
                     starts, crashes>>
  BY <1>1 DEF AddToLibrary, history, aps, bounds
<1>3. /\ pc[c] = "add" /\ pc'[c] = "add_keep"
      /\ \A b \in Callers \ {c} : pc'[b] = pc[b]
  BY <1>1, <1>2, CallerMoves DEF CallerPC
<1>4. /\ heap' = [r \in Schedules |-> heap'[r]]
      /\ \A r \in Schedules : heap'[r] \in [Due(r) -> Nat]
      /\ Armed(s)' /\ \A r \in Schedules : Armed(r) => Armed(r)'
  BY <1>1, <1>2, AddJobFits
<1>5. ASSUME NEW r \in stored, Accounted(r) PROVE Accounted(r)'
  <2>1. r \in Schedules
    BY <1>1 DEF Typed
  <2>2. BeingAdded(r) => BeingAdded(r)' \/ r = s
    BY <1>1, <1>2, <1>3 DEF BeingAdded
  <2>3. ToBeRestored(r) => ToBeRestored(r)'
    BY <1>2, <1>3, ConstantsOK DEF ToBeRestored, Apscheduler
  <2>. QED BY <1>4, <1>5, <2>1, <2>2, <2>3 DEF Accounted
<1>6. /\ Apscheduler' /\ callbacks' \subseteq known /\ "add_keep" \in CallerPC
      /\ "add_keep" \notin Removing
  BY <1>1, <1>2 DEF Apscheduler, AddJob, Typed, CallerPC, Removing
<1>7. at' = at /\ at'[c] \in known /\ ticking' \in BOOLEAN /\ jobs' \subseteq known
      /\ library' \in {"none", "open", "shut"} /\ todo' \in [Managers -> SUBSET known]
  BY <1>1, <1>2 DEF Typed
<1>. QED BY <1>2, <1>4, <1>5, <1>6, <1>7, LibraryCallKeeps

\* What only the record of jobs and the place in a call are touched by.
LEMMA RecordKeeps ==
  ASSUME IInv, NEW c \in Callers, AddKeep(c) \/ RemovePop(c)
  PROVE  IInv'
<1>1. PICK s \in Schedules : s = at[c] /\ s \in known /\ Typed
  BY DEF IInv, Typed, Places, AtSchedule, AddKeep, RemovePop, Goto
<1>2. PICK from \in {"add_keep", "remove"}, to \in {"idle", "remove_job"} :
        /\ Goto(c, from, to)
        /\ at' = at \/ WorkOn(c, NoSchedule)
        /\ to = "remove_job" => from = "remove" /\ at' = at
        /\ jobs' = jobs \cup {s} \/ jobs' = jobs \ {s}
  BY <1>1 DEF AddKeep, RemovePop
<1>3. /\ UNCHANGED <<stored, known, heap, callbacks, ticking, thread, running, todo, since,
                     armed, library, starts, crashes>>
      /\ Apscheduler
  BY DEF AddKeep, RemovePop, backend, history, bounds
<1>4. /\ pc[c] = from /\ pc'[c] = to
      /\ \A b \in Callers \ {c} : pc'[b] = pc[b] /\ at'[b] = at[b]
  BY <1>1, <1>2, CallerMoves DEF CallerPC
<1>5. ASSUME NEW r \in stored, Accounted(r) PROVE Accounted(r)'
  <2>1. BeingAdded(r) => BeingAdded(r)'
    BY <1>2, <1>4 DEF BeingAdded
  <2>2. Armed(r) => Armed(r)'
    BY <1>3 DEF Armed, OnHeap, Held, Apscheduler
  <2>3. ToBeRestored(r) => ToBeRestored(r)'
    BY <1>2, <1>3, <1>4, ConstantsOK DEF ToBeRestored, Apscheduler
  <2>. QED BY <1>5, <2>1, <2>2, <2>3 DEF Accounted
<1>6. to \in CallerPC /\ Apscheduler'
  BY <1>2, <1>3 DEF CallerPC, Apscheduler
<1>7. /\ to \in AtSchedule => at'[c] \in known
      /\ to \in Removing => at'[c] \notin stored
  BY <1>1, <1>2, <1>4 DEF AtSchedule, Removing, IInv, Places
<1>8. /\ ticking' \in BOOLEAN /\ jobs' \subseteq known /\ callbacks' \subseteq known
      /\ library' \in {"none", "open", "shut"} /\ todo' \in [Managers -> SUBSET known]
      /\ heap' = [r \in Schedules |-> heap'[r]]
      /\ \A r \in Schedules : heap'[r] \in [Due(r) -> Nat]
  BY <1>1, <1>2, <1>3 DEF Typed
<1>9. at' = at \/ \E q \in Schedules \cup {NoSchedule} : WorkOn(c, q)
  BY <1>2
<1>. QED BY <1>2, <1>3, <1>5, <1>6, <1>7, <1>8, <1>9, LibraryCallKeeps

\* What the library is told to remove is no longer stored.
LEMMA RemoveFromLibraryKeeps ==
  ASSUME IInv, NEW c \in Callers, RemoveFromLibrary(c)
  PROVE  IInv'
<1>1. PICK s \in Schedules : s = at[c] /\ s \in known /\ s \notin stored /\ Typed
  BY DEF IInv, Typed, Places, AtSchedule, Removing, RemoveFromLibrary, Goto
<1>2. /\ Goto(c, "remove_job", "idle") /\ WorkOn(c, NoSchedule) /\ Disarm(s) /\ Apscheduler
      /\ UNCHANGED <<stored, known, ticking, thread, running, todo, since, armed, library, jobs,
                     starts, crashes>>
  BY <1>1 DEF RemoveFromLibrary, history, aps, bounds
<1>3. /\ pc[c] = "remove_job" /\ pc'[c] = "idle"
      /\ \A b \in Callers \ {c} : pc'[b] = pc[b] /\ at'[b] = at[b]
  BY <1>1, <1>2, CallerMoves DEF CallerPC
<1>4. /\ heap' = [r \in Schedules |-> heap'[r]]
      /\ \A r \in Schedules : heap'[r] \in [Due(r) -> Nat]
      /\ \A r \in Schedules \ {s} : heap'[r] = heap[r]
      /\ callbacks' = callbacks \ {s}
  BY <1>1, <1>2, DisarmFits DEF Disarm
<1>5. ASSUME NEW r \in stored, Accounted(r) PROVE Accounted(r)'
  <2>1. r \in Schedules \ {s}
    BY <1>1 DEF Typed
  <2>2. BeingAdded(r) => BeingAdded(r)'
    BY <1>3 DEF BeingAdded
  <2>3. Armed(r) => Armed(r)'
    BY <1>2, <1>4, <2>1 DEF Armed, OnHeap, Held, Apscheduler
  <2>4. ToBeRestored(r) => ToBeRestored(r)'
    BY <1>2, <1>3, ConstantsOK DEF ToBeRestored, Apscheduler
  <2>. QED BY <1>5, <2>2, <2>3, <2>4 DEF Accounted
<1>6. /\ Apscheduler' /\ "idle" \in CallerPC /\ "idle" \notin AtSchedule /\ "idle" \notin Removing
      /\ \E q \in Schedules \cup {NoSchedule} : WorkOn(c, q)
  BY <1>2 DEF Apscheduler, CallerPC, AtSchedule, Removing
<1>7. /\ ticking' \in BOOLEAN /\ jobs' \subseteq known /\ callbacks' \subseteq known
      /\ library' \in {"none", "open", "shut"} /\ todo' \in [Managers -> SUBSET known]
  BY <1>1, <1>2, <1>4 DEF Typed
<1>. QED BY <1>2, <1>4, <1>5, <1>6, <1>7, LibraryCallKeeps

LEMMA RestoreToLibraryKeeps ==
  ASSUME IInv, NEW c \in Managers, NEW s \in Schedules, RestoreToLibrary(c, s)
  PROVE  IInv'
<1>1. Typed /\ s \in known /\ c \in Callers
  BY ConstantsOK DEF IInv, Typed, RestoreToLibrary
<1>2. /\ Apscheduler /\ Goto(c, "restore", "restore_keep") /\ WorkOn(c, s) /\ AddJob(s)
      /\ library' = library /\ todo' = [todo EXCEPT ![c] = @ \ {s}]
      /\ UNCHANGED <<stored, known, ticking, thread, running, since, armed, jobs, starts, crashes>>
  BY DEF RestoreToLibrary, history, aps, bounds
<1>3. /\ pc[c] = "restore" /\ pc'[c] = "restore_keep"
      /\ \A b \in Callers \ {c} : pc'[b] = pc[b] /\ at'[b] = at[b]
  BY <1>1, <1>2, CallerMoves DEF CallerPC
<1>4. /\ heap' = [r \in Schedules |-> heap'[r]]
      /\ \A r \in Schedules : heap'[r] \in [Due(r) -> Nat]
      /\ Armed(s)' /\ \A r \in Schedules : Armed(r) => Armed(r)'
  BY <1>1, <1>2, AddJobFits
<1>5. ASSUME NEW r \in stored, Accounted(r) PROVE Accounted(r)'
  <2>1. r \in Schedules
    BY <1>1 DEF Typed
  <2>2. BeingAdded(r) => BeingAdded(r)'
    BY <1>3 DEF BeingAdded
  <2>3. ToBeRestored(r) => ToBeRestored(r)' \/ r = s
    BY <1>1, <1>2, <1>3, ConstantsOK DEF ToBeRestored, Apscheduler, Typed
  <2>. QED BY <1>4, <1>5, <2>1, <2>2, <2>3 DEF Accounted
<1>6. /\ Apscheduler' /\ callbacks' \subseteq known /\ "restore_keep" \in CallerPC
      /\ "restore_keep" \notin Removing
      /\ \E q \in Schedules \cup {NoSchedule} : WorkOn(c, q)
  BY <1>1, <1>2 DEF Apscheduler, AddJob, Typed, CallerPC, Removing
<1>7. at'[c] \in known
  BY <1>1, <1>2, WorkFits DEF Threads
<1>8. /\ ticking' \in BOOLEAN /\ jobs' \subseteq known
      /\ library' \in {"none", "open", "shut"} /\ todo' \in [Managers -> SUBSET known]
  BY <1>1, <1>2 DEF Typed
<1>. QED BY <1>1, <1>2, <1>4, <1>5, <1>6, <1>7, <1>8, LibraryCallKeeps

LEMMA RestoreKeepKeeps ==
  ASSUME IInv, NEW c \in Managers, RestoreKeep(c)
  PROVE  IInv'
<1>1. PICK s \in Schedules : s = at[c] /\ s \in known /\ Typed /\ c \in Callers
  BY ConstantsOK DEF IInv, Typed, Places, AtSchedule, RestoreKeep, Goto
<1>2. /\ Goto(c, "restore_keep", "restore") /\ WorkOn(c, NoSchedule) /\ jobs' = jobs \cup {s}
      /\ Apscheduler
      /\ UNCHANGED <<stored, known, heap, callbacks, ticking, thread, running, todo, since, armed,
                     library, starts, crashes>>
  BY <1>1 DEF RestoreKeep, backend, history, bounds
<1>3. /\ pc[c] = "restore_keep" /\ pc'[c] = "restore"
      /\ \A b \in Callers \ {c} : pc'[b] = pc[b] /\ at'[b] = at[b]
  BY <1>1, <1>2, CallerMoves DEF CallerPC
<1>4. ASSUME NEW r \in stored, Accounted(r) PROVE Accounted(r)'
  <2>1. BeingAdded(r) => BeingAdded(r)'
    BY <1>3 DEF BeingAdded
  <2>2. Armed(r) => Armed(r)'
    BY <1>2 DEF Armed, OnHeap, Held, Apscheduler
  <2>3. ToBeRestored(r) => ToBeRestored(r)'
    BY <1>2, <1>3, ConstantsOK DEF ToBeRestored, Apscheduler
  <2>. QED BY <1>4, <2>1, <2>2, <2>3 DEF Accounted
<1>5. /\ Apscheduler' /\ "restore" \in CallerPC /\ "restore" \notin AtSchedule
      /\ "restore" \notin Removing /\ \E q \in Schedules \cup {NoSchedule} : WorkOn(c, q)
  BY <1>2 DEF Apscheduler, CallerPC, AtSchedule, Removing
<1>6. /\ ticking' \in BOOLEAN /\ jobs' \subseteq known /\ callbacks' \subseteq known
      /\ library' \in {"none", "open", "shut"} /\ todo' \in [Managers -> SUBSET known]
      /\ heap' = [r \in Schedules |-> heap'[r]]
      /\ \A r \in Schedules : heap'[r] \in [Due(r) -> Nat]
  BY <1>1, <1>2 DEF Typed
<1>. QED BY <1>1, <1>2, <1>4, <1>5, <1>6, LibraryCallKeeps

\* A start that has come this far has restored everything.
LEMMA StartLibraryKeeps ==
  ASSUME IInv, NEW c \in Managers, StartLibrary(c)
  PROVE  IInv'
<1>1. Typed
  BY DEF IInv
<1>2. PICK to \in {"idle", "started"} : Goto(c, "backend", to)
  BY DEF StartLibrary
<1>3. /\ ticking' = TRUE
      /\ UNCHANGED <<stored, known, heap, callbacks, thread, running, todo, at, history, aps, bounds>>
  BY DEF StartLibrary
<1>4. \A s \in stored : ~ToBeRestored(s)
  BY <1>2 DEF ToBeRestored, Goto
<1>5. {"backend", "idle", "started"} \subseteq CallerPC \ AtSchedule
  BY DEF CallerPC, AtSchedule
<1>. QED BY <1>1, <1>2, <1>3, <1>4, <1>5, ManagerKeeps DEF Typed, bounds

\* The library forgets its jobs; the only manager is the one that stops it.
LEMMA StopLibraryKeeps ==
  ASSUME IInv, NEW c \in Managers, StopLibrary(c)
  PROVE  IInv'
<1>1. Typed /\ c \in Callers /\ Apscheduler
  BY ConstantsOK DEF IInv, StopLibrary
<1>2. CASE ticking
  <2>1. /\ Goto(c, "stop", "join") /\ heap' = EmptyHeap /\ callbacks' = {}
        /\ ticking' = FALSE /\ library' = "shut"
        /\ UNCHANGED <<stored, known, thread, running, todo, at, since, armed, jobs, starts, crashes>>
    BY <1>2 DEF StopLibrary, history, bounds
  <2>2. pc'[c] = "join"
    BY <1>1, <2>1, CallerMoves DEF CallerPC
  <2>3. ASSUME OneManager, NEW r \in stored PROVE Accounted(r)'
    BY <2>1, <2>2, <2>3 DEF Accounted, ToBeRestored, OneManager, Apscheduler
  <2>4. /\ heap' = [r \in Schedules |-> heap'[r]]
        /\ \A r \in Schedules : heap'[r] \in [Due(r) -> Nat]
    BY <2>1 DEF EmptyHeap
  <2>5. /\ Apscheduler' /\ "join" \in CallerPC /\ "join" \notin AtSchedule
        /\ "join" \notin Removing
    BY <2>1 DEF Apscheduler, CallerPC, AtSchedule, Removing
  <2>6. /\ ticking' \in BOOLEAN /\ jobs' \subseteq known /\ callbacks' \subseteq known
        /\ library' \in {"none", "open", "shut"} /\ todo' \in [Managers -> SUBSET known]
        /\ at' = at
    BY <1>1, <2>1 DEF Typed
  <2>. QED BY <1>1, <2>1, <2>3, <2>4, <2>5, <2>6, LibraryCallKeeps
<1>3. CASE ~ticking
  <2>1. /\ Goto(c, "stop", "idle")
        /\ UNCHANGED <<stored, known, heap, callbacks, ticking, thread, running, todo, at, since,
                       armed, library, jobs, starts, crashes>>
    BY <1>3 DEF StopLibrary, history, bounds
  <2>2. c \in Threads /\ pc[c] = "stop" /\ pc'[c] = "idle" /\ \A b \in Callers \ {c} : pc'[b] = pc[b]
    BY <1>1, <2>1, CallerMoves DEF CallerPC, Threads
  <2>3. \A s \in stored : ToBeRestored(s) => ToBeRestored(s)'
    BY <2>1, <2>2, ConstantsOK DEF ToBeRestored, Apscheduler
  <2>4. {"stop", "idle"} \subseteq CallerPC \ AtSchedule
    BY DEF CallerPC, AtSchedule
  <2>. QED BY <1>1, <2>1, <2>3, <2>4, ManagerKeeps DEF Typed, history, aps
<1>. QED BY <1>2, <1>3

\* A run that begins or is let pass leaves the job with the library.
LEMMA NextRunKeeps ==
  ASSUME IInv, Apscheduler, NEW s \in Schedules, NextRun(s),
         UNCHANGED <<stored, known, callbacks, ticking, thread, running, todo, since, armed,
                     library, jobs, starts, crashes>>,
         \A c \in Callers : pc'[c] = pc[c] /\ at'[c] = at[c] /\ pc'[c] \in CallerPC,
         \A u \in Loops : at'[u] = s \/ (pc'[u] = pc[u] /\ at'[u] = at[u]),
         \A u \in Loops : pc'[u] \in LoopPC,
         pc' \in [Threads -> CallerPC \cup LoopPC],
         at' \in [Threads -> Schedules \cup {NoSchedule}]
  PROVE  IInv'
<1>1. Typed
  BY DEF IInv
<1>2. PICK d \in Due(s) : heap' = [heap EXCEPT ![s] = OnlyEntry(s, d)]
  BY DEF NextRun
<1>3. /\ heap' = [r \in Schedules |-> heap'[r]]
      /\ \A r \in Schedules : heap'[r] \in [Due(r) -> Nat]
      /\ \A r \in Schedules \ {s} : heap'[r] = heap[r]
      /\ OnHeap(s)'
  BY <1>1, <1>2, OnlyEntryFits
<1>4. Typed'
  BY <1>1, <1>3 DEF Typed
<1>5. Places'
  BY DEF IInv, Places, Flying
<1>6. NoneForgotten'
  <2>1. ASSUME NEW r \in stored, Armed(r) PROVE Armed(r)'
    <3>1. r \in Schedules
      BY <1>1 DEF Typed
    <3>2. OnHeap(r)'
      BY <1>3, <2>1, <3>1 DEF Armed, OnHeap, Held
    <3>. QED BY <2>1, <3>2 DEF Armed
  <2>. QED BY <2>1, LoopNoneForgotten DEF CallersLeftAlone
<1>7. \A r \in Schedules : OnceInFlight(r)'
  BY DEF OnceInFlight, Apscheduler
<1>. QED BY <1>4, <1>5, <1>6, <1>7 DEF IInv

LEMMA LibraryRunsKeep ==
  ASSUME IInv, NEW s \in Schedules,
         LibrarySkips(s) \/ \E t \in Loops : LibraryFires(t, s)
  PROVE  IInv'
<1>1. /\ Typed /\ Apscheduler /\ NextRun(s)
      /\ UNCHANGED <<stored, known, callbacks, ticking, thread, running, todo, since, armed,
                     library, jobs, starts, crashes>>
  BY DEF IInv, LibrarySkips, LibraryFires, history, aps, bounds
<1>2. CASE LibrarySkips(s)
  <2>1. pc' = pc /\ at' = at
    BY <1>2 DEF LibrarySkips
  <2>. QED BY <1>1, <2>1, NextRunKeeps DEF Typed
<1>3. ASSUME NEW t \in Loops, LibraryFires(t, s) PROVE IInv'
  <2>1. Goto(t, "dead", "fire") /\ WorkOn(t, s) /\ t \in Threads /\ "fire" \in LoopPC
    BY <1>3 DEF LibraryFires, Threads, LoopPC
  <2>2. at'[t] = s
    BY <1>1, <2>1, WorkFits
  <2>3. /\ \A c \in Callers : pc'[c] = pc[c] /\ at'[c] = at[c]
        /\ \A u \in Loops \ {t} : pc'[u] = pc[u] /\ at'[u] = at[u]
        /\ pc' \in [Threads -> CallerPC \cup LoopPC]
        /\ \A c \in Callers : pc'[c] \in CallerPC
        /\ \A u \in Loops : pc'[u] \in LoopPC
        /\ at' \in [Threads -> Schedules \cup {NoSchedule}]
    BY <1>1, <2>1, LoopMoves
  <2>4. ASSUME NEW u \in Loops PROVE at'[u] = s \/ (pc'[u] = pc[u] /\ at'[u] = at[u])
    <3>1. CASE u = t
      BY <2>2, <3>1
    <3>2. CASE u # t
      BY <2>3, <3>2
    <3>. QED BY <3>1, <3>2
  <2>5. \A c \in Callers : pc'[c] = pc[c] /\ at'[c] = at[c] /\ pc'[c] \in CallerPC
    BY <2>3
  <2>. HIDE DEF NextRun
  <2>. QED BY <1>1, <2>3, <2>4, <2>5, NextRunKeeps
<1>. QED BY <1>2, <1>3

LEMMA RunReturnsKeeps ==
  ASSUME IInv, NEW t \in Loops, RunReturns(t)
  PROVE  IInv'
<1>1. /\ Typed /\ Apscheduler /\ Goto(t, "fired", "dead") /\ WorkOn(t, NoSchedule)
      /\ UNCHANGED <<stored, known, heap, callbacks, ticking, thread, running, todo, since, armed,
                     library, jobs, starts, crashes>>
  BY DEF IInv, RunReturns, backend, history, aps, bounds
<1>2. /\ pc'[t] = "dead"
      /\ \A c \in Callers : pc'[c] = pc[c] /\ at'[c] = at[c]
      /\ \A u \in Loops \ {t} : pc'[u] = pc[u] /\ at'[u] = at[u]
      /\ pc' \in [Threads -> CallerPC \cup LoopPC]
      /\ \A c \in Callers : pc'[c] \in CallerPC
      /\ \A u \in Loops : pc'[u] \in LoopPC
      /\ at' \in [Threads -> Schedules \cup {NoSchedule}]
  BY <1>1, LoopMoves DEF LoopPC
<1>3. Typed'
  BY <1>1, <1>2 DEF Typed
<1>4. Places'
  BY <1>1, <1>2 DEF IInv, Places, Flying
<1>5. NoneForgotten'
  BY <1>1, <1>2, LoopNoneForgotten DEF CallersLeftAlone, Armed, OnHeap, Held, Apscheduler
<1>6. \A r \in Schedules : OnceInFlight(r)'
  BY <1>1 DEF OnceInFlight, Apscheduler
<1>. QED BY <1>3, <1>4, <1>5, <1>6 DEF IInv

-----------------------------------------------------------------------------
(* Time and crashes.                                                        *)

\* An entry comes a second closer while a second passes.
LEMMA TickKeeps ==
  ASSUME IInv, Tick
  PROVE  IInv'
<1>1. /\ Typed /\ heap' = [s \in Schedules |-> Closer(s)]
      /\ since' = [s \in Schedules |-> IF since[s] < Interval[s] THEN since[s] + 1 ELSE since[s]]
      /\ UNCHANGED <<stored, known, callbacks, ticking, thread, running, todo, pc,
                     at, armed, starts, crashes, library, jobs>>
  BY DEF IInv, Tick, aps, bounds
<1>2. \A s \in Schedules :
        /\ heap'[s] = Closer(s) /\ heap[s] \in [Due(s) -> Nat] /\ Closer(s) \in [Due(s) -> Nat]
        /\ Interval[s] \in Nat /\ since[s] \in 0 .. Interval[s]
        /\ since'[s] = IF since[s] < Interval[s] THEN since[s] + 1 ELSE since[s]
  BY <1>1, CloserFits, ConstantsOK DEF Typed, Due
<1>3. \A s \in Schedules : since'[s] \in Nat /\ since'[s] \in 0 .. Interval[s]
  BY <1>2
<1>4. Typed'
  <2>1. heap' = [s \in Schedules |-> heap'[s]] /\ \A s \in Schedules : heap'[s] \in [Due(s) -> Nat]
    BY <1>1, <1>2
  <2>2. since' \in [Schedules -> Nat] /\ \A s \in Schedules : since'[s] \in Due(s)
    BY <1>1, <1>3 DEF Due
  <2>. QED BY <1>1, <2>1, <2>2 DEF Typed
<1>5. Places'
  BY <1>1 DEF IInv, Places, AtSchedule, Removing, Flying
<1>6. ASSUME NEW s \in Schedules, NEW d \in Due(s), heap[s][d] > 0
      PROVE  \E e \in Due(s) : heap'[s][e] > 0
  <2>1. d \in 0 .. Interval[s] /\ heap[s][d] \in Nat /\ Interval[s] \in Nat
    BY <1>2 DEF Due
  <2>2. CASE Interval[s] = 0
    BY <1>1, <1>2, <1>6, <2>2, CloserFits
  <2>3. CASE Interval[s] > 0 /\ d \in {0, 1}
    <3>1. 0 \in Due(s) /\ 1 \in Due(s) /\ heap[s][0] \in Nat /\ heap[s][1] \in Nat
      BY <1>2, <2>3 DEF Due
    <3>2. heap'[s][0] = heap[s][1] + heap[s][0]
      BY <1>1, <1>2, <2>3, CloserFits
    <3>3. heap'[s][0] > 0
      BY <1>6, <2>3, <3>1, <3>2
    <3>. QED BY <3>1, <3>3
  <2>4. CASE d > 1
    <3>1. d - 1 \in Due(s) \ {0} /\ d - 1 < Interval[s] /\ (d - 1) + 1 = d
      BY <2>1, <2>4 DEF Due
    <3>2. heap'[s][d - 1] = heap[s][d]
      BY <1>1, <1>2, <3>1, CloserFits
    <3>. QED BY <1>6, <3>1, <3>2
  <2>. QED BY <2>1, <2>2, <2>3, <2>4
<1>7. NoneForgotten'
  <2>1. ASSUME NEW s \in stored, Armed(s) PROVE Armed(s)'
    <3>1. s \in Schedules
      BY <1>1 DEF Typed
    <3>2. OnHeap(s) => OnHeap(s)'
      BY <1>6, <3>1 DEF OnHeap, Held, Apscheduler
    <3>. QED BY <1>1, <2>1, <3>2 DEF Armed, Held, Flying, Apscheduler
  <2>. QED BY <1>1, <2>1, LoopNoneForgotten DEF CallersLeftAlone
<1>8. ASSUME NEW s \in Schedules PROVE OnceInFlight(s)'
  <2>. USE DEF Flying
  <2>1. \A d \in Due(s) : d \in Nat /\ d <= Interval[s] /\ heap[s][d] \in Nat
    BY <1>2 DEF Due
  <2>2. /\ Interval[s] = 0 => \A d \in Due(s) : heap'[s][d] = heap[s][d]
        /\ Interval[s] > 0 => heap'[s][0] = heap[s][1] + heap[s][0]
        /\ \A d \in Due(s) \ {0} :
             heap'[s][d] = IF d < Interval[s] THEN heap[s][d + 1] ELSE 0
    BY <1>1, <1>2, CloserFits
  <2>3. /\ 0 \in Due(s) /\ (Interval[s] > 0 => 1 \in Due(s))
        /\ \A d \in Due(s) : d < Interval[s] => d + 1 \in Due(s)
    BY <1>2, <2>1 DEF Due
  <2>4. NoEntry(s) => NoEntry(s)'
    <3>1. SUFFICES ASSUME NoEntry(s), NEW d \in Due(s) PROVE heap'[s][d] = 0
      BY DEF NoEntry
    <3>. QED BY <1>2, <2>1, <2>2, <2>3, <3>1 DEF NoEntry
  <2>5. Untouched(s) => Untouched(s)'
    BY <1>1, <2>4 DEF Untouched
  <2>6. ASSUME Single(s) PROVE Single(s)'
    <3>1. /\ \A d \in Due(s) : heap[s][d] <= 1
          /\ \A d, e \in Due(s) : heap[s][d] > 0 /\ heap[s][e] > 0 => d = e
          /\ \A d \in Due(s) : heap[s][d] > 0 => since[s] + d >= Interval[s]
      BY <2>6 DEF Single
    <3>2. \* where an entry that is due in d seconds comes from
          \A d \in Due(s) : heap'[s][d] > 0 =>
            \/ heap'[s][d] = heap[s][d] /\ d = 0
            \/ d + 1 \in Due(s) /\ heap'[s][d] = heap[s][d + 1]
      <4>1. ASSUME NEW d \in Due(s), heap'[s][d] > 0, Interval[s] = 0
            PROVE  heap'[s][d] = heap[s][d] /\ d = 0
        BY <1>2, <2>1, <2>2, <4>1
      <4>2. ASSUME Interval[s] > 0, heap'[s][0] > 0
            PROVE  heap'[s][0] = heap[s][0] \/ heap'[s][0] = heap[s][1]
        <5>1. heap[s][0] \in Nat /\ heap[s][1] \in Nat /\ heap'[s][0] = heap[s][1] + heap[s][0]
          BY <2>1, <2>2, <2>3, <4>2
        <5>2. ~(heap[s][0] > 0 /\ heap[s][1] > 0)
          BY <2>3, <3>1, <4>2
        <5>. QED BY <5>1, <5>2
      <4>3. ASSUME NEW d \in Due(s) \ {0}, heap'[s][d] > 0
            PROVE  d + 1 \in Due(s) /\ heap'[s][d] = heap[s][d + 1]
        <5>1. d < Interval[s]
          BY <2>2, <4>3
        <5>. QED BY <2>2, <2>3, <5>1
      <4>. QED BY <1>2, <2>3, <4>1, <4>2, <4>3
    <3>3. \A d \in Due(s) : heap'[s][d] <= 1
      BY <1>2, <2>1, <3>1, <3>2
    <3>4. \A d, e \in Due(s) : heap'[s][d] > 0 /\ heap'[s][e] > 0 => d = e
      BY <2>1, <2>3, <3>1, <3>2
    <3>5. \A d \in Due(s) : heap'[s][d] > 0 => since'[s] + d >= Interval[s]
      <4>1. since[s] \in Nat /\ since[s] <= Interval[s] /\ Interval[s] \in Nat
        BY <1>2
      <4>2. \A d \in Due(s) :
              heap'[s][d] > 0 => since[s] + d >= Interval[s] \/ since[s] + (d + 1) >= Interval[s]
        BY <3>1, <3>2
      <4>. QED BY <1>2, <2>1, <4>1, <4>2
    <3>6. \A t \in Loops : Flying(t)' /\ at'[t] = s => NoEntry(s)'
      BY <1>1, <2>4, <2>6 DEF Single
    <3>7. \A t \in Loops : pc'[t] \in {"fire", "enqueue"} /\ at'[t] = s => since'[s] = Interval[s]
      BY <1>1, <1>2, <2>6 DEF Single
    <3>8. \A t, u \in Loops : Flying(t)' /\ at'[t] = s /\ Flying(u)' /\ at'[u] = s => t = u
      BY <1>1, <2>6 DEF Single
    <3>. QED BY <3>3, <3>4, <3>5, <3>6, <3>7, <3>8 DEF Single
  <2>. QED BY <1>1, <2>5, <2>6 DEF IInv, OnceInFlight, Apscheduler
<1>. QED BY <1>4, <1>5, <1>7, <1>8 DEF IInv

\* Nothing runs after a crash, and what is stored waits for a start.
LEMMA CrashKeeps ==
  ASSUME IInv, Crash
  PROVE  IInv'
<1>1. /\ Typed /\ crashes' \in 0 .. MaxCrashes
      /\ heap' = [s \in Schedules |-> [d \in Due(s) |-> 0]] /\ callbacks' = {}
      /\ ticking' = FALSE /\ thread' = NoLoop /\ running' = FALSE
      /\ todo' = [c \in Managers |-> {}] /\ at' = [p \in Threads |-> NoSchedule]
      /\ pc' = [p \in Threads |-> IF p \in Callers THEN "idle" ELSE "dead"]
      /\ armed' = [s \in Schedules |-> 0]
      /\ UNCHANGED <<stored, known, since, starts>>
  BY ConstantsOK DEF IInv, Crash, Typed, EmptyHeap, NothingTodo, NoCall, NoWork, NeverArmed
<1>2. /\ pc' \in [Threads -> CallerPC \cup LoopPC]
      /\ \A c \in Callers : pc'[c] = "idle" /\ pc'[c] \in CallerPC
      /\ \A t \in Loops : pc'[t] = "dead" /\ pc'[t] \in LoopPC
  BY <1>1, ConstantsOK DEF Threads, CallerPC, LoopPC
<1>3. /\ heap' = [s \in Schedules |-> heap'[s]]
      /\ \A s \in Schedules : heap'[s] \in [Due(s) -> Nat] /\ \A d \in Due(s) : heap'[s][d] = 0
  BY <1>1
<1>4. Typed'
  <2>1. /\ callbacks' \subseteq known' /\ ticking' \in BOOLEAN /\ running' \in BOOLEAN
        /\ thread' \in Loops \cup {NoLoop}
    BY <1>1
  <2>2. todo' \in [Managers -> SUBSET known']
    BY <1>1
  <2>3. at' \in [Threads -> Schedules \cup {NoSchedule}]
    BY <1>1
  <2>4. armed' \in [Schedules -> 0 .. 2]
    BY <1>1
  <2>5. library' \in {"none", "open", "shut"} /\ jobs' \subseteq known'
    BY DEF Crash
  <2>. QED BY <1>1, <1>2, <1>3, <2>1, <2>2, <2>3, <2>4, <2>5 DEF Typed
<1>5. Places'
  BY <1>2 DEF Places, AtSchedule, Removing, Flying
<1>6. NoneForgotten'
  BY <1>1, <1>2, ConstantsOK DEF NoneForgotten, Accounted, Apscheduler, ToBeRestored
<1>7. ASSUME NEW s \in Schedules PROVE OnceInFlight(s)'
  BY <1>2, <1>3 DEF OnceInFlight, Apscheduler, Untouched, Single, NoEntry, Flying
<1>. QED BY <1>4, <1>5, <1>6, <1>7 DEF IInv

-----------------------------------------------------------------------------
(* The theorems.                                                            *)

LEMMA StutterKeeps == IInv /\ UNCHANGED vars => IInv'
<1>. SUFFICES ASSUME IInv, UNCHANGED vars PROVE IInv'
  OBVIOUS
<1>1. UNCHANGED <<stored, known, heap, callbacks, ticking, thread, running, todo, pc, at,
                  since, armed, starts, crashes, library, jobs>>
  BY DEF vars, backend, history, aps, bounds
<1>2. Typed'
  BY <1>1 DEF IInv, Typed
<1>3. Places'
  BY <1>1 DEF IInv, Places, AtSchedule, Removing, Flying
<1>4. NoneForgotten'
  BY <1>1 DEF IInv, NoneForgotten, Accounted, Apscheduler, BeingAdded, Armed,
    OnHeap, Held, Flying, ToBeRestored
<1>5. ASSUME NEW s \in Schedules PROVE OnceInFlight(s)'
  BY <1>1, FlightsEndKeep DEF IInv, Flying
<1>. QED BY <1>2, <1>3, <1>4, <1>5 DEF IInv

LEMMA StepKeeps == IInv /\ [Next]_vars => IInv'
<1>. SUFFICES ASSUME IInv, [Next]_vars PROVE IInv'
  OBVIOUS
<1>1. CASE UNCHANGED vars
  BY <1>1, StutterKeeps
<1>2. ASSUME NEW c \in Callers, CallerStep(c) PROVE IInv'
  <2>1. ASSUME NEW s \in Schedules, AddSave(c, s) \/ RemoveDelete(c, s) PROVE IInv'
    BY <2>1, StoreKeeps
  <2>2. CASE AddArm(c)
    BY <2>2, AddArmKeeps
  <2>3. CASE RemoveDisarm(c)
    BY <2>3, RemoveDisarmKeeps
  <2>4. ASSUME c \in Managers,
               \/ StartCheck(c) \/ RestoreLoad(c) \/ RestoreDone(c) \/ StartBackend(c)
               \/ StartReturns(c)
        PROVE  IInv'
    BY <2>4, StartKeeps
  <2>5. ASSUME c \in Managers, StopCheck(c) \/ StopBackend(c) \/ StopReturns(c) PROVE IInv'
    BY <2>5, StopKeeps
  <2>6. ASSUME c \in Managers, NEW s \in Schedules, RestoreOne(c, s) PROVE IInv'
    BY <2>6, RestoreOneKeeps
  <2>7. ASSUME c \in Managers, NEW t \in Loops, Spawn(c, t) PROVE IInv'
    BY <2>7, SpawnKeeps
  <2>8. CASE AddToLibrary(c) \/ AddKeep(c) \/ RemovePop(c) \/ RemoveFromLibrary(c)
    BY <2>8, AddToLibraryKeeps, RecordKeeps, RemoveFromLibraryKeeps
  <2>9. ASSUME c \in Managers, \/ RestoreKeep(c) \/ StartLibrary(c) \/ StopLibrary(c)
                               \/ \E s \in Schedules : RestoreToLibrary(c, s)
        PROVE  IInv'
    BY <2>9, RestoreKeepKeeps, StartLibraryKeeps, StopLibraryKeeps, RestoreToLibraryKeeps
  <2>. QED BY <1>2, <2>1, <2>2, <2>3, <2>4, <2>5, <2>6, <2>7, <2>8, <2>9 DEF CallerStep, InCall
<1>3. ASSUME NEW t \in Loops, LoopStep(t) PROVE IInv'
  <2>1. CASE LoopCheck(t) \/ LoopWait(t) \/ FireLoad(t) \/ FireFails(t)
    BY <2>1, LoopOnKeeps
  <2>2. ASSUME ~Apscheduler, NEW s \in Schedules, LoopTake(t, s) PROVE IInv'
    BY <2>2, LoopTakeKeeps
  <2>3. CASE FireEnqueue(t)
    BY <2>3, FireEnqueueKeeps
  <2>4. CASE ~Apscheduler /\ Requeue(t)
    BY <2>4, RequeueKeeps
  <2>5. CASE RunReturns(t)
    BY <2>5, RunReturnsKeeps
  <2>. QED BY <1>3, <2>1, <2>2, <2>3, <2>4, <2>5 DEF LoopStep
<1>4. ASSUME NEW s \in Schedules, LibrarySkips(s) \/ \E t \in Loops : LibraryFires(t, s)
      PROVE  IInv'
  BY <1>4, LibraryRunsKeep
<1>. QED BY <1>1, <1>2, <1>3, <1>4, TickKeeps, CrashKeeps DEF Next

LEMMA Invariance == Spec => []IInv
<1>. QED BY InitHolds, StepKeeps, PTL DEF Spec

\* The backend's entries, step by step.
LEMMA NoEntryAppears ==
  ASSUME EntriesRegistered, callbacks' = callbacks,
         \A s \in Schedules : \A d \in Due(s) : heap'[s][d] > 0 =>
           s \in callbacks \/ \E e \in Due(s) : heap[s][e] > 0
  PROVE  EntriesRegistered'
  BY DEF EntriesRegistered, Due

LEMMA ArmRegisters ==
  ASSUME IInv, EntriesRegistered, NEW s \in Schedules, Arm(s) \/ AddJob(s)
  PROVE  EntriesRegistered'
<1>1. /\ Typed /\ callbacks' = callbacks \cup {s}
      /\ \A r \in Schedules \ {s} : heap'[r] = heap[r]
  BY PushFits, AddJobFits DEF IInv, Arm, AddJob
<1>. QED BY <1>1 DEF EntriesRegistered, Due

LEMMA DisarmUnregisters ==
  ASSUME IInv, EntriesRegistered, NEW s \in Schedules, Disarm(s)
  PROVE  EntriesRegistered'
<1>1. /\ callbacks' = callbacks \ {s}
      /\ \A r \in Schedules \ {s} : heap'[r] = heap[r]
      /\ \A d \in Due(s) : heap'[s][d] = 0
  BY DisarmFits DEF IInv, Disarm
<1>. QED BY <1>1 DEF EntriesRegistered, Due

LEMMA EmptyRegisters ==
  ASSUME heap' = EmptyHeap
  PROVE  EntriesRegistered'
<1>1. \A s \in Schedules : \A d \in Due(s) : heap'[s][d] = 0
  BY DEF EmptyHeap
<1>. QED BY <1>1 DEF EntriesRegistered, Due

LEMMA EntriesStep == IInv /\ EntriesRegistered /\ [Next]_vars => EntriesRegistered'
<1>. SUFFICES ASSUME IInv, EntriesRegistered, [Next]_vars PROVE EntriesRegistered'
  OBVIOUS
<1>0. Typed /\ \A s \in Schedules : 0 \in Due(s) /\ Interval[s] \in Due(s)
  BY ConstantsOK DEF IInv, Due
<1>1. ASSUME heap' = heap, callbacks' = callbacks PROVE EntriesRegistered'
  BY <1>1, NoEntryAppears
<1>2. CASE UNCHANGED vars
  BY <1>1, <1>2 DEF vars, backend
<1>3. ASSUME NEW c \in Callers, CallerStep(c) PROVE EntriesRegistered'
  <2>1. CASE \/ AddKeep(c) \/ RemovePop(c)
             \/ \E s \in Schedules : AddSave(c, s) \/ RemoveDelete(c, s)
    BY <1>1, <2>1 DEF AddKeep, RemovePop, AddSave, RemoveDelete, backend
  <2>2. CASE \/ StartCheck(c) \/ StopCheck(c) \/ RestoreLoad(c) \/ RestoreKeep(c) \/ RestoreDone(c)
             \/ StartBackend(c) \/ StartLibrary(c) \/ (\E t \in Loops : Spawn(c, t))
             \/ StartReturns(c) \/ StopBackend(c) \/ StopReturns(c)
    BY <1>1, <2>2 DEF StartCheck, StopCheck, RestoreLoad, RestoreKeep, RestoreDone, StartBackend,
                      StartLibrary, Spawn, StartReturns, StopBackend, StopReturns, backend
  <2>3. CASE AddArm(c) \/ AddToLibrary(c)
    <3>1. at[c] \in Schedules
      BY <1>0, <2>3 DEF IInv, Places, AtSchedule, Typed, AddArm, AddToLibrary, Goto
    <3>. QED BY <2>3, <3>1, ArmRegisters DEF AddArm, AddToLibrary
  <2>4. ASSUME NEW s \in Schedules, RestoreOne(c, s) \/ RestoreToLibrary(c, s)
        PROVE  EntriesRegistered'
    BY <2>4, ArmRegisters DEF RestoreOne, RestoreToLibrary
  <2>5. CASE RemoveDisarm(c) \/ RemoveFromLibrary(c)
    <3>1. at[c] \in Schedules
      BY <1>0, <2>5 DEF IInv, Places, AtSchedule, Typed, RemoveDisarm, RemoveFromLibrary, Goto
    <3>. QED BY <2>5, <3>1, DisarmUnregisters DEF RemoveDisarm, RemoveFromLibrary
  <2>6. CASE StopLibrary(c)
    BY <1>1, <2>6, EmptyRegisters DEF StopLibrary
  <2>. QED BY <1>3, <2>1, <2>2, <2>3, <2>4, <2>5, <2>6 DEF CallerStep, InCall
<1>4. ASSUME NEW t \in Loops, LoopStep(t) PROVE EntriesRegistered'
  <2>1. CASE \/ LoopCheck(t) \/ LoopWait(t) \/ FireLoad(t) \/ FireEnqueue(t) \/ FireFails(t)
             \/ RunReturns(t)
    BY <1>1, <2>1 DEF LoopCheck, LoopWait, FireLoad, FireEnqueue, FireFails, RunReturns, backend
  <2>2. ASSUME NEW s \in Schedules, LoopTake(t, s) PROVE EntriesRegistered'
    <3>1. /\ heap[s][0] > 0 /\ callbacks' = callbacks
          /\ \A r \in Schedules \ {s} : heap'[r] = heap[r]
      BY <1>0, <2>2, TakeFits DEF LoopTake
    <3>. QED BY <1>0, <3>1, NoEntryAppears
  <2>3. CASE Requeue(t)
    <3>1. at[t] \in Schedules
      BY <2>3 DEF IInv, Places, Requeue, Flying, Goto
    <3>2. CASE at[t] \in callbacks
      <4>1. callbacks' = callbacks /\ \A r \in Schedules \ {at[t]} : heap'[r] = heap[r]
        BY <1>0, <2>3, <3>1, <3>2, PushFits DEF Requeue
      <4>. QED BY <3>2, <4>1, NoEntryAppears
    <3>3. CASE at[t] \notin callbacks
      BY <1>1, <2>3, <3>3 DEF Requeue
    <3>. QED BY <3>2, <3>3
  <2>. QED BY <1>4, <2>1, <2>2, <2>3 DEF LoopStep
<1>5. ASSUME NEW s \in Schedules, LibrarySkips(s) \/ \E t \in Loops : LibraryFires(t, s)
      PROVE  EntriesRegistered'
  <2>1. NextRun(s) /\ heap[s][0] > 0 /\ callbacks' = callbacks
    BY <1>5 DEF LibrarySkips, LibraryFires
  <2>2. \A r \in Schedules \ {s} : heap'[r] = heap[r]
    BY <1>0, <2>1, OnlyEntryFits DEF NextRun
  <2>. QED BY <1>0, <2>1, <2>2, NoEntryAppears
<1>6. CASE Tick
  <2>1. callbacks' = callbacks /\ \A s \in Schedules : heap'[s] = Closer(s)
    BY <1>6 DEF Tick
  <2>2. ASSUME NEW s \in Schedules, NEW d \in Due(s), heap'[s][d] > 0
        PROVE  \E e \in Due(s) : heap[s][e] > 0
    <3>1. /\ heap[s] \in [Due(s) -> Nat] /\ Interval[s] \in Nat /\ d \in 0 .. Interval[s]
          /\ d < Interval[s] => d + 1 \in Due(s)
          /\ Interval[s] > 0 => 1 \in Due(s)
      BY <1>0, ConstantsOK DEF Typed, Due
    <3>2. CASE Interval[s] = 0
      BY <1>0, <2>1, <2>2, <3>2, CloserFits
    <3>3. CASE Interval[s] > 0 /\ d = 0
      <4>1. heap[s][1] + heap[s][0] > 0 /\ heap[s][1] \in Nat /\ heap[s][0] \in Nat
        BY <1>0, <2>1, <2>2, <3>1, <3>3, CloserFits
      <4>2. heap[s][1] > 0 \/ heap[s][0] > 0
        BY <4>1
      <4>. QED BY <1>0, <3>1, <3>3, <4>2
    <3>4. CASE d # 0
      <4>1. d < Interval[s] /\ heap[s][d + 1] > 0
        BY <1>0, <2>1, <2>2, <3>1, <3>4, CloserFits
      <4>. QED BY <3>1, <4>1
    <3>. QED BY <3>1, <3>2, <3>3, <3>4
  <2>. QED BY <2>1, <2>2, NoEntryAppears
<1>7. CASE Crash
  BY <1>7, EmptyRegisters DEF Crash
<1>. QED BY <1>2, <1>3, <1>4, <1>5, <1>6, <1>7 DEF Next

\* Every variable keeps the form that the code gives it, and the backend holds
\* entries of registered schedules only, whatever was under way at a removal.
THEOREM SchedulerTypeOK == Spec => []TypeOK
<1>1. Init => EntriesRegistered
  <2>. SUFFICES ASSUME Init PROVE EntriesRegistered
    OBVIOUS
  <2>1. \A s \in Schedules : \A d \in Due(s) : heap[s][d] = 0
    BY DEF Init, EmptyHeap
  <2>. QED BY <2>1 DEF EntriesRegistered, Due
<1>2. IInv /\ EntriesRegistered => TypeOK
  BY DEF IInv, TypeOK
<1>. QED BY <1>1, <1>2, EntriesStep, Invariance, PTL DEF Spec

\* No interleaving of add_schedule, remove_schedule, starts, stops, fires that
\* fail and crashes makes a running scheduler forget a stored schedule: with
\* APScheduler if one thread starts and stops it, without it whatever does.
THEOREM SchedulerStoredIsArmed == Spec => []((Apscheduler => OneManager) => StoredIsArmed)
<1>1. ASSUME IInv, Apscheduler => OneManager PROVE StoredIsArmed
  <2>1. ASSUME NEW s \in stored, running, ticking, ~BeingAdded(s)
        PROVE  s \in callbacks /\ ((\E d \in Due(s) : heap[s][d] > 0) \/ InFlight(s) # {})
    <3>1. Armed(s)
      BY <1>1, <2>1 DEF IInv, NoneForgotten, Accounted, ToBeRestored
    <3>2. (\E t \in Loops : Flying(t) /\ at[t] = s) => InFlight(s) # {}
      BY DEF InFlight, Flying
    <3>. QED BY <3>1, <3>2 DEF Armed, OnHeap, Held
  <2>. QED BY <2>1 DEF StoredIsArmed, BeingAdded
<1>2. IInv => ((Apscheduler => OneManager) => StoredIsArmed)
  BY <1>1
<1>. QED BY <1>2, Invariance, PTL

\* Without APScheduler, a schedule that was registered once keeps its interval
\* between two jobs.
THEOREM SchedulerFrequencyKept == Spec => []FrequencyKept
<1>1. ASSUME IInv PROVE FrequencyKept
  <2>1. ASSUME NEW t \in Loops, ~Apscheduler, pc[t] = "enqueue", armed[at[t]] <= 1
        PROVE  since[at[t]] \in {0, Interval[at[t]]}
    <3>1. at[t] \in Schedules
      BY <1>1, <2>1 DEF IInv, Places, Flying
    <3>. QED BY <1>1, <2>1, <3>1 DEF IInv, OnceInFlight, Single
  <2>. QED BY <2>1 DEF FrequencyKept
<1>. QED BY <1>1, Invariance, PTL
=============================================================================
