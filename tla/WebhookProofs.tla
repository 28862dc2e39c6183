----------------------------- MODULE WebhookProofs -----------------------------
(***************************************************************************)
(* Proofs about Webhook, for any sets of events and clients, any finite    *)
(* number of receivers, and any numbers of deliveries, faults and crashes. *)
(***************************************************************************)
EXTENDS Webhook, FiniteSetTheorems, TLAPS

\* Everything but the rate limit has its type.
Typed ==
  /\ failed \in [Receivers -> [Events -> Nat]]
  /\ file \in [Events -> Nat]
  /\ todo \in [Receivers -> [Events -> Nat]]
  /\ jobs \in [Events -> Nat]
  /\ pc \in [Receivers -> PC]
  /\ hand \in [Receivers -> Events \cup {NoEvent}]
  /\ \A r \in Receivers : pc[r] \in {"save", "persist", "resave"} => hand[r] \in Events
  /\ owed \subseteq Scans
  /\ ioErrors \in Nat

\* How the list and the file of a lone receiver differ inside a call, and that
\* what is owed is in both.
InStep(r) ==
  /\ pc[r] \in {"idle", "save", "retry", "resave"} => failed[r] = file
  /\ pc[r] = "persist" => failed[r] = Add(file, hand[r])
  /\ pc[r] = "clear" => failed[r] = None /\ owed = {}
  /\ \A e \in owed : /\ file[e] > 0
                     /\ pc[r] = "retry" => todo[r][e] > 0
                     /\ pc[r] = "resave" => todo[r][e] > 0 \/ hand[r] = e

Alone(r) == Receivers = {r} /\ ioErrors = 0

IInv == Typed /\ \A r \in Receivers : Alone(r) => InStep(r)

-----------------------------------------------------------------------------
LEMMA AddFits ==
  ASSUME NEW bag \in [Events -> Nat], NEW e \in Events
  PROVE  /\ Add(bag, e) \in [Events -> Nat]
         /\ Add(bag, e)[e] > 0
         /\ \A f \in Events : bag[f] > 0 => Add(bag, e)[f] > 0
  BY DEF Add

LEMMA LessFits ==
  ASSUME NEW bag \in [Events -> Nat], NEW e \in Events, bag[e] > 0
  PROVE  /\ Less(bag, e) \in [Events -> Nat]
         /\ \A f \in Events \ {e} : Less(bag, e)[f] = bag[f]
  BY DEF Less

LEMMA NoneFits == None \in [Events -> Nat] /\ \A e \in Events : None[e] = 0
  BY DEF None

LEMMA InitHolds == Init => IInv
<1>. SUFFICES ASSUME Init PROVE IInv
  OBVIOUS
<1>1. Typed
  BY NoneFits DEF Init, Typed, PC
<1>2. \A r \in Receivers : InStep(r)
  BY DEF Init, InStep
<1>. QED BY <1>1, <1>2 DEF IInv

-----------------------------------------------------------------------------
(* One step of one receiver.                                                *)

\* Steps that touch neither entries nor calls.
LEMMA QuietStepKeeps ==
  ASSUME IInv, UNCHANGED <<failed, file, todo, jobs, flow, owed, ioErrors>>
  PROVE  IInv'
  BY DEF IInv, Typed, Alone, InStep, flow, None, Add

LEMMA LimiterKeeps ==
  ASSUME IInv, UNCHANGED <<failed, file, todo, jobs, flow, owed, bounds>>
  PROVE  IInv'
  BY QuietStepKeeps DEF bounds

\* Looking up a key and saving a job leave list, file and entries alone.
LEMMA DeliveryKeeps ==
  ASSUME IInv, NEW r \in Receivers,
         \/ Save(r)
         \/ \E e \in Events : HandleKnown(r, e) \/ Acknowledge(r, e) \/ LookUp(r, e)
  PROVE  IInv'
<1>1. CASE \E e \in Events : HandleKnown(r, e) \/ Acknowledge(r, e)
  BY <1>1, QuietStepKeeps DEF HandleKnown, Acknowledge, bounds
<1>2. ASSUME NEW e \in Events, LookUp(r, e) PROVE IInv'
  <2>1. /\ pc[r] = "idle" /\ pc' = [pc EXCEPT ![r] = "save"]
        /\ hand' = [hand EXCEPT ![r] = e]
        /\ UNCHANGED <<failed, file, todo, jobs, owed, ioErrors>>
    BY <1>2 DEF LookUp, Goto, bounds
  <2>2. Typed'
    BY <2>1 DEF IInv, Typed, PC
  <2>3. ASSUME NEW q \in Receivers, Alone(q)' PROVE InStep(q)'
    BY <2>1, <2>3 DEF IInv, Typed, Alone, InStep
  <2>. QED BY <2>2, <2>3 DEF IInv
<1>3. CASE Save(r)
  <2>1. /\ pc[r] = "save" /\ pc' = [pc EXCEPT ![r] = "idle"]
        /\ hand' = [hand EXCEPT ![r] = NoEvent] /\ jobs' = Add(jobs, hand[r])
        /\ UNCHANGED <<failed, file, todo, owed, ioErrors>>
    BY <1>3 DEF Save, Goto, bounds
  <2>2. jobs' \in [Events -> Nat]
    BY <2>1, AddFits DEF IInv, Typed
  <2>3. Typed'
    BY <2>1, <2>2 DEF IInv, Typed, PC
  <2>4. ASSUME NEW q \in Receivers, Alone(q)' PROVE InStep(q)'
    BY <2>1, <2>4 DEF IInv, Typed, Alone, InStep
  <2>. QED BY <2>3, <2>4 DEF IInv
<1>. QED BY <1>1, <1>2, <1>3

LEMMA RecordFailedKeeps ==
  ASSUME IInv, NEW r \in Receivers, NEW e \in Events, NEW from \in {"idle", "save"},
         RecordFailed(r, from, e),
         UNCHANGED <<file, todo, owed, ioErrors>>,
         jobs' \in [Events -> Nat]
  PROVE  IInv'
<1>1. /\ pc[r] = from /\ pc' = [pc EXCEPT ![r] = "persist"]
      /\ hand' = [hand EXCEPT ![r] = e]
      /\ failed' = [failed EXCEPT ![r] = Add(failed[r], e)]
  BY DEF RecordFailed, Goto
<1>2. Add(failed[r], e) \in [Events -> Nat]
  BY AddFits DEF IInv, Typed
<1>3. Typed'
  BY <1>1, <1>2 DEF IInv, Typed, PC
<1>4. ASSUME NEW q \in Receivers, Alone(q)' PROVE InStep(q)'
  <2>1. q = r /\ Alone(r)
    BY <1>4 DEF Alone
  <2>2. pc'[r] = "persist" /\ hand'[r] = e /\ failed'[r] = Add(file', e)
    BY <1>1, <2>1 DEF IInv, Typed, InStep
  <2>. QED BY <2>1, <2>2 DEF IInv, InStep
<1>. QED BY <1>3, <1>4 DEF IInv

LEMMA FailureKeeps ==
  ASSUME IInv, NEW r \in Receivers,
         SaveRaises(r) \/ \E e \in Events : Reject(r, e) \/ HandlerRaises(r, e)
  PROVE  IInv'
<1>1. ASSUME NEW e \in Events, Reject(r, e) \/ HandlerRaises(r, e) PROVE IInv'
  <2>1. RecordFailed(r, "idle", e) /\ UNCHANGED <<file, todo, owed, ioErrors, jobs>>
    BY <1>1 DEF Reject, HandlerRaises, bounds
  <2>. QED BY <2>1, RecordFailedKeeps DEF IInv, Typed
<1>2. CASE SaveRaises(r)
  <2>1. /\ RecordFailed(r, "save", hand[r]) /\ UNCHANGED <<file, todo, owed, ioErrors>>
        /\ jobs' \in {jobs, Add(jobs, hand[r])}
    BY <1>2 DEF SaveRaises
  <2>2. hand[r] \in Events
    BY <2>1 DEF RecordFailed, Goto, IInv, Typed
  <2>3. jobs' \in [Events -> Nat]
    BY <2>1, <2>2, AddFits DEF IInv, Typed
  <2>. QED BY <2>1, <2>2, <2>3, RecordFailedKeeps
<1>. QED BY <1>1, <1>2

\* The entry reaches the file; without an OSError list and file agree again.
LEMMA PersistKeeps ==
  ASSUME IInv, NEW r \in Receivers, Persist(r) \/ PersistFails(r)
  PROVE  IInv'
<1>1. /\ pc[r] = "persist" /\ pc' = [pc EXCEPT ![r] = "idle"]
      /\ hand' = [hand EXCEPT ![r] = NoEvent]
      /\ UNCHANGED <<failed, todo, jobs>>
  BY DEF Persist, PersistFails, Goto
<1>2. CASE Persist(r)
  <2>1. /\ file' = Add(file, hand[r]) /\ ioErrors' = ioErrors
        /\ owed' = IF hand[r] \in Scans THEN owed \cup {hand[r]} ELSE owed
    BY <1>2 DEF Persist, bounds
  <2>2. hand[r] \in Events /\ file \in [Events -> Nat] /\ owed \subseteq Scans
    BY <1>1 DEF IInv, Typed
  <2>3. Typed'
    BY <1>1, <2>1, <2>2, AddFits DEF IInv, Typed, PC
  <2>4. ASSUME NEW q \in Receivers, Alone(q)' PROVE InStep(q)'
    <3>1. q = r /\ Alone(r) /\ InStep(r)
      BY <2>1, <2>4 DEF Alone, IInv
    <3>2. pc'[r] = "idle" /\ failed'[r] = file'
      BY <1>1, <2>1, <3>1 DEF InStep, IInv, Typed
    <3>3. \A e \in owed' : file'[e] > 0
      <4>1. \A e \in owed : e \in Events /\ file[e] > 0
        BY <2>2, <3>1, ConstantsOK DEF InStep
      <4>. QED BY <2>1, <2>2, <4>1, AddFits
    <3>. QED BY <3>1, <3>2, <3>3 DEF InStep
  <2>. QED BY <2>3, <2>4 DEF IInv
<1>3. CASE PersistFails(r)
  <2>1. file' = file /\ owed' = owed /\ ioErrors' = ioErrors + 1
    BY <1>3 DEF PersistFails
  <2>2. Typed'
    BY <1>1, <2>1 DEF IInv, Typed, PC
  <2>. QED BY <2>1, <2>2 DEF IInv, Typed, Alone
<1>. QED BY <1>2, <1>3

-----------------------------------------------------------------------------
(* Retry and restart.                                                       *)

LEMMA RetryKeeps ==
  ASSUME IInv, NEW r \in Receivers, Retry(r)
  PROVE  IInv'
<1>1. /\ pc[r] = "idle" /\ pc' = [pc EXCEPT ![r] = "retry"]
      /\ todo' = [todo EXCEPT ![r] = failed[r]]
      /\ UNCHANGED <<failed, file, jobs, hand, owed, ioErrors>>
  BY DEF Retry, Goto, bounds
<1>2. Typed'
  BY <1>1 DEF IInv, Typed, PC
<1>3. ASSUME NEW q \in Receivers, Alone(q)' PROVE InStep(q)'
  <2>1. q = r /\ Alone(r) /\ InStep(r)
    BY <1>1, <1>3 DEF Alone, IInv
  <2>2. failed'[r] = file' /\ pc'[r] = "retry" /\ todo'[r] = file'
    BY <1>1, <2>1 DEF InStep, IInv, Typed
  <2>. QED BY <1>1, <2>1, <2>2 DEF InStep
<1>. QED BY <1>2, <1>3 DEF IInv

\* What an entry taken off the rest of a retry leaves of it.
LEMMA NextFits ==
  ASSUME IInv, NEW r \in Receivers, NEW e \in Events, RetryNext(r, e)
  PROVE  /\ todo' \in [Receivers -> [Events -> Nat]]
         /\ \A f \in Events \ {e} : todo'[r][f] = todo[r][f]
<1>1. todo[r] \in [Events -> Nat] /\ todo[r][e] > 0 /\ todo' = [todo EXCEPT ![r] = Less(todo[r], e)]
  BY DEF RetryNext, IInv, Typed
<1>2. todo'[r] = Less(todo[r], e)
  BY <1>1 DEF IInv, Typed
<1>. QED BY <1>1, <1>2, LessFits DEF IInv, Typed

\* An entry is done with: its handler has run, or it is none that has one.
LEMMA RetryNextKeeps ==
  ASSUME IInv, NEW r \in Receivers, NEW e \in Events, RetryRuns(r, e) \/ RetrySkips(r, e)
  PROVE  IInv'
<1>1. /\ pc[r] = "retry" /\ RetryNext(r, e)
      /\ UNCHANGED <<failed, file, pc, hand, jobs, ioErrors>>
      /\ owed' = owed \ {e}
  <2>1. CASE RetryRuns(r, e)
    BY <2>1 DEF RetryRuns, RetryNext, flow, bounds
  <2>2. CASE RetrySkips(r, e)
    BY <2>2 DEF RetrySkips, RetryNext, flow, bounds, IInv, Typed
  <2>. QED BY <2>1, <2>2
<1>2. /\ todo' \in [Receivers -> [Events -> Nat]]
      /\ \A f \in Events \ {e} : todo'[r][f] = todo[r][f]
  BY <1>1, NextFits
<1>3. Typed'
  BY <1>1, <1>2 DEF IInv, Typed
<1>4. ASSUME NEW q \in Receivers, Alone(q)' PROVE InStep(q)'
  <2>1. q = r /\ Alone(r) /\ InStep(r)
    BY <1>1, <1>4 DEF Alone, IInv
  <2>2. pc'[r] = "retry" /\ failed'[r] = file'
    BY <1>1, <2>1 DEF InStep, IInv, Typed
  <2>3. \A f \in owed' : file'[f] > 0 /\ todo'[r][f] > 0
    <3>1. \A f \in owed' : f \in Events \ {e} /\ f \in owed
      BY <1>1, ConstantsOK DEF IInv, Typed
    <3>2. \A f \in owed : file[f] > 0 /\ todo[r][f] > 0
      BY <1>1, <2>1 DEF InStep
    <3>. QED BY <1>1, <1>2, <3>1, <3>2
  <2>. QED BY <2>1, <2>2, <2>3 DEF InStep
<1>. QED BY <1>3, <1>4 DEF IInv

\* An entry is in hand while its job is saved, and owed until then.
LEMMA RetryLooksUpKeeps ==
  ASSUME IInv, NEW r \in Receivers, NEW e \in Events, RetryLooksUp(r, e)
  PROVE  IInv'
<1>1. /\ pc[r] = "retry" /\ pc' = [pc EXCEPT ![r] = "resave"] /\ RetryNext(r, e)
      /\ hand' = [hand EXCEPT ![r] = e]
      /\ UNCHANGED <<failed, file, jobs, owed, ioErrors>>
  BY DEF RetryLooksUp, Goto, bounds
<1>2. /\ todo' \in [Receivers -> [Events -> Nat]]
      /\ \A f \in Events \ {e} : todo'[r][f] = todo[r][f]
  BY <1>1, NextFits
<1>3. Typed'
  BY <1>1, <1>2 DEF IInv, Typed, PC
<1>4. ASSUME NEW q \in Receivers, Alone(q)' PROVE InStep(q)'
  <2>1. q = r /\ Alone(r) /\ InStep(r)
    BY <1>1, <1>4 DEF Alone, IInv
  <2>2. pc'[r] = "resave" /\ failed'[r] = file' /\ hand'[r] = e
    BY <1>1, <2>1 DEF InStep, IInv, Typed
  <2>3. \A f \in owed' : file'[f] > 0 /\ (todo'[r][f] > 0 \/ f = e)
    <3>1. \A f \in owed' : f \in Events /\ f \in owed
      BY <1>1, ConstantsOK DEF IInv, Typed
    <3>2. \A f \in owed : file[f] > 0 /\ todo[r][f] > 0
      BY <1>1, <2>1 DEF InStep
    <3>. QED BY <1>1, <1>2, <3>1, <3>2
  <2>. QED BY <2>1, <2>2, <2>3 DEF InStep
<1>. QED BY <1>3, <1>4 DEF IInv

LEMMA RetrySavesKeeps ==
  ASSUME IInv, NEW r \in Receivers, RetrySaves(r)
  PROVE  IInv'
<1>1. /\ pc[r] = "resave" /\ pc' = [pc EXCEPT ![r] = "retry"]
      /\ hand' = [hand EXCEPT ![r] = NoEvent] /\ owed' = owed \ {hand[r]}
      /\ jobs' \in {jobs, Add(jobs, hand[r])}
      /\ UNCHANGED <<failed, file, todo, ioErrors>>
  BY DEF RetrySaves, Goto, bounds
<1>2. jobs' \in [Events -> Nat]
  BY <1>1, AddFits DEF IInv, Typed
<1>3. Typed'
  BY <1>1, <1>2 DEF IInv, Typed, PC
<1>4. ASSUME NEW q \in Receivers, Alone(q)' PROVE InStep(q)'
  <2>1. q = r /\ Alone(r) /\ InStep(r)
    BY <1>1, <1>4 DEF Alone, IInv
  <2>2. pc'[r] = "retry" /\ failed'[r] = file'
    BY <1>1, <2>1 DEF InStep, IInv, Typed
  <2>. QED BY <1>1, <2>1, <2>2 DEF InStep
<1>. QED BY <1>3, <1>4 DEF IInv

\* The list is emptied once every entry has had its turn, so nothing is owed.
LEMMA ClearFailedKeeps ==
  ASSUME IInv, NEW r \in Receivers, ClearFailed(r)
  PROVE  IInv'
<1>1. /\ pc[r] = "retry" /\ pc' = [pc EXCEPT ![r] = "clear"] /\ todo[r] = None
      /\ failed' = [failed EXCEPT ![r] = None]
      /\ UNCHANGED <<file, todo, jobs, hand, owed, ioErrors>>
  BY DEF ClearFailed, Goto, bounds
<1>2. Typed'
  BY <1>1, NoneFits DEF IInv, Typed, PC
<1>3. ASSUME NEW q \in Receivers, Alone(q)' PROVE InStep(q)'
  <2>1. q = r /\ Alone(r) /\ InStep(r)
    BY <1>1, <1>3 DEF Alone, IInv
  <2>2. failed'[r] = None' /\ pc'[r] = "clear"
    BY <1>1 DEF IInv, Typed, None
  <2>3. owed' = {}
    <3>1. \A e \in owed : e \in Events /\ todo[r][e] > 0
      BY <1>1, <2>1, ConstantsOK DEF InStep, IInv, Typed
    <3>. QED BY <1>1, <3>1, NoneFits
  <2>. QED BY <2>1, <2>2, <2>3 DEF InStep
<1>. QED BY <1>2, <1>3 DEF IInv

LEMMA RemoveKeeps ==
  ASSUME IInv, NEW r \in Receivers, RemoveFile(r) \/ RemoveFails(r)
  PROVE  IInv'
<1>1. /\ pc[r] = "clear" /\ pc' = [pc EXCEPT ![r] = "idle"]
      /\ UNCHANGED <<failed, todo, jobs, hand, owed>>
  BY DEF RemoveFile, RemoveFails, Goto
<1>2. CASE RemoveFile(r)
  <2>1. file' = None /\ ioErrors' = ioErrors
    BY <1>2 DEF RemoveFile, bounds
  <2>2. Typed'
    BY <1>1, <2>1, NoneFits DEF IInv, Typed, PC
  <2>3. ASSUME NEW q \in Receivers, Alone(q)' PROVE InStep(q)'
    <3>1. q = r /\ Alone(r) /\ InStep(r)
      BY <2>1, <2>3 DEF Alone, IInv
    <3>2. failed'[r] = file' /\ pc'[r] = "idle" /\ owed' = {}
      BY <1>1, <2>1, <3>1 DEF InStep, IInv, Typed
    <3>. QED BY <3>1, <3>2 DEF InStep
  <2>. QED BY <2>2, <2>3 DEF IInv
<1>3. CASE RemoveFails(r)
  <2>1. file' = file /\ ioErrors' = ioErrors + 1
    BY <1>3 DEF RemoveFails
  <2>2. Typed'
    BY <1>1, <2>1 DEF IInv, Typed, PC
  <2>. QED BY <2>1, <2>2 DEF IInv, Typed, Alone
<1>. QED BY <1>2, <1>3

\* The new process has in its list what the file says, and that is all that
\* is owed; unless it could not read it.
LEMMA RestartKeeps ==
  ASSUME IInv, NEW r \in Receivers, Restart(r)
  PROVE  IInv'
<1>1. /\ pc' = [pc EXCEPT ![r] = "idle"] /\ hand' = [hand EXCEPT ![r] = NoEvent]
      /\ todo' = [todo EXCEPT ![r] = None] /\ UNCHANGED <<file, jobs, owed>>
  BY DEF Restart
<1>2. CASE failed' = [failed EXCEPT ![r] = file] /\ ioErrors' = ioErrors
  <2>1. Typed'
    BY <1>1, <1>2, NoneFits DEF IInv, Typed, PC
  <2>2. ASSUME NEW q \in Receivers, Alone(q)' PROVE InStep(q)'
    <3>1. q = r /\ Alone(r) /\ InStep(r)
      BY <1>2, <2>2 DEF Alone, IInv
    <3>2. failed'[r] = file' /\ pc'[r] = "idle"
      BY <1>1, <1>2 DEF IInv, Typed
    <3>. QED BY <1>1, <3>1, <3>2 DEF InStep
  <2>. QED BY <2>1, <2>2 DEF IInv
<1>3. CASE failed' = [failed EXCEPT ![r] = None] /\ ioErrors' = ioErrors + 1
  <2>1. Typed'
    BY <1>1, <1>3, NoneFits DEF IInv, Typed, PC
  <2>. QED BY <1>3, <2>1 DEF IInv, Typed, Alone
<1>. QED BY <1>2, <1>3 DEF Restart

-----------------------------------------------------------------------------
LEMMA StepKeeps ==
  ASSUME IInv, [Next]_vars
  PROVE  IInv'
<1>1. CASE Tick \/ UNCHANGED vars
  BY <1>1, LimiterKeeps DEF Tick, vars
<1>2. ASSUME NEW r \in Receivers, ReceiverStep(r) PROVE IInv'
  <2>1. ASSUME NEW c \in Clients, Refuse(r, c) \/ \E e \in Events : Accept(r, c, e)
        PROVE  IInv'
    BY <2>1, LimiterKeeps DEF Refuse, Accept
  <2>2. CASE InCall(r)
    BY <2>2, DeliveryKeeps, FailureKeeps, PersistKeeps, RetryNextKeeps, RetryLooksUpKeeps,
       RetrySavesKeeps, ClearFailedKeeps, RemoveKeeps DEF InCall
  <2>. QED BY <1>2, <2>1, <2>2, DeliveryKeeps, FailureKeeps, RetryKeeps, RestartKeeps
           DEF ReceiverStep
<1>. QED BY <1>1, <1>2 DEF Next

LEMMA Invariance == Spec => []IInv
<1>1. IInv /\ [Next]_vars => IInv'
  BY StepKeeps
<1>. QED BY InitHolds, <1>1, PTL DEF Spec

-----------------------------------------------------------------------------
(* Jobs.                                                                    *)

SavingPC == {"save", "resave"}

\* The receivers that have looked for e's key in vain and have not saved yet.
Saving(e) == {r \in Receivers : pc[r] \in SavingPC /\ hand[r] = e}

(* Each of them will make a job; but once there is one, no other joins them. *)
Bounded == \A e \in Named : jobs[e] + Cardinality(Saving(e)) <= Cardinality(Receivers)

LEMMA SavingFits ==
  ASSUME NEW e
  PROVE  /\ IsFiniteSet(Saving(e)) /\ Cardinality(Saving(e)) \in Nat
         /\ Cardinality(Saving(e)) <= Cardinality(Receivers)
         /\ Cardinality(Receivers) \in Nat
<1>1. Saving(e) \in SUBSET Receivers /\ IsFiniteSet(Receivers)
  BY ConstantsOK DEF Saving
<1>. QED BY <1>1, FS_Subset, FS_CardinalityType

\* No job is made and no receiver joins.
LEMMA NoneJoins ==
  ASSUME IInv, Bounded, jobs' = jobs,
         \A q \in Receivers : pc'[q] \in SavingPC => pc'[q] = pc[q] /\ hand'[q] = hand[q]
  PROVE  Bounded'
<1>. SUFFICES ASSUME NEW e \in Named
              PROVE  jobs'[e] + Cardinality(Saving(e)') <= Cardinality(Receivers)
  BY DEF Bounded
<1>1. Saving(e)' \in SUBSET Saving(e)
  BY DEF Saving
<1>2. Cardinality(Saving(e)') <= Cardinality(Saving(e)) /\ Cardinality(Saving(e)') \in Nat
  BY <1>1, SavingFits, FS_Subset, FS_CardinalityType
<1>3. e \in Events /\ jobs[e] \in Nat
  BY ConstantsOK DEF IInv, Typed
<1>. QED BY <1>2, <1>3, SavingFits DEF Bounded

\* A receiver that joins has found no job.
LEMMA OneJoins ==
  ASSUME IInv, Bounded, jobs' = jobs, NEW r \in Receivers, NEW e \in Events, ~Known(e),
         NEW p, pc' = [pc EXCEPT ![r] = p], hand' = [hand EXCEPT ![r] = e]
  PROVE  Bounded'
<1>. SUFFICES ASSUME NEW f \in Named
              PROVE  jobs'[f] + Cardinality(Saving(f)') <= Cardinality(Receivers)
  BY DEF Bounded
<1>1. f \in Events /\ jobs[f] \in Nat
  BY ConstantsOK DEF IInv, Typed
<1>2. IsFiniteSet(Receivers)
  BY ConstantsOK
<1>3. CASE f = e
  <2>1. jobs[f] = 0
    BY <1>1, <1>3 DEF Known
  <2>2. Saving(f)' \in SUBSET Receivers
    BY DEF Saving
  <2>3. Cardinality(Saving(f)') <= Cardinality(Receivers) /\ Cardinality(Saving(f)') \in Nat
    BY <1>2, <2>2, FS_Subset, FS_CardinalityType
  <2>. QED BY <2>1, <2>3, SavingFits
<1>4. CASE f # e
  <2>1. Saving(f)' \in SUBSET Saving(f)
    BY <1>4 DEF Saving, IInv, Typed
  <2>2. Cardinality(Saving(f)') <= Cardinality(Saving(f)) /\ Cardinality(Saving(f)') \in Nat
    BY <2>1, SavingFits, FS_Subset, FS_CardinalityType
  <2>. QED BY <1>1, <2>2, SavingFits DEF Bounded
<1>. QED BY <1>3, <1>4

\* A receiver that leaves makes at most the one job it is about to save.
LEMMA OneLeaves ==
  ASSUME IInv, Bounded, NEW r \in Receivers, pc[r] \in SavingPC,
         jobs' \in {jobs, Add(jobs, hand[r])},
         NEW p, p \notin SavingPC, pc' = [pc EXCEPT ![r] = p],
         NEW h, hand' = [hand EXCEPT ![r] = h]
  PROVE  Bounded'
<1>. SUFFICES ASSUME NEW f \in Named
              PROVE  jobs'[f] + Cardinality(Saving(f)') <= Cardinality(Receivers)
  BY DEF Bounded
<1>1. f \in Events /\ jobs[f] \in Nat /\ jobs[f] + Cardinality(Saving(f)) <= Cardinality(Receivers)
  BY ConstantsOK DEF IInv, Typed, Bounded
<1>2. Saving(f)' = Saving(f) \ {r}
  BY DEF Saving, IInv, Typed
<1>3. CASE f = hand[r]
  <2>1. r \in Saving(f)
    BY <1>3 DEF Saving
  <2>2. Cardinality(Saving(f)') = Cardinality(Saving(f)) - 1
    BY <1>2, <2>1, SavingFits, FS_RemoveElement
  <2>3. jobs'[f] \in Nat /\ jobs'[f] <= jobs[f] + 1
    BY <1>1 DEF Add, IInv, Typed
  <2>. QED BY <1>1, <2>2, <2>3, SavingFits
<1>4. CASE f # hand[r]
  <2>1. jobs'[f] = jobs[f]
    BY <1>1, <1>4 DEF Add, IInv, Typed
  <2>2. Saving(f)' \in SUBSET Saving(f)
    BY <1>2
  <2>3. Cardinality(Saving(f)') <= Cardinality(Saving(f)) /\ Cardinality(Saving(f)') \in Nat
    BY <2>2, SavingFits, FS_Subset, FS_CardinalityType
  <2>. QED BY <1>1, <2>1, <2>3, SavingFits
<1>. QED BY <1>3, <1>4

LEMMA BoundKept ==
  ASSUME IInv, Bounded, [Next]_vars
  PROVE  Bounded'
<1>1. CASE UNCHANGED <<jobs, flow>>
  BY <1>1, NoneJoins DEF flow
<1>2. ASSUME NEW r \in Receivers, NEW p \in PC \ SavingPC, pc' = [pc EXCEPT ![r] = p],
             hand' = hand \/ \E h : hand' = [hand EXCEPT ![r] = h], jobs' = jobs
      PROVE  Bounded'
  <2>1. \A q \in Receivers : pc'[q] \in SavingPC => pc'[q] = pc[q] /\ hand'[q] = hand[q]
    BY <1>2 DEF IInv, Typed
  <2>. QED BY <1>2, <2>1, NoneJoins
<1>3. ASSUME NEW r \in Receivers, NEW e \in Events, LookUp(r, e) \/ RetryLooksUp(r, e)
      PROVE  Bounded'
  BY <1>3, OneJoins DEF LookUp, RetryLooksUp, Goto
<1>4. ASSUME NEW r \in Receivers, Save(r) \/ SaveRaises(r) \/ RetrySaves(r)
      PROVE  Bounded'
  <2>1. /\ pc[r] \in SavingPC /\ jobs' \in {jobs, Add(jobs, hand[r])}
        /\ \E p \in {"idle", "persist", "retry"} : pc' = [pc EXCEPT ![r] = p]
        /\ \E h : hand' = [hand EXCEPT ![r] = h]
    BY <1>4 DEF Save, SaveRaises, RetrySaves, RecordFailed, Goto, SavingPC
  <2>. QED BY <2>1, OneLeaves DEF SavingPC
<1>5. ASSUME NEW r \in Receivers, NEW e \in Events,
             \/ HandleKnown(r, e) \/ Acknowledge(r, e)
             \/ RetryRuns(r, e) \/ RetrySkips(r, e)
      PROVE  Bounded'
  BY <1>1, <1>5 DEF HandleKnown, Acknowledge, RetryRuns, RetrySkips
<1>6. ASSUME NEW r \in Receivers, NEW e \in Events, Reject(r, e) \/ HandlerRaises(r, e)
      PROVE  Bounded'
  BY <1>2, <1>6 DEF Reject, HandlerRaises, RecordFailed, Goto, PC, SavingPC
<1>7. ASSUME NEW r \in Receivers,
             \/ Persist(r) \/ PersistFails(r) \/ Retry(r) \/ ClearFailed(r)
             \/ RemoveFile(r) \/ RemoveFails(r) \/ Restart(r)
      PROVE  Bounded'
  BY <1>2, <1>7 DEF Persist, PersistFails, Retry, ClearFailed, RemoveFile, RemoveFails, Restart,
                    Goto, PC, SavingPC
<1>8. ASSUME NEW r \in Receivers, NEW c \in Clients,
             Refuse(r, c) \/ \E e \in Events : Accept(r, c, e)
      PROVE  Bounded'
  BY <1>1, <1>8 DEF Refuse, Accept
<1>9. CASE Tick \/ UNCHANGED vars
  BY <1>1, <1>9 DEF Tick, vars
<1>. QED BY <1>3, <1>4, <1>5, <1>6, <1>7, <1>8, <1>9 DEF Next, ReceiverStep, InCall

\* A scan that names itself becomes at most one job per receiver, and so one
\* with one receiver, however often it is delivered, retried and reloaded.
THEOREM WebhookOneJobPerScan == Spec => []OneJobPerScan
<1>1. Init => Bounded
  <2>. SUFFICES ASSUME Init, NEW e \in Named
                PROVE  jobs[e] + Cardinality(Saving(e)) <= Cardinality(Receivers)
    BY DEF Bounded
  <2>1. jobs[e] = 0
    BY NoneFits, ConstantsOK DEF Init
  <2>. QED BY <2>1, SavingFits
<1>2. (IInv /\ Bounded) /\ [Next]_vars => (IInv /\ Bounded)'
  BY StepKeeps, BoundKept
<1>3. IInv /\ Bounded => OneJobPerScan
  <2>. SUFFICES ASSUME IInv, Bounded, NEW e \in Named PROVE jobs[e] <= Cardinality(Receivers)
    BY DEF OneJobPerScan
  <2>1. jobs[e] \in Nat
    BY ConstantsOK DEF IInv, Typed
  <2>. QED BY <2>1, SavingFits DEF Bounded
<1>. QED BY InitHolds, <1>1, <1>2, <1>3, PTL DEF Spec

\* But while a lone receiver that has met no OSError writes an entry or removes
\* the file, list and file hold the same entries.
THEOREM WebhookDiskMatchesMemory == Spec => []DiskMatchesMemory
<1>1. IInv => DiskMatchesMemory
  BY DEF IInv, Typed, PC, Alone, InStep, DiskMatchesMemory
<1>. QED BY Invariance, <1>1, PTL

\* A scan whose failure was answered and written waits for a retry, across
\* restarts at any point.
THEOREM WebhookFailureAwaitsRetry == Spec => []FailureAwaitsRetry
<1>1. ASSUME IInv, NEW r \in Receivers, NEW e \in owed, Alone(r)
      PROVE  IF pc[r] \in {"retry", "resave"}
               THEN todo[r][e] > 0 \/ (pc[r] = "resave" /\ hand[r] = e)
               ELSE failed[r][e] > 0
  <2>1. InStep(r) /\ e \in Events /\ file[e] > 0 /\ file \in [Events -> Nat] /\ pc[r] \in PC
    BY <1>1, ConstantsOK DEF IInv, Typed, InStep
  <2>2. pc[r] \in {"retry", "resave"} => todo[r][e] > 0 \/ (pc[r] = "resave" /\ hand[r] = e)
    BY <2>1 DEF InStep
  <2>3. pc[r] \in {"idle", "save"} => failed[r][e] > 0
    BY <2>1 DEF InStep
  <2>4. pc[r] = "persist" => failed[r][e] > 0
    BY <1>1, <2>1, AddFits DEF InStep, IInv, Typed
  <2>5. pc[r] # "clear"
    BY <2>1 DEF InStep
  <2>. QED BY <2>1, <2>2, <2>3, <2>4, <2>5 DEF PC
<1>2. IInv => FailureAwaitsRetry
  BY <1>1 DEF FailureAwaitsRetry, Alone
<1>. QED BY Invariance, <1>2, PTL


-----------------------------------------------------------------------------
(* The rate limit and the rest of the types.                                *)

\* No list is longer than the rate limit allows.
Limited ==
  /\ stamps \in [Receivers -> [Clients -> Lists]]
  /\ \A r \in Receivers, c \in Clients :
       Cardinality(DOMAIN stamps[r][c]) <= RateLimitMax
  /\ sent \in 0..MaxSent

\* What has been received and what has gone wrong.
Counted ==
  /\ waiting \in [Receivers -> SUBSET Events]
  /\ faults \in 0..MaxFaults /\ ioErrors \in 0..MaxIOErrors
  /\ crashes \in 0..MaxCrashes

LEMMA EmptyListFits ==
  EmptyList \in Lists /\ Cardinality(DOMAIN EmptyList) <= RateLimitMax
<1>1. DOMAIN EmptyList = {} /\ EmptyList \in [{} -> 0..Window]
  BY DEF EmptyList
<1>2. {} \in SUBSET (1..MaxSent)
  OBVIOUS
<1>3. Cardinality({}) <= RateLimitMax
  BY FS_EmptySet, ConstantsOK
<1>. QED BY <1>1, <1>2, <1>3 DEF Lists

LEMMA ListFits ==
  ASSUME NEW list \in Lists
  PROVE  /\ DOMAIN list \in SUBSET (1..MaxSent)
         /\ list \in [DOMAIN list -> 0..Window]
         /\ IsFiniteSet(DOMAIN list)
<1>1. PICK requests \in SUBSET (1..MaxSent) : list \in [requests -> 0..Window]
  BY DEF Lists
<1>2. DOMAIN list = requests
  BY <1>1
<1>3. IsFiniteSet(1..MaxSent)
  BY FS_Interval, ConstantsOK
<1>4. IsFiniteSet(requests)
  BY <1>3, FS_Subset
<1>. QED BY <1>1, <1>2, <1>4

\* The fresh entries are some of those in the list.
LEMMA FreshFits ==
  ASSUME Limited, NEW r \in Receivers, NEW c \in Clients
  PROVE  /\ Fresh(r, c) \in SUBSET (1..MaxSent) /\ IsFiniteSet(Fresh(r, c))
         /\ Cardinality(Fresh(r, c)) <= RateLimitMax
         /\ Cardinality(Fresh(r, c)) \in Nat
         /\ \A n \in Fresh(r, c) : stamps[r][c][n] \in 0..Window
<1>1. stamps[r][c] \in Lists /\ Cardinality(DOMAIN stamps[r][c]) <= RateLimitMax
  BY DEF Limited
<1>. DEFINE D == DOMAIN stamps[r][c]
<1>2. /\ D \in SUBSET (1..MaxSent) /\ IsFiniteSet(D)
      /\ stamps[r][c] \in [D -> 0..Window]
  BY <1>1, ListFits
<1>3. Fresh(r, c) \in SUBSET D
  BY DEF Fresh
<1>4. /\ IsFiniteSet(Fresh(r, c))
      /\ Cardinality(Fresh(r, c)) <= Cardinality(D)
  BY <1>2, <1>3, FS_Subset
<1>5. Cardinality(Fresh(r, c)) \in Nat /\ Cardinality(D) \in Nat
  BY <1>2, <1>4, FS_CardinalityType
<1>. QED BY <1>1, <1>2, <1>3, <1>4, <1>5, ConstantsOK

\* A client's list becomes one of at most RateLimitMax requests.
LEMMA ListReplaced ==
  ASSUME Limited, NEW r \in Receivers, NEW c \in Clients, NEW list \in Lists,
         Cardinality(DOMAIN list) <= RateLimitMax,
         stamps' = [stamps EXCEPT ![r][c] = list], sent' \in 0..MaxSent
  PROVE  Limited'
<1>1. stamps' \in [Receivers -> [Clients -> Lists]]
  BY DEF Limited
<1>2. ASSUME NEW q \in Receivers, NEW d \in Clients
      PROVE  stamps'[q][d] = stamps[q][d] \/ stamps'[q][d] = list
  BY DEF Limited
<1>. QED BY <1>1, <1>2 DEF Limited, Lists

LEMMA AcceptLimited ==
  ASSUME Limited, NEW r \in Receivers, NEW c \in Clients, NEW e \in Events, Accept(r, c, e)
  PROVE  Limited'
<1>. DEFINE requests == Fresh(r, c) \cup {sent + 1}
            list == [n \in requests |-> IF n = sent + 1 THEN 0 ELSE stamps[r][c][n]]
<1>1. sent + 1 \in 1..MaxSent /\ sent' = sent + 1
  BY ConstantsOK DEF Accept, Limited
<1>2. requests \in SUBSET (1..MaxSent)
  BY <1>1, FreshFits
<1>3. Cardinality(requests) <= RateLimitMax
  <2>1. Cardinality(Fresh(r, c)) \in Nat /\ Cardinality(Fresh(r, c)) < RateLimitMax
    BY FreshFits, ConstantsOK DEF Accept, Full
  <2>2. \/ Cardinality(requests) = Cardinality(Fresh(r, c))
        \/ Cardinality(requests) = Cardinality(Fresh(r, c)) + 1
    BY FreshFits, FS_AddElement
  <2>. QED BY <2>1, <2>2, ConstantsOK
<1>4. list \in [requests -> 0..Window]
  BY FreshFits, ConstantsOK
<1>5. list \in Lists /\ DOMAIN list = requests
  BY <1>2, <1>4 DEF Lists
<1>6. stamps' = [stamps EXCEPT ![r][c] = list]
  BY DEF Accept, Limited
<1>7. sent' \in 0..MaxSent
  BY <1>1
<1>8. Cardinality(DOMAIN list) <= RateLimitMax
  BY <1>3, <1>5
<1>. HIDE DEF list
<1>. QED BY <1>5, <1>6, <1>7, <1>8, ListReplaced

LEMMA RefuseLimited ==
  ASSUME Limited, NEW r \in Receivers, NEW c \in Clients, Refuse(r, c)
  PROVE  Limited'
<1>. DEFINE list == [n \in Fresh(r, c) |-> stamps[r][c][n]]
<1>1. list \in [Fresh(r, c) -> 0..Window] /\ DOMAIN list = Fresh(r, c)
  BY FreshFits
<1>2. list \in Lists /\ Cardinality(DOMAIN list) <= RateLimitMax
  BY <1>1, FreshFits DEF Lists
<1>3. stamps' = [stamps EXCEPT ![r][c] = list] /\ sent' \in 0..MaxSent
  BY DEF Refuse, Limited
<1>. QED BY <1>2, <1>3, ListReplaced

\* Ages change, the requests stay.
LEMMA TickLimited ==
  ASSUME Limited, Tick
  PROVE  Limited'
<1>. DEFINE Aged(r, c) == [n \in DOMAIN stamps[r][c] |-> Older(stamps[r][c][n])]
<1>1. ASSUME NEW r \in Receivers, NEW c \in Clients
      PROVE  /\ Aged(r, c) \in Lists
             /\ DOMAIN Aged(r, c) = DOMAIN stamps[r][c]
  <2>1. /\ DOMAIN stamps[r][c] \in SUBSET (1..MaxSent)
        /\ stamps[r][c] \in [DOMAIN stamps[r][c] -> 0..Window]
    BY ListFits DEF Limited
  <2>2. \A n \in DOMAIN stamps[r][c] : Older(stamps[r][c][n]) \in 0..Window
    BY <2>1, ConstantsOK DEF Older
  <2>. QED BY <2>1, <2>2 DEF Lists
<1>. HIDE DEF Aged
<1>2. stamps' = [r \in Receivers |-> [c \in Clients |-> Aged(r, c)]] /\ sent' = sent
  BY DEF Tick, Aged
<1>. QED BY <1>1, <1>2 DEF Limited, Lists

\* A new process starts with an empty table.
LEMMA RestartLimited ==
  ASSUME Limited, NEW r \in Receivers, Restart(r)
  PROVE  Limited'
<1>1. /\ stamps' = [stamps EXCEPT ![r] = [c \in Clients |-> EmptyList]]
      /\ sent' = sent
  BY DEF Restart
<1>2. stamps' \in [Receivers -> [Clients -> Lists]]
  BY <1>1, EmptyListFits DEF Limited
<1>3. ASSUME NEW q \in Receivers, NEW c \in Clients
      PROVE  stamps'[q][c] = stamps[q][c] \/ stamps'[q][c] = EmptyList
  BY <1>1 DEF Limited
<1>. QED BY <1>1, <1>2, <1>3, EmptyListFits DEF Limited, Lists

LEMMA InCallCounted ==
  ASSUME Counted, NEW r \in Receivers, InCall(r)
  PROVE  Counted' /\ UNCHANGED limiter
<1>1. CASE Persist(r) \/ ClearFailed(r) \/ RemoveFile(r)
           \/ Save(r) \/ \E e \in Events : RetryLooksUp(r, e) \/ RetrySkips(r, e)
  BY <1>1 DEF Persist, ClearFailed, RemoveFile, Save, RetryLooksUp, RetrySkips, Counted, bounds
<1>2. CASE PersistFails(r)
  BY <1>2, ConstantsOK DEF PersistFails, Counted
<1>3. CASE RemoveFails(r)
  BY <1>3, ConstantsOK DEF RemoveFails, Counted
<1>4. ASSUME NEW e \in Events, RetryRuns(r, e)
      PROVE  Counted' /\ UNCHANGED limiter
  BY <1>4, ConstantsOK DEF RetryRuns, Counted, bounds
<1>5. CASE SaveRaises(r)
  BY <1>5, ConstantsOK DEF SaveRaises, Counted
<1>6. CASE RetrySaves(r)
  BY <1>6, ConstantsOK DEF RetrySaves, Counted, bounds
<1>. QED BY <1>1, <1>2, <1>3, <1>4, <1>5, <1>6 DEF InCall

LEMMA ReceiverStepFits ==
  ASSUME Limited, Counted, NEW r \in Receivers, ReceiverStep(r)
  PROVE  Limited' /\ Counted'
<1>1. UNCHANGED limiter => Limited'
  BY DEF limiter, Limited, Lists
<1>2. ASSUME NEW c \in Clients, NEW e \in Events, Accept(r, c, e)
      PROVE  Limited' /\ Counted'
  BY <1>2, AcceptLimited DEF Accept, Counted, bounds
<1>3. ASSUME NEW c \in Clients, Refuse(r, c)
      PROVE  Limited' /\ Counted'
  BY <1>3, RefuseLimited DEF Refuse, Counted, bounds
<1>4. ASSUME NEW e \in Events,
             HandleKnown(r, e) \/ LookUp(r, e) \/ Acknowledge(r, e) \/ Reject(r, e)
      PROVE  Limited' /\ Counted'
  BY <1>1, <1>4 DEF HandleKnown, LookUp, Acknowledge, Reject, Received, Counted, bounds
<1>5. ASSUME NEW e \in Events, HandlerRaises(r, e)
      PROVE  Limited' /\ Counted'
  BY <1>1, <1>5, ConstantsOK DEF HandlerRaises, Received, Counted
<1>6. CASE Retry(r)
  BY <1>1, <1>6 DEF Retry, Counted, bounds
<1>7. CASE Restart(r)
  <2>1. ioErrors' \in 0..MaxIOErrors
    BY <1>7, ConstantsOK DEF Restart, Counted
  <2>2. /\ waiting' \in [Receivers -> SUBSET Events] /\ faults' \in 0..MaxFaults
        /\ crashes' \in 0..MaxCrashes
    BY <1>7, ConstantsOK DEF Restart, Counted
  <2>. QED BY <1>7, <2>1, <2>2, RestartLimited DEF Counted
<1>. QED BY <1>1, <1>2, <1>3, <1>4, <1>5, <1>6, <1>7, InCallCounted DEF ReceiverStep

LEMMA LimitInvariance == Spec => [](Limited /\ Counted)
<1>1. Init => Limited /\ Counted
  BY EmptyListFits, ConstantsOK DEF Init, Limited, Counted
<1>2. ASSUME Limited, Counted, [Next]_vars
      PROVE  Limited' /\ Counted'
  <2>1. CASE Tick
    BY <1>2, <2>1, TickLimited DEF Tick, Counted, bounds
  <2>2. CASE UNCHANGED vars
    BY <1>2, <2>2 DEF vars, limiter, bounds, Limited, Counted, Lists
  <2>. QED BY <1>2, <2>1, <2>2, ReceiverStepFits DEF Next
<1>3. (Limited /\ Counted) /\ [Next]_vars => (Limited /\ Counted)'
  BY <1>2
<1>. QED BY <1>1, <1>3, PTL DEF Spec

\* The receiver keeps its types, and no client ever has more than
\* RATE_LIMIT_MAX requests in a list, for any clients, windows and limits.
THEOREM WebhookTypeOK == Spec => []TypeOK
<1>1. IInv /\ Limited /\ Counted => TypeOK
  BY DEF IInv, Typed, Limited, Counted, TypeOK
<1>. QED BY Invariance, LimitInvariance, <1>1, PTL
=============================================================================
