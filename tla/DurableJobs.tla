----------------------------- MODULE DurableJobs -----------------------------
(***************************************************************************)
(* What the job layer promises about the persisted state of every job, with*)
(* no workers, copies or leases in sight: a submission leaves a job queued,*)
(* and from then on each save moves the persisted state along one          *)
(* transition that JobLifecycleManager accepts, or along two               *)
(* (schedule_retry makes two transitions and saves once).                  *)
(* JobQueue implements this machine when one operator process works on the *)
(* store; see JobQueue!ImplementsDurableJobs.                              *)
(***************************************************************************)
EXTENDS JobLifecycle

CONSTANT Jobs

VARIABLE state     \* state[j]: current_state in <job_id>.json, or Absent

\* No file for the job, or its enqueue has not returned yet.
Absent == "ABSENT"

TypeOK == state \in [Jobs -> JobState \cup {Absent}]

Init == state = [j \in Jobs |-> Absent]

\* enqueue returned with the job queued, or its caller died between its two
\* saves and left it CREATED, cancelled by then or not.
Submit(j) ==
  /\ state[j] = Absent
  /\ \E t \in {"QUEUED", "CREATED", "CANCELLED"} : state' = [state EXCEPT ![j] = t]

\* A save that persists one transition.
Transition(j, t) ==
  /\ state[j] # Absent
  /\ Accepts(state[j], t)
  /\ state' = [state EXCEPT ![j] = t]

\* A save that persists two transitions made since the last one.
DoubleTransition(j, mid) ==
  /\ state[j] # Absent
  /\ Accepts(state[j], mid)
  /\ \E t \in JobState : Accepts(mid, t) /\ state' = [state EXCEPT ![j] = t]

Next == \E j \in Jobs :
  \/ Submit(j)
  \/ \E t \in JobState : Transition(j, t)
  \/ \E mid \in JobState : DoubleTransition(j, mid)

Spec == Init /\ [][Next]_state

=============================================================================
