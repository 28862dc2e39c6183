---------------------------- MODULE JobLifecycle ----------------------------
(***************************************************************************)
(* The job state machine of layer1_orchestration/execution: the states and *)
(* the transition table of job_contract.py and the guards that             *)
(* JobLifecycleManager.transition (job_lifecycle.py) puts in front of it.  *)
(* Constant-level operators only; DurableJobs and JobQueue build on them.  *)
(***************************************************************************)
JobState == {
  "CREATED", "AUTHORIZED", "QUEUED", "ASSIGNED", "RUNNING", "CHECKPOINTED",
  "COMPLETED", "PAUSED", "RETRY_PENDING", "FAILED_RETRYABLE",
  "FAILED_TERMINAL", "CANCEL_REQUESTED", "CANCELLED", "TIMED_OUT",
  "AUTHORIZATION_REVOKED", "STOPPED_BY_POLICY", "RESULT_REJECTED" }

TERMINAL_STATES == {
  "COMPLETED", "CANCELLED", "FAILED_TERMINAL", "TIMED_OUT",
  "AUTHORIZATION_REVOKED", "STOPPED_BY_POLICY", "RESULT_REJECTED" }

\* ALLOWED_TRANSITIONS[s]: the targets the table lists for s.
ALLOWED_TRANSITIONS == [
  CREATED |-> {"AUTHORIZED", "CANCELLED", "TIMED_OUT"},
  AUTHORIZED |-> {"QUEUED", "AUTHORIZATION_REVOKED", "CANCELLED"},
  QUEUED |-> {"ASSIGNED", "CANCELLED", "TIMED_OUT"},
  ASSIGNED |-> {"RUNNING", "CANCELLED", "TIMED_OUT", "FAILED_RETRYABLE",
                "FAILED_TERMINAL"},
  RUNNING |-> {"CHECKPOINTED", "COMPLETED", "PAUSED", "FAILED_RETRYABLE",
               "FAILED_TERMINAL", "CANCELLED", "TIMED_OUT",
               "AUTHORIZATION_REVOKED", "STOPPED_BY_POLICY"},
  CHECKPOINTED |-> {"RUNNING", "PAUSED", "FAILED_RETRYABLE",
                    "FAILED_TERMINAL", "CANCELLED", "TIMED_OUT"},
  COMPLETED |-> {"RESULT_REJECTED"},
  PAUSED |-> {"RUNNING", "CANCELLED", "TIMED_OUT", "FAILED_TERMINAL"},
  RETRY_PENDING |-> {"QUEUED", "FAILED_TERMINAL", "CANCELLED"},
  FAILED_RETRYABLE |-> {"RETRY_PENDING", "FAILED_TERMINAL", "CANCELLED"},
  FAILED_TERMINAL |-> {},
  CANCEL_REQUESTED |-> {"CANCELLED", "FAILED_TERMINAL"},
  CANCELLED |-> {},
  TIMED_OUT |-> {"RETRY_PENDING"},
  AUTHORIZATION_REVOKED |-> {},
  STOPPED_BY_POLICY |-> {},
  RESULT_REJECTED |-> {"RETRY_PENDING"} ]

\* can_transition(record, target): the table alone.
CanTransition(s, t) == t \in ALLOWED_TRANSITIONS[s]

\* transition(record, target) returns instead of raising LifecycleError: no
\* terminal state moves, except COMPLETED to RESULT_REJECTED, and the table
\* lists the move.
Accepts(s, t) ==
  /\ s \in TERMINAL_STATES => s = "COMPLETED" /\ t = "RESULT_REJECTED"
  /\ CanTransition(s, t)

\* is_terminal of the manager.
IsTerminal(s) == s \in TERMINAL_STATES

\* The state JobQueue.cancel asks the manager for when the job is in s.
CancelTarget(s) ==
  IF s \in {"CREATED", "AUTHORIZED", "QUEUED", "ASSIGNED"}
  THEN "CANCELLED" ELSE "CANCEL_REQUESTED"

=============================================================================
