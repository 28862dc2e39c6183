----------------------------- MODULE MCJobQueue -----------------------------
(***************************************************************************)
(* Values for the constants of JobQueue that a cfg file cannot write down. *)
(***************************************************************************)
EXTENDS JobQueue, TLC

\* Submissions without an idempotency key, and all with the same one.
NoKeys == [j \in Jobs |-> NoKey]
SameKey == [j \in Jobs |-> "key"]

\* Operators of the same class are interchangeable.
OperatorSymmetry == Permutations(Operators)
=============================================================================
