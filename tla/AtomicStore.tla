----------------------------- MODULE AtomicStore -----------------------------
(***************************************************************************)
(* What JobStore promises of the record of one job: a save replaces it at  *)
(* once, and a load returns the record of one instant within the call.     *)
(* The versions of the record are numbered in the order of their saves.    *)
(***************************************************************************)
EXTENDS Naturals

CONSTANTS Readers, Saved

VARIABLES
  stored,   \* the version on disk, 0 before the first save
  view      \* of each reader, the version its load will return, 0 outside a load

vars == <<stored, view>>

Init ==
  /\ stored = 0
  /\ view = [r \in Readers |-> 0]

Put ==
  /\ \E v \in Saved : v > stored /\ stored' = v
  /\ UNCHANGED view

Look(r) ==
  /\ view[r] = 0
  /\ stored # 0
  /\ view' = [view EXCEPT ![r] = stored]
  /\ UNCHANGED stored

Return(r) ==
  /\ view[r] # 0
  /\ view' = [view EXCEPT ![r] = 0]
  /\ UNCHANGED stored

Next == Put \/ \E r \in Readers : Look(r) \/ Return(r)

Spec == Init /\ [][Next]_vars
=============================================================================
