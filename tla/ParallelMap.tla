------------------------------ MODULE ParallelMap ------------------------------
(***************************************************************************)
(* What the projection pipeline promises the sync: every input is finished *)
(* at most once, in any order, and a run that completes has finished them  *)
(* all.  A run may fail as a whole at any time.                            *)
(***************************************************************************)
EXTENDS Naturals

CONSTANT Inputs

VARIABLES staged, failed, outcome

vars == <<staged, failed, outcome>>

Init == staged = {} /\ failed = {} /\ outcome = "running"

Finish(i) ==
  /\ outcome = "running"
  /\ i \notin staged \union failed
  /\ \/ staged' = staged \union {i} /\ UNCHANGED failed
     \/ failed' = failed \union {i} /\ UNCHANGED staged
  /\ UNCHANGED outcome

Complete ==
  /\ outcome = "running"
  /\ staged \union failed = Inputs
  /\ outcome' = "complete"
  /\ UNCHANGED <<staged, failed>>

Fail ==
  /\ outcome = "running"
  /\ outcome' = "failed"
  /\ UNCHANGED <<staged, failed>>

Next == (\E i \in Inputs : Finish(i)) \/ Complete \/ Fail

Spec == Init /\ [][Next]_vars
=============================================================================
