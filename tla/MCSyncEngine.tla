----------------------------- MODULE MCSyncEngine -----------------------------
(***************************************************************************)
(* Instances of SyncEngine for TLC: two paths, two sessions.               *)
(***************************************************************************)
EXTENDS SyncEngine

CONSTANTS f1, f2, s1, s2, recA, recB

(* Codex names a rollout file after its session: a path holds one session. *)
OwnSession == [f \in {f1, f2} |-> IF f = f1 THEN {s1} ELSE {s2}]

(* Copies of a session, and paths that change hands.                       *)
AnySession == [f \in {f1, f2} |-> {s1, s2}]

Strict      == {[strict |-> TRUE, prune |-> FALSE]}
StrictPrune == {[strict |-> TRUE, prune |-> TRUE]}
BestEffort  == {[strict |-> FALSE, prune |-> FALSE]}
PruneOrBest == StrictPrune \union BestEffort
NoPrune     == Strict \union BestEffort

=============================================================================
