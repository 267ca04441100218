-------------------------- MODULE SnapshotTransition --------------------------
(***************************************************************************)
(* How a sync judges the change between snapshot A, taken before the       *)
(* projection, and snapshot B, taken after it                              *)
(* (src/src/sync/transition.rs: classify_transition).                      *)
(*                                                                         *)
(* A snapshot is a function from paths to scan entries [stat, acc], or     *)
(* NoFile for a path that is not selected.  projected maps the staged      *)
(* paths that changed to [read, opened, wasIndexed]; their prefix was      *)
(* re-hashed before they got here.  proven holds the unstaged paths whose  *)
(* stored prefix was re-hashed successfully.                               *)
(***************************************************************************)
EXTENDS SourceFiles

Selected(snapshot) == {f \in DOMAIN snapshot : snapshot[f] # NoFile}

Changed(before, after) == {f \in Selected(before) : before[f] # after[f]}

(* The same file, and longer.                                              *)
GrewInPlace(b, a) == b.stat.ino = a.stat.ino /\ b.stat.size < a.stat.size

Rejects(before, after, projected) ==
  \/ Selected(before) # Selected(after)
  \/ \E f \in Changed(before, after) :
       \/ ~Codex
       \/ ~GrewInPlace(before[f], after[f])
       \/ /\ f \in DOMAIN projected
          /\ \/ projected[f].read # before[f].stat.size
             \/ projected[f].opened.ino # before[f].stat.ino

(* A changed file that cannot be anchored: a new file already changed when *)
(* its projection opened it, or an unstaged one whose prefix is not proven.*)
DeferredPaths(before, after, projected, proven) ==
  {f \in Changed(before, after) :
     IF f \in DOMAIN projected
     THEN ~projected[f].wasIndexed /\ projected[f].opened # before[f].stat
     ELSE f \notin proven}

Classify(before, after, projected, proven) ==
  IF Rejects(before, after, projected)
  THEN [kind |-> "rejected", deferred |-> {}]
  ELSE LET deferred == DeferredPaths(before, after, projected, proven)
       IN [kind |-> CASE Changed(before, after) = {} -> "stable"
                      [] deferred # {}               -> "deferred"
                      [] OTHER                       -> "appendOnly",
           deferred |-> deferred]

=============================================================================
