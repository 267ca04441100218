------------------------------ MODULE ReplayIndex ------------------------------
(***************************************************************************)
(* What a sync promises whoever searches the index: it has no cursors and  *)
(* no deltas.  Each session that it writes is a full replay of one file,   *)
(* as the sync read it; no two sessions share a file; and all appears at   *)
(* once or not at all.                                                     *)
(***************************************************************************)
EXTENDS Naturals, Sequences

CONSTANTS
  Files,    \* paths
  Sids,     \* sessions
  Nothing   \* no file, no row, no request

VARIABLES
  raw,      \* the files on disk
  rows,     \* the index: a row [path, msgs] for each session, or Nothing
  proven,   \* whether a coverage proof is stored
  request,  \* what the sync under way was asked, or Nothing
  listed,   \* paths where it found a file
  replays   \* what it has read and may publish: [path, sid, msgs]

sync == <<request, listed, replays>>
vars == <<raw, rows, proven, sync>>

(* A last record without newline is not replayed.                          *)
Replays(f) ==
  {[path |-> f, sid |-> raw[f].sid, msgs |-> SubSeq(raw[f].recs, 1, n)] :
      n \in 1..(Len(raw[f].recs) - (IF raw[f].tail THEN 1 ELSE 0))}

Init ==
  /\ rows = [s \in Sids |-> Nothing]
  /\ ~proven
  /\ request = Nothing /\ listed = {} /\ replays = {}

(* The agents do to the files whatever they like.                          *)
Agents == UNCHANGED <<rows, proven, sync>>

Start ==
  /\ request = Nothing
  /\ request' # Nothing
  /\ UNCHANGED <<raw, rows, proven, listed, replays>>

List(f) ==
  /\ request # Nothing /\ raw[f] # Nothing
  /\ listed' = listed \cup {f}
  /\ UNCHANGED <<raw, rows, proven, request, replays>>

Read(f) ==
  /\ request # Nothing /\ raw[f] # Nothing
  /\ \E r \in Replays(f) : replays' = replays \cup {r}
  /\ UNCHANGED <<raw, rows, proven, request, listed>>

(* What turns out unproven, ambiguous or changed is not published.         *)
Discard ==
  /\ request # Nothing
  /\ listed' \subseteq listed /\ replays' \subseteq replays
  /\ UNCHANGED <<raw, rows, proven, request>>

Written(s) ==
  rows'[s] # Nothing /\ [path |-> rows'[s].path, sid |-> s, msgs |-> rows'[s].msgs] \in replays

(* A session goes when its file was found to hold something else, or when  *)
(* the sync was asked to prune.                                            *)
Dropped(s) ==
  rows[s] # Nothing /\ rows'[s] = Nothing /\ (rows[s].path \in listed \/ request.prune)

Ended == request' = Nothing /\ listed' = {} /\ replays' = {}

Publish ==
  /\ request # Nothing
  /\ \A s \in Sids : rows'[s] = rows[s] \/ Written(s) \/ Dropped(s)
  /\ \A s, t \in Sids :
       /\ rows'[s] # Nothing /\ rows'[t] # Nothing
       /\ rows'[s].path = rows'[t].path
       => s = t
  /\ proven' => request.strict
  /\ Ended
  /\ UNCHANGED raw

(* A sync that fails publishes nothing, and may withdraw the proof.        *)
Abandon ==
  /\ request # Nothing
  /\ proven' => proven
  /\ Ended
  /\ UNCHANGED <<raw, rows>>

Next ==
  \/ Agents
  \/ Start
  \/ \E f \in Files : List(f) \/ Read(f)
  \/ Discard
  \/ Publish
  \/ Abandon

Spec == Init /\ [][Next]_vars

=============================================================================
