------------------------------ MODULE MCSyncLock ------------------------------
(***************************************************************************)
(* Instances of SyncLock for TLC.                                          *)
(***************************************************************************)
EXTENDS SyncLock

CONSTANTS r0, r1, r2, r3, old0, old

(* Every start a writer may find: a free path, or what a power loss, an    *)
(* interrupted mkdir, a killed writer r0 or a killed old writer old0 left. *)
AnyDebris == {Absent, Malformed, Dir({}), FileOf(r0), Dir({old0})}

(* A free path, so that all debris is of the run itself.                   *)
CleanStart == {Absent}

=============================================================================
