----------------------------- MODULE MCCutover -----------------------------
(* Cutover for TLC: a v7 index that can be copied, and one with a gap in the
   sequence numbers of a session, which the migration has to refuse.       *)
EXTENDS Cutover

CONSTANTS c1, c2, r1

Row(k) == [key |-> k, canonical |-> TRUE, uuid |-> k, path |-> k, declared |-> 2]
Message(k, n) == [key |-> k, seq |-> n, role |-> "user", uuid |-> k]
Sound == [rows |-> {Row("k")}, messages |-> {Message("k", 0), Message("k", 1)},
          cache |-> {"k", "empty"}, proofs |-> 1, sound |-> TRUE, shape |-> "v7"]
Gap == [Sound EXCEPT !.messages = {Message("k", 0), Message("k", 2)}]
MCLegacy == {Sound, Gap}
=============================================================================
