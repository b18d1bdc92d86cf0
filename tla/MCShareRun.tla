----------------------------- MODULE MCShareRun -----------------------------
(* Small instances of ShareRun: two threads, two or three objects. *)
EXTENDS ShareRun, TLC

CONSTANTS r1, r2, a, b, c, p1, p2

Exact == [v \in 1 .. MaxVersion |-> v]
Coarse == [v \in 1 .. MaxVersion |-> (v + 1) \div 2]
Operator == [u \in {"alice"} |-> "operator"]
AnyRole == [alice |-> "admin", bob |-> "viewer", carol |-> "unknown"]
Threads == Permutations({r1, r2})
=============================================================================
