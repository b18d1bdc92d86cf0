--------------------------- MODULE MCPolicyEngine ---------------------------
(* Small instances of PolicyEngine: two threads, rates of 0 to 2 per window. *)
EXTENDS PolicyEngine, TLC

CONSTANTS t1, t2, u1, u2

AllNames == {"gdpr-strict", "team"}
Rates == [name \in BuiltinNames |-> 2]
Team == {[Lenient(1) EXCEPT !.tags = {"cleared"}, !.maxSize = 1], Lenient(0)}
Occurs == {<<"mask", "mask:email">>}
Plain == [class |-> "internal", tags |-> {}, https |-> TRUE, size |-> 2,
          transforms |-> {"mask:email"}]
Cleared == [Plain EXCEPT !.tags = {"cleared"}, !.size = 1]
TwoContexts == {Plain, Cleared}
Alike == Permutations({t1, t2}) \cup Permutations({u1, u2})
=============================================================================
