-------------------------- MODULE MCChunkedTransfer --------------------------
(* Small instances of ChunkedTransfer: one run, or two of them. *)
EXTENDS ChunkedTransfer

CONSTANTS r1, r2, s1, s2, none

OneRun == [r \in {r1} |-> s1]
SameShare == [r \in {r1, r2} |-> s1]
TwoShares == [r \in {r1, r2} |-> IF r = r1 THEN s1 ELSE s2]
=============================================================================
