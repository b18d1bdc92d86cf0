----------------------------- MODULE MCRunBatch -----------------------------
(* A small instance of RunBatch: two threads, batches of two shares. *)
EXTENDS RunBatch

CONSTANTS c1, c2

SecondUnknown == {<<c1, 2>>}
=============================================================================
