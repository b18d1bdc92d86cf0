--------------------------- MODULE MCTransferCache ---------------------------
(* A small instance of TransferCache: more keys than the cache can hold. *)
EXTENDS TransferCache, TLC

CONSTANTS t1, t2, v1, v2, none

FourKeys == {"s3", "local"} \X {"x", "y"}
ThreeKeys == FourKeys \ {<<"local", "y">>}
Alike == Permutations({t1, t2}) \cup Permutations({v1, v2})
=============================================================================
