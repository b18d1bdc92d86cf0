------------------------------ MODULE MCStores ------------------------------
(* A small instance of Stores: three threads, two keys; the SQLite store is  *)
(* used by two processes, one of them with two threads.                      *)
EXTENDS Stores

CONSTANTS t1, t2, t3, server, cli, k1, k2

AllKinds == {"catalog", "users", "adapters", "checkpoint", "sqlite"}
TwoProcesses == [t \in {t1, t2, t3} |-> IF t = t3 THEN cli ELSE server]
=============================================================================
