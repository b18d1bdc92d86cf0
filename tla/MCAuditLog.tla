----------------------------- MODULE MCAuditLog -----------------------------
(* Small instances of AuditLog: one process with two threads, or two         *)
(* processes with one thread each.                                           *)
EXTENDS AuditLog, TLC

CONSTANTS w1, w2, server, cli

OneProcess == [w \in {w1, w2} |-> server]
TwoProcesses == w1 :> server @@ w2 :> cli
=============================================================================
