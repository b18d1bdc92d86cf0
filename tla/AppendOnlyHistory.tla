-------------------------- MODULE AppendOnlyHistory --------------------------
(***************************************************************************)
(* What an audit trail promises, whatever files it is kept in: a history   *)
(* of records to which one record at a time is added, and in which nothing *)
(* is ever changed, moved or removed (docs/ARCHITECTURE.md, "append-only   *)
(* JSONL with SHA-256 hash chain").                                        *)
(***************************************************************************)
EXTENDS Sequences

CONSTANT Records  \* what may be recorded
VARIABLE history  \* everything recorded so far, in order

Init == history = <<>>
Record == \E r \in Records : history' = Append(history, r)
Spec == Init /\ [][Record]_history
=============================================================================
