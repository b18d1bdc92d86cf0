------------------------------- MODULE Stores -------------------------------
(***************************************************************************)
(* The stores that C-DEH keeps on disk, one of them at a time:             *)
(*   catalog     DataCatalog, catalog.json       (cdeh/core/catalog.py)    *)
(*   users       RBAC, users.json                (cdeh/core/auth.py)       *)
(*   adapters    CDEHClient, adapters.json       (cdeh/core/gateway.py)    *)
(*   checkpoint  FileCheckpointStore             (cdeh/core/checkpoint.py) *)
(*   sqlite      SQLiteCheckpointStore           (cdeh/core/checkpoint.py) *)
(*                                                                         *)
(* A JSON store is one object of one process: an operation takes its lock, *)
(* changes a dictionary, writes the whole of it to a `.tmp` file and       *)
(* renames this file.  The first three keep the dictionary in memory and   *)
(* read the file when they start, the checkpoint reads it every time.  The *)
(* adapters have no lock of their own; the one of the HTTP server is what  *)
(* serialises their changes.  The SQLite store has no lock either: threads *)
(* share the connection of their process, and so its transaction.  A       *)
(* statement or a commit that raises may roll this transaction back, and   *)
(* with it what the other threads have done in it.                         *)
(*                                                                         *)
(* The value of a key is the number of the operation that set it last, and *)
(* whether it is there.                                                    *)
(***************************************************************************)
EXTENDS Naturals

CONSTANTS
  Kinds,       \* the stores considered
  Procs,       \* processes; a JSON store is used by Home only
  Home,
  Threads,     \* threads that call operations
  ProcOf,      \* process of each thread (for the SQLite store)
  NoThread,    \* owner of a free lock
  NoProc,      \* owner of no transaction
  Keys,        \* names, or chunk numbers
  MaxOps,      \* bound on the operations
  MaxFaults,   \* bound on the saves, statements and commits that fail
  MaxCrashes   \* bound on the kills

ASSUME StoreAssumption ==
  /\ Kinds \subseteq {"catalog", "users", "adapters", "checkpoint", "sqlite"}
  /\ Home \in Procs /\ ProcOf \in [Threads -> Procs]
  /\ NoThread \notin Threads /\ NoProc \notin Procs
  /\ {MaxOps, MaxFaults, MaxCrashes} \subseteq Nat

VARIABLES
  kind,     \* which store this is
  mem,      \* dictionary of each process, or what its transaction sees
  disk,     \* the file: its dictionary, and can it be parsed?
  tmp,      \* the `.tmp` file
  lock,     \* owner of the lock
  writer,   \* process with an open transaction
  up,       \* is the process running?
  pc,       \* where each thread is in its operation
  op,       \* its operation
  draft,    \* dictionary it is saving
  unsaved,  \* has the last save failed?
  acked,    \* history: operations on each key that returned to their callers
  undone,   \* history: those that a failure of another thread rolled back
  ops, faults, crashes

file == <<disk, tmp>>
bounds == <<ops, faults, crashes>>
vars == <<kind, mem, file, lock, writer, up, pc, op, draft, unsaved, acked, undone, bounds>>

Values == [n : 0 .. MaxOps, live : BOOLEAN]
Dicts == [Keys -> Values]
Empty == [k \in Keys |-> [n |-> 0, live |-> FALSE]]
Files == [whole : BOOLEAN, data : Dicts]
Ops == [name : {"set", "update", "delete"}, key : Keys, n : 1 .. MaxOps]
NoOp == [name |-> "none"]
NoTmp == [whole |-> FALSE, data |-> Empty]

InMemory == kind \in {"catalog", "users", "adapters"}
Owner(t) == IF kind = "sqlite" THEN ProcOf[t] ELSE Home
At(t, label) == pc[t] = label
Goto(t, label) == pc' = [pc EXCEPT ![t] = label]

TypeOK ==
  /\ kind \in Kinds
  /\ mem \in [Procs -> Dicts] /\ disk \in Files /\ tmp \in Files
  /\ lock \in Threads \cup {NoThread} /\ writer \in Procs \cup {NoProc}
  /\ up \in [Procs -> BOOLEAN]
  /\ pc \in [Threads -> {"idle", "write", "fill", "replace", "again", "half", "commit", "return"}]
  /\ op \in [Threads -> Ops \cup {NoOp}] /\ draft \in [Threads -> Dicts] /\ unsaved \in BOOLEAN
  /\ acked \in [Keys -> SUBSET (0 .. MaxOps)] /\ undone \subseteq 0 .. MaxOps
  /\ ops \in 0 .. MaxOps /\ faults \in 0 .. MaxFaults /\ crashes \in 0 .. MaxCrashes
  /\ \A t \in Threads : pc[t] \in {"write", "fill", "replace", "return"} => lock = t

Init ==
  /\ kind \in Kinds
  /\ mem = [p \in Procs |-> Empty]
  /\ disk = [whole |-> TRUE, data |-> Empty] /\ tmp = NoTmp
  /\ lock = NoThread /\ writer = NoProc /\ up = [p \in Procs |-> TRUE]
  /\ pc = [t \in Threads |-> "idle"] /\ draft = [t \in Threads |-> Empty]
  /\ op = [t \in Threads |-> NoOp]
  /\ unsaved = FALSE /\ acked = [k \in Keys |-> {}] /\ undone = {}
  /\ ops = 0 /\ faults = 0 /\ crashes = 0

-----------------------------------------------------------------------------
(* The operations of each store: "set" is register, add_user,               *)
(* register_adapter, put_part and mark_completed; "update" changes what is   *)
(* there: mark_synced, add_to_group, set_department; "delete" is delete,     *)
(* remove_adapter and reset.                                                 *)
CatalogOps == {"set", "update", "delete"}
UserOps == {"set", "update"}
AdapterOps == {"set", "delete"}
CheckpointOps == {"set"}
SqliteOps == {"set", "delete"}

Names ==
  CASE kind = "catalog" -> CatalogOps
    [] kind = "users" -> UserOps
    [] kind = "adapters" -> AdapterOps
    [] kind = "checkpoint" -> CheckpointOps
    [] kind = "sqlite" -> SqliteOps

(* A reset of a checkpoint drops all of its parts. *)
Touched(o) == IF o.name = "delete" /\ ~InMemory THEN Keys ELSE {o.key}
Applies(dict, o) == o.name = "set" \/ dict[o.key].live
Changed(dict, o) ==
  [k \in Keys |-> IF k \in Touched(o) THEN [n |-> o.n, live |-> o.name # "delete"] ELSE dict[k]]

NewOp(t, name, k) ==
  /\ up[Owner(t)] /\ name \in Names
  /\ ops < MaxOps /\ ops' = ops + 1
  /\ op' = [op EXCEPT ![t] = [name |-> name, key |-> k, n |-> ops + 1]]

(* The end of an operation, with or without success. *)
Leave(t) ==
  /\ Goto(t, "idle")
  /\ op' = [op EXCEPT ![t] = NoOp] /\ draft' = [draft EXCEPT ![t] = Empty]
Ack(o) == acked' = [k \in Keys |-> IF k \in Touched(o) THEN acked[k] \cup {o.n} ELSE acked[k]]

(* An operation that does not wait for the lock (a defect for DiskNeverGoesBack). *)
Free_Always == TRUE

Free == lock = NoThread

(* A change that is not saved (a defect for MemoryIsSaved). *)
AfterChange_Unsaved(o) == IF o.name = "update" THEN "return" ELSE "write"

(* Every change of the dictionary is followed by a save. *)
AfterChange(o) == "write"

(* The head of an operation on a JSON store: lock, look, change.  An update  *)
(* or a delete of what is not there ends at once.                            *)
Begin(t, name, k) ==
  LET base == IF InMemory THEN mem[Home] ELSE disk.data
      o == op'[t] IN
  /\ kind # "sqlite" /\ At(t, "idle") /\ Free
  /\ NewOp(t, name, k) /\ Applies(base, o)
  /\ lock' = t
  /\ draft' = [draft EXCEPT ![t] = Changed(base, o)]
  /\ mem' = IF InMemory THEN [mem EXCEPT ![Home] = Changed(base, o)] ELSE mem
  /\ Goto(t, AfterChange(o))
  /\ UNCHANGED <<kind, file, writer, up, unsaved, acked, undone, faults, crashes>>

(* A save that writes to the file itself (a defect for DiskIsReadable). *)
OpenTmp_InPlace == disk' = [disk EXCEPT !.whole = FALSE] /\ UNCHANGED tmp

OpenTmp == tmp' = [tmp EXCEPT !.whole = FALSE] /\ UNCHANGED disk

(* _save, _save_adapters, _write: fill the temporary file, then rename it. *)
Write(t) ==
  /\ At(t, "write")
  /\ OpenTmp
  /\ Goto(t, "fill")
  /\ UNCHANGED <<kind, mem, lock, writer, up, op, draft, unsaved, acked, undone, bounds>>

Fill(t) ==
  /\ At(t, "fill")
  /\ tmp' = [whole |-> TRUE, data |-> draft[t]]
  /\ Goto(t, "replace")
  /\ UNCHANGED <<kind, mem, disk, lock, writer, up, op, draft, unsaved, acked, undone, bounds>>

Replace(t) ==
  /\ At(t, "replace")
  /\ disk' = tmp /\ tmp' = NoTmp /\ unsaved' = FALSE
  /\ Goto(t, "return")
  /\ UNCHANGED <<kind, mem, lock, writer, up, op, draft, acked, undone, bounds>>

(* An exception that leaves the lock taken (a defect for LockIsReleased). *)
SaveFails_KeepsLock(t) ==
  /\ pc[t] \in {"write", "fill", "replace"}
  /\ faults < MaxFaults /\ faults' = faults + 1
  /\ unsaved' = TRUE
  /\ Leave(t)
  /\ UNCHANGED <<kind, mem, file, lock, writer, up, acked, undone, ops, crashes>>

(* OSError in one of the three: the caller sees it, the memory stays changed. *)
SaveFails(t) ==
  /\ pc[t] \in {"write", "fill", "replace"}
  /\ faults < MaxFaults /\ faults' = faults + 1
  /\ unsaved' = TRUE /\ lock' = NoThread
  /\ Leave(t)
  /\ UNCHANGED <<kind, mem, file, writer, up, acked, undone, ops, crashes>>

Return(t) ==
  /\ At(t, "return")
  /\ lock' = NoThread
  /\ Ack(op[t]) /\ Leave(t)
  /\ UNCHANGED <<kind, mem, file, writer, up, unsaved, undone, bounds>>

(* reset of one path: unlink without the lock.  The engine never calls it;  *)
(* its callers are assumed to do so while no transfer is under way.         *)
Reset ==
  /\ kind = "checkpoint" /\ up[Home] /\ ops < MaxOps /\ ops' = ops + 1
  /\ \A t \in Threads : At(t, "idle")
  /\ disk' = [disk EXCEPT !.data = [k \in Keys |-> [n |-> ops + 1, live |-> FALSE]]]
  /\ acked' = [k \in Keys |-> acked[k] \cup {ops + 1}]
  /\ UNCHANGED <<kind, mem, tmp, lock, writer, up, pc, op, draft, unsaved, undone, faults, crashes>>

-----------------------------------------------------------------------------
(* SQLite: the first statement opens the transaction of the connection,     *)
(* unless another process has one; a commit ends it, whoever opened it.     *)
View(p) == IF writer = p THEN mem[p] ELSE disk.data

(* The first of the two statements of mark_completed or reset; what these   *)
(* change is put in the second one.                                         *)
FirstStatement(t) ==
  LET p == ProcOf[t] IN
  /\ kind = "sqlite" /\ At(t, "idle") /\ up[p] /\ writer \in {NoProc, p}
  /\ ops < MaxOps
  /\ mem' = [mem EXCEPT ![p] = View(p)] /\ writer' = p
  /\ Goto(t, "again")
  /\ UNCHANGED <<kind, file, lock, up, op, draft, unsaved, acked, undone, bounds>>

Statement(t, name, k) ==
  LET p == ProcOf[t] IN
  /\ kind = "sqlite" /\ pc[t] \in {"idle", "again"} /\ writer \in {NoProc, p}
  /\ NewOp(t, name, k)
  /\ mem' = [mem EXCEPT ![p] = Changed(View(p), op'[t])] /\ writer' = p
  /\ Goto(t, "commit")
  /\ UNCHANGED <<kind, file, lock, up, draft, unsaved, acked, undone, faults, crashes>>

(* The second statement alone, the first having been rolled back: it may     *)
(* find no row to update, and leaves the parts to a reset.                    *)
SecondStatement(t, name, k) ==
  LET p == ProcOf[t] IN
  /\ At(t, "half") /\ writer \in {NoProc, p}
  /\ NewOp(t, name, k)
  /\ \E result \in {View(p), Changed(View(p), op'[t])} : mem' = [mem EXCEPT ![p] = result]
  /\ writer' = p /\ undone' = undone \cup {ops + 1}
  /\ Goto(t, "commit")
  /\ UNCHANGED <<kind, file, lock, up, draft, unsaved, acked, faults, crashes>>

(* An operation that does not commit (a defect for AckedAreOnDisk). *)
Commit_Nothing(t) ==
  /\ At(t, "commit")
  /\ Ack(op[t]) /\ Leave(t)
  /\ UNCHANGED <<kind, mem, file, lock, writer, up, unsaved, undone, bounds>>

Commit(t) ==
  LET p == ProcOf[t] IN
  /\ At(t, "commit")
  /\ IF writer = p
     THEN /\ disk' = [disk EXCEPT !.data = mem[p]] /\ writer' = NoProc
          /\ mem' = [mem EXCEPT ![p] = Empty]
     ELSE UNCHANGED <<disk, writer, mem>>
  /\ Ack(op[t]) /\ Leave(t)
  /\ UNCHANGED <<kind, tmp, lock, up, unsaved, undone, bounds>>

(* The threads that share the connection of t, and what an exception of t    *)
(* that rolls the transaction back makes of their operations: they go on.     *)
(* (A first statement that has been committed counts as rolled back too.)     *)
Others(t) == {u \in Threads \ {t} : ProcOf[u] = ProcOf[t]}
Uncommitted(u) == At(u, "commit") /\ \E k \in Touched(op[u]) : disk.data[k].n < op[u].n

RollBack(t) ==
  LET p == ProcOf[t] IN
  /\ writer = p /\ writer' = NoProc /\ mem' = [mem EXCEPT ![p] = Empty]
  /\ undone' = undone \cup {op[u].n : u \in {v \in Others(t) : Uncommitted(v)}}
  /\ pc' = [u \in Threads |-> IF u = t THEN "idle"
                               ELSE IF u \in Others(t) /\ At(u, "again") THEN "half" ELSE pc[u]]

(* What the thread has done so far stays in a transaction that nobody may     *)
(* commit before the next operation of the process.                           *)
LeaveOpen(t) == Goto(t, "idle") /\ UNCHANGED <<writer, mem, undone>>

SqlError(t) ==
  /\ faults < MaxFaults /\ faults' = faults + 1
  /\ RollBack(t) \/ LeaveOpen(t)
  /\ op' = [op EXCEPT ![t] = NoOp]
  /\ UNCHANGED <<kind, file, lock, up, draft, unsaved, acked, ops, crashes>>

(* OperationalError of a statement: the database is locked for too long, the *)
(* disk is full, a read or a write fails.                                    *)
StatementFails(t) ==
  /\ kind = "sqlite" /\ pc[t] \in {"idle", "again", "half"} /\ up[ProcOf[t]]
  /\ ops < MaxOps
  /\ SqlError(t)

(* OperationalError of a commit, which has something to do. *)
CommitFails(t) ==
  /\ At(t, "commit") /\ writer = ProcOf[t]
  /\ SqlError(t)

-----------------------------------------------------------------------------
(* A kill takes the memory, the lock and the transaction of the process. *)
Kill(p) ==
  /\ up[p] /\ crashes < MaxCrashes /\ crashes' = crashes + 1
  /\ p = Home \/ kind = "sqlite"
  /\ up' = [up EXCEPT ![p] = FALSE]
  /\ pc' = [t \in Threads |-> IF Owner(t) = p THEN "idle" ELSE pc[t]]
  /\ op' = [t \in Threads |-> IF Owner(t) = p THEN NoOp ELSE op[t]]
  /\ draft' = [t \in Threads |-> IF Owner(t) = p THEN Empty ELSE draft[t]]
  /\ mem' = [mem EXCEPT ![p] = Empty]
  /\ lock' = NoThread
  /\ writer' = IF writer = p THEN NoProc ELSE writer
  /\ UNCHANGED <<kind, file, unsaved, acked, undone, ops, faults>>

(* _load, _load_adapters: a file that does not parse is an empty store. *)
Loaded == IF InMemory /\ disk.whole THEN disk.data ELSE Empty

Restart(p) ==
  /\ ~up[p]
  /\ up' = [up EXCEPT ![p] = TRUE]
  /\ mem' = [mem EXCEPT ![p] = Loaded]
  /\ unsaved' = FALSE
  /\ UNCHANGED <<kind, file, lock, writer, pc, op, draft, acked, undone, bounds>>

Quiescent ==
  /\ ops = MaxOps /\ \A t \in Threads : pc[t] \in {"idle", "again", "half"}
  /\ UNCHANGED vars

Proceed(t) ==
  Write(t) \/ Fill(t) \/ Replace(t) \/ Return(t) \/ Commit(t)

Next ==
  \/ \E t \in Threads :
       \/ Proceed(t) \/ SaveFails(t) \/ FirstStatement(t)
       \/ StatementFails(t) \/ CommitFails(t)
       \/ \E name \in {"set", "update", "delete"}, k \in Keys :
            Begin(t, name, k) \/ Statement(t, name, k) \/ SecondStatement(t, name, k)
  \/ Reset
  \/ \E p \in Procs : Kill(p) \/ Restart(p)
  \/ Quiescent

Spec == Init /\ [][Next]_vars

(* A thread that is inside an operation goes on. *)
FairSpec == Spec /\ \A t \in Threads : WF_vars(Proceed(t))

-----------------------------------------------------------------------------
(* No kill leaves a file that does not parse, which a restart would take for *)
(* an empty store ("atomic JSON persistence", catalog.py).                   *)
DiskIsReadable == disk.whole

(* What an operation did is on disk when it returns, and survives a kill: of *)
(* the SQLite store too, where another thread may have committed it.  The    *)
(* one exception of the code is there as well: an error of one thread that   *)
(* rolls back what another has not committed yet, whose commit then returns  *)
(* without complaint; no operation but these is lost.                        *)
AckedAreOnDisk == \A k \in Keys : \A n \in acked[k] : disk.data[k].n >= n \/ n \in undone

(* No update is lost: a later save never brings an older value back.         *)
DiskNeverGoesBack == [][\A k \in Keys : disk'.data[k].n >= disk.data[k].n]_vars

(* What a process answers from its memory is what it would read after a      *)
(* restart, unless its last save failed (or its caller is changing an asset  *)
(* it will register, which is outside of this module).                        *)
MemoryIsSaved == InMemory /\ up[Home] /\ Free /\ ~unsaved => mem[Home] = disk.data

(* The lock is given back, whatever fails.                                   *)
LockIsReleased == lock # NoThread ~> lock = NoThread
=============================================================================
