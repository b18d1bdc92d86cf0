------------------------------ MODULE AuditLog ------------------------------
(***************************************************************************)
(* The hash-chained audit log (cdeh/core/audit.py).                        *)
(*                                                                         *)
(* One or more operating-system processes (a server, command-line calls)   *)
(* each hold an AuditLog object on the same file.  Every object keeps the  *)
(* hash of the last entry and a line count in memory; its threads append   *)
(* under one reentrant lock, and the append that reaches a limit rotates   *)
(* the file before it returns.  A file operation may raise (a full disk,   *)
(* an I/O error, a file that another process has just renamed), and append *)
(* then raises in turn; a process may also be killed between any two of    *)
(* them, or inside a write, and rebuilds its memory from the file when it  *)
(* starts.                                                                 *)
(*                                                                         *)
(* SHA-256 is abstracted to an injection: every entry gets a fresh number  *)
(* as its hash, and Genesis stands for the string "0" * 16.  The size of a *)
(* file is counted in lines written.                                       *)
(***************************************************************************)
EXTENDS Naturals, Sequences, FiniteSets

CONSTANTS
  Procs,        \* processes that open the log
  Writers,      \* threads that append
  ProcOf,       \* the process of each thread
  NoWriter,     \* owner of a free lock
  MaxLines,     \* max_lines
  MaxBytes,     \* max_bytes, in lines
  ReplayLines,  \* lines a bootstrap reads back (10 in the code)
  MaxEntries,   \* bound on the entries ever built
  MaxCrashes,   \* bound on the kills
  MaxFaults     \* bound on the file operations that raise

ASSUME ProcsAssumption == ProcOf \in [Writers -> Procs] /\ NoWriter \notin Writers
ASSUME LimitsAssumption ==
  /\ MaxLines \in Nat \ {0} /\ MaxBytes \in Nat \ {0} /\ ReplayLines \in Nat \ {0}
  /\ MaxEntries \in Nat /\ MaxCrashes \in Nat /\ MaxFaults \in Nat

VARIABLES
  log,        \* the lines of audit.log
  present,    \* does audit.log exist?
  open,       \* does its last line lack a newline?
  size,       \* st_size of audit.log
  rotated,    \* the lines of audit.log.1 (no lines when it does not exist)
  lastHash,   \* _last_hash of each process
  lineCount,  \* _line_count of each process
  lock,       \* owner of _lock in each process
  up,         \* is the process running?
  pc,         \* where each thread is inside append
  entry,      \* the entry each thread is appending
  nextHash,   \* the hash of the next entry built
  crashes,    \* kills so far
  faults,     \* file operations that raised so far
  dropped,    \* history: the lines deleted with an older audit.log.1
  tears,      \* history: the writes that left a line without its newline
  damaged,    \* history: the files whose content and the memory were parted
  returned    \* history: the hashes whose append returned to its caller

files == <<log, present, open, size, rotated, dropped, tears, damaged>>
memory == <<lastHash, lineCount>>
bounds == <<nextHash, crashes, faults>>
vars == <<files, memory, lock, up, pc, entry, bounds, returned>>

Genesis == 0
Hashes == 0 .. MaxEntries
Entries == [ok : {TRUE}, prev : Hashes, hash : Hashes]
Garbage == [ok |-> FALSE, prev |-> Genesis, hash |-> Genesis]
Lines == Entries \cup {Garbage}
NoEntry == [ok |-> TRUE, prev |-> Genesis, hash |-> Genesis]

-----------------------------------------------------------------------------
(* What verify_chain walks: every line parses and links to the one before. *)
PrevHash(file, i) == IF i = 1 THEN Genesis ELSE file[i - 1].hash
Linked(file) ==
  \A i \in 1 .. Len(file) : file[i].ok /\ file[i].prev = PrevHash(file, i)

(* verify_chain of audit.log: reading a file that is not there raises. *)
VerifyChain ==
  IF ~present THEN "raises" ELSE IF Linked(log) THEN "ok" ELSE "broken"

LastHashOf(file) == IF file = <<>> THEN Genesis ELSE file[Len(file)].hash

(* What _bootstrap recovers: the last ReplayLines lines, the ones that parse. *)
Replayed(file) == {i \in 1 .. Len(file) : i + ReplayLines > Len(file) /\ file[i].ok}
LastRead(file) == {i \in Replayed(file) : \A j \in Replayed(file) : j <= i}

BootHash(file) ==
  IF LastRead(file) = {} THEN Genesis ELSE file[CHOOSE i \in LastRead(file) : TRUE].hash
BootCount(file) == Cardinality(Replayed(file))

(* What is written runs into a last line that has no newline. *)
AddLine(line) ==
  IF open THEN [log EXCEPT ![Len(log)] = Garbage] ELSE Append(log, line)

(* A log opened with mode "w" (a defect for ImplementsHistory). *)
WriteLine_Truncates(line) ==
  log' = <<line>> /\ open' = FALSE /\ present' = TRUE /\ size' = size + 1

(* One line written at the end of the file, which mode "a" creates. *)
WriteLine(line) ==
  log' = AddLine(line) /\ open' = FALSE /\ present' = TRUE /\ size' = size + 1

(* A write that stops half way: a fragment, or all of it but the newline. *)
TearLine(line) ==
  /\ \E part \in {Garbage, line} : log' = AddLine(part)
  /\ open' = TRUE /\ present' = TRUE /\ size' = size + 1
  /\ tears' = tears + 1 /\ damaged' = damaged \cup {"log"}

(* open, write or close raises: nothing, a part of the line, or all of it is  *)
(* in the file, and the memory does not know.                                 *)
WriteFails(line) ==
  \/ present' \in {present, TRUE} /\ UNCHANGED <<log, open, size, tears, damaged>>
  \/ TearLine(line)
  \/ WriteLine(line) /\ damaged' = damaged \cup {"log"} /\ UNCHANGED tears

-----------------------------------------------------------------------------
(* A rotation entry numbered after the next one (a defect for TypeOK). *)
MarkerHash_Next(w) == nextHash

(* The hash of the rotation entry that the append of w may have to write. *)
MarkerHash(w) == entry[w].hash + 1

TypeOK ==
  /\ log \in Seq(Lines) /\ rotated \in Seq(Lines) /\ dropped \in Seq(Lines)
  /\ present \in BOOLEAN /\ open \in BOOLEAN
  /\ size \in Nat /\ crashes \in Nat /\ faults \in Nat /\ tears \in Nat
  /\ damaged \subseteq {"log", "log.1"}
  /\ lastHash \in [Procs -> Hashes] /\ lineCount \in [Procs -> Nat]
  /\ lock \in [Procs -> Writers \cup {NoWriter}] /\ up \in [Procs -> BOOLEAN]
  /\ pc \in [Writers -> {"idle", "write", "advance", "unlink", "rename",
                         "touch", "mark", "return"}]
  /\ entry \in [Writers -> Entries]
  /\ \A w \in Writers : pc[w] # "idle" => MarkerHash(w) \in Hashes
  /\ nextHash \in 1 .. MaxEntries + 1
  /\ returned \subseteq Hashes

Init ==
  /\ log = <<>> /\ rotated = <<>> /\ dropped = <<>>
  /\ present = TRUE /\ open = FALSE /\ size = 0
  /\ lastHash = [p \in Procs |-> Genesis] /\ lineCount = [p \in Procs |-> 0]
  /\ lock = [p \in Procs |-> NoWriter] /\ up = [p \in Procs |-> TRUE]
  /\ pc = [w \in Writers |-> "idle"] /\ entry = [w \in Writers |-> NoEntry]
  /\ nextHash = 1 /\ crashes = 0 /\ faults = 0 /\ returned = {}
  /\ tears = 0 /\ damaged = {}

At(w, label) == pc[w] = label
Goto(w, label) == pc' = [pc EXCEPT ![w] = label]

(* An exception leaves append, and the with-block gives the lock back. *)
Raise(w) ==
  /\ lock' = [lock EXCEPT ![ProcOf[w]] = NoWriter]
  /\ Goto(w, "idle")
  /\ UNCHANGED <<up, entry, nextHash, crashes, returned>>

Fault == faults < MaxFaults /\ faults' = faults + 1

(* An append that does not wait for the lock (a defect for ChainVerifies). *)
Build_NoLock(w) ==
  LET p == ProcOf[w] IN
  /\ At(w, "idle") /\ up[p]
  /\ nextHash < MaxEntries
  /\ lock' = [lock EXCEPT ![p] = w]
  /\ entry' = [entry EXCEPT ![w] = [ok |-> TRUE, prev |-> lastHash[p], hash |-> nextHash]]
  /\ nextHash' = nextHash + 2
  /\ Goto(w, "write")
  /\ UNCHANGED <<files, memory, up, crashes, faults, returned>>

(* append takes the lock and builds an entry on the hash it remembers.  The *)
(* hash after the entry's own is kept for the rotation entry it may need.   *)
Build(w) ==
  LET p == ProcOf[w] IN
  /\ At(w, "idle") /\ up[p] /\ lock[p] = NoWriter
  /\ nextHash < MaxEntries
  /\ lock' = [lock EXCEPT ![p] = w]
  /\ entry' = [entry EXCEPT ![w] = [ok |-> TRUE, prev |-> lastHash[p], hash |-> nextHash]]
  /\ nextHash' = nextHash + 2
  /\ Goto(w, "write")
  /\ UNCHANGED <<files, memory, up, crashes, faults, returned>>

(* The entry of the rotation opens the new file. *)
Marker(w) == [ok |-> TRUE, prev |-> Genesis, hash |-> MarkerHash(w)]

(* The line that a thread is about to write. *)
Pending(w) == IF At(w, "mark") THEN Marker(w) ELSE entry[w]

Write(w) ==
  /\ At(w, "write")
  /\ WriteLine(entry[w])
  /\ Goto(w, "advance")
  /\ UNCHANGED <<rotated, dropped, tears, damaged, memory, lock, up, entry, bounds, returned>>

WriteRaises(w) ==
  /\ At(w, "write") \/ At(w, "mark")
  /\ WriteFails(Pending(w))
  /\ Fault /\ Raise(w)
  /\ UNCHANGED <<rotated, dropped, memory>>

(* A rotation by line count only (a defect for SizeIsBounded). *)
RotationDue_LinesOnly(count) == count >= MaxLines

(* The test of _maybe_rotate, which stats the file only below max_lines. *)
RotationDue(count) == count >= MaxLines \/ size >= MaxBytes

(* append moves the head of the chain, *)
MoveHead(p, hash) ==
  /\ lastHash' = [lastHash EXCEPT ![p] = hash]
  /\ lineCount' = [lineCount EXCEPT ![p] = @ + 1]

(* ... then _maybe_rotate decides. *)
Advance(w) ==
  LET p == ProcOf[w] IN
  /\ At(w, "advance")
  /\ lineCount[p] + 1 >= MaxLines \/ present
  /\ MoveHead(p, entry[w].hash)
  /\ Goto(w, IF RotationDue(lineCount[p] + 1) THEN "unlink" ELSE "return")
  /\ UNCHANGED <<files, lock, up, entry, bounds, returned>>

(* Another process has just renamed the file, or stat fails. *)
StatRaises(w) ==
  LET p == ProcOf[w] IN
  /\ At(w, "advance")
  /\ lineCount[p] + 1 < MaxLines
  /\ \/ ~present /\ UNCHANGED faults
     \/ Fault
  /\ MoveHead(p, entry[w].hash)
  /\ Raise(w)
  /\ UNCHANGED files

Unlink(w) ==
  /\ At(w, "unlink")
  /\ dropped' = dropped \o rotated
  /\ rotated' = <<>> /\ damaged' = damaged \ {"log.1"}
  /\ Goto(w, "rename")
  /\ UNCHANGED <<log, present, open, size, tears, memory, lock, up, entry, bounds, returned>>

(* audit.log is gone, and what was wrong with it is wrong with audit.log.1. *)
LogMoved ==
  /\ log' = <<>> /\ present' = FALSE /\ open' = FALSE /\ size' = 0
  /\ damaged' = IF "log" \in damaged THEN {"log.1"} ELSE {}

(* A rotation that renames before it unlinks (a defect for LossIsBounded). *)
Rename_ThenUnlink(w) ==
  /\ At(w, "rename") /\ present
  /\ rotated' = <<>>
  /\ LogMoved
  /\ Goto(w, "touch")
  /\ UNCHANGED <<dropped, tears, memory, lock, up, entry, bounds, returned>>

Rename(w) ==
  /\ At(w, "rename") /\ present
  /\ dropped' = dropped \o rotated
  /\ rotated' = log
  /\ LogMoved
  /\ Goto(w, "touch")
  /\ UNCHANGED <<tears, memory, lock, up, entry, bounds, returned>>

(* An exception that leaves the lock taken (a defect for LockIsReleased). *)
RenameRaises_KeepsLock(w) ==
  /\ At(w, "rename") /\ ~present
  /\ Goto(w, "idle")
  /\ UNCHANGED <<files, memory, lock, up, entry, bounds, returned>>

(* Another process has just renamed the file: append raises, with the older  *)
(* generation deleted and nothing put in its place.                          *)
RenameRaises(w) ==
  /\ At(w, "rename") /\ ~present
  /\ Raise(w)
  /\ UNCHANGED <<files, memory, faults>>

(* unlink, rename or touch fails.  A touch that does leaves no file, and in   *)
(* memory the head of the old one, on which the next file will be built.      *)
RotationRaises(w) ==
  /\ At(w, "unlink") \/ At(w, "rename") \/ At(w, "touch")
  /\ damaged' = IF At(w, "touch") THEN damaged \cup {"log"} ELSE damaged
  /\ Fault /\ Raise(w)
  /\ UNCHANGED <<log, present, open, size, rotated, dropped, tears, memory>>

(* A rotation that keeps the head of the old chain (a defect for ChainInv). *)
Touch_KeepsHead(w) ==
  LET p == ProcOf[w] IN
  /\ At(w, "touch")
  /\ present' = TRUE
  /\ lineCount' = [lineCount EXCEPT ![p] = 0]
  /\ Goto(w, "mark")
  /\ UNCHANGED <<log, open, size, rotated, dropped, tears, damaged, lastHash, lock, up,
                 entry, bounds, returned>>

Touch(w) ==
  LET p == ProcOf[w] IN
  /\ At(w, "touch")
  /\ present' = TRUE
  /\ lineCount' = [lineCount EXCEPT ![p] = 0]
  /\ lastHash' = [lastHash EXCEPT ![p] = Genesis]
  /\ Goto(w, "mark")
  /\ UNCHANGED <<log, open, size, rotated, dropped, tears, damaged, lock, up, entry, bounds,
                 returned>>

(* The audit.rotate entry; memory is private, so it may move in the same step. *)
Mark(w) ==
  LET p == ProcOf[w] IN
  /\ At(w, "mark")
  /\ WriteLine(Marker(w))
  /\ lastHash' = [lastHash EXCEPT ![p] = MarkerHash(w)]
  /\ lineCount' = [lineCount EXCEPT ![p] = 1]
  /\ Goto(w, "return")
  /\ UNCHANGED <<rotated, dropped, tears, damaged, lock, up, entry, bounds, returned>>

Return(w) ==
  LET p == ProcOf[w] IN
  /\ At(w, "return")
  /\ lock' = [lock EXCEPT ![p] = NoWriter]
  /\ returned' = returned \cup {entry[w].hash}
  /\ Goto(w, "idle")
  /\ UNCHANGED <<files, memory, up, entry, bounds>>

-----------------------------------------------------------------------------
(* A kill takes the memory, the lock and the calls in progress. *)
Kill(p) ==
  /\ up[p] /\ crashes < MaxCrashes
  /\ up' = [up EXCEPT ![p] = FALSE]
  /\ lock' = [lock EXCEPT ![p] = NoWriter]
  /\ pc' = [w \in Writers |-> IF ProcOf[w] = p THEN "idle" ELSE pc[w]]
  /\ crashes' = crashes + 1
  /\ UNCHANGED <<memory, entry, nextHash, faults, returned>>

Crash(p) == Kill(p) /\ UNCHANGED files

(* Killed inside f.write, of an entry or of the entry of a rotation. *)
CrashMidWrite(w) ==
  /\ At(w, "write") \/ At(w, "mark")
  /\ TearLine(Pending(w))
  /\ Kill(ProcOf[w])
  /\ UNCHANGED <<rotated, dropped>>

(* _bootstrap *)
Restart(p) ==
  /\ ~up[p]
  /\ up' = [up EXCEPT ![p] = TRUE]
  /\ present' = TRUE
  /\ lastHash' = [lastHash EXCEPT ![p] = BootHash(log)]
  /\ lineCount' = [lineCount EXCEPT ![p] = BootCount(log)]
  /\ UNCHANGED <<log, open, size, rotated, dropped, tears, damaged, lock, pc, entry, bounds,
                 returned>>

(* Nobody has anything left to append: the bound on entries is used up. *)
Quiescent ==
  /\ nextHash >= MaxEntries
  /\ \A w \in Writers : At(w, "idle")
  /\ \A p \in Procs : up[p]
  /\ UNCHANGED vars

Rotate(w) == Unlink(w) \/ Rename(w) \/ Touch(w) \/ Mark(w)
Fail(w) == WriteRaises(w) \/ StatRaises(w) \/ RenameRaises(w) \/ RotationRaises(w)
Serve(w) == Write(w) \/ Advance(w) \/ Rotate(w) \/ Return(w) \/ Fail(w)

Next ==
  \/ \E w \in Writers : Build(w) \/ Serve(w) \/ CrashMidWrite(w)
  \/ \E p \in Procs : Crash(p) \/ Restart(p)
  \/ Quiescent

Spec == Init /\ [][Next]_vars

(* A running thread goes on inside append; nobody is obliged to call it, and *)
(* nothing restarts a dead process.                                          *)
FairSpec == Spec /\ \A w \in Writers : WF_vars(Serve(w))

-----------------------------------------------------------------------------
(* `cdeh audit verify` takes no lock.  In one process it says ok of every    *)
(* file in which no write was torn, no write raised with its line already    *)
(* there, and which no failing touch left to be created: no interleaving of  *)
(* the threads, no rotation, no other error and no kill breaks a chain, and  *)
(* a rotation ends the damage of the file before it.  It finds audit.log     *)
(* missing, and raises, only while a thread is between the rename and the    *)
(* touch, or when the process has died there.                                *)
Rotating == (\E w \in Writers : At(w, "touch")) \/ \A p \in Procs : ~up[p]
ChainVerifies ==
  /\ "log" \notin damaged => VerifyChain = "ok" \/ (VerifyChain = "raises" /\ Rotating)
  /\ "log.1" \notin damaged => Linked(rotated)

(* Why it does.  A thread inside append owns the lock of a running process;  *)
(* the hash in memory is the last one in an undamaged file, except after a   *)
(* write (the entry's own hash is) and after a rename (the file is empty);   *)
(* and what is written next is built on it.                                  *)
OwnerDiscipline ==
  \A w \in Writers : pc[w] # "idle" => lock[ProcOf[w]] = w /\ up[ProcOf[w]]

FileIsThere == present \/ "log" \in damaged \/ Rotating

OwnerAt(p, label) == lock[p] \in Writers /\ pc[lock[p]] = label
HeadIsRemembered ==
  "log" \notin damaged => \A p \in Procs : up[p] =>
    IF OwnerAt(p, "advance") THEN LastHashOf(log) = entry[lock[p]].hash
    ELSE IF OwnerAt(p, "touch") THEN log = <<>>
    ELSE LastHashOf(log) = lastHash[p]

BuiltOnHead ==
  \A w \in Writers : /\ At(w, "write") => entry[w].prev = lastHash[ProcOf[w]]
                     /\ At(w, "mark") => lastHash[ProcOf[w]] = Genesis

ChainInv ==
  /\ "log" \notin damaged => Linked(log) /\ ~open
  /\ "log.1" \notin damaged => Linked(rotated)
  /\ FileIsThere /\ OwnerDiscipline /\ HeadIsRemembered /\ BuiltOnHead

Readable(h) ==
  \E file \in {log, rotated, dropped} :
    \E i \in 1 .. Len(file) : file[i].ok /\ file[i].hash = h

(* An entry whose append returned can be read back, from audit.log, from     *)
(* audit.log.1 or from a file that a later rotation deleted, but for one     *)
(* entry for each torn line, the one that another append writes behind it:   *)
(* nothing else that rotates, raises, is killed or restarts loses any.       *)
LossIsBounded == Cardinality({h \in returned : ~Readable(h)}) <= tears

(* A restart forgets how many lines the file holds, but the size still       *)
(* triggers the rotation: the file of one process grows over its limit by no *)
(* more than a line for each kill and each operation that raised.            *)
SizeIsBounded == size <= MaxBytes + crashes + faults

(* Whatever an append meets, in its write or in any step of a rotation that  *)
(* another process interferes with, it gives the lock of its process back.   *)
LockIsReleased == \A p \in Procs : lock[p] # NoWriter ~> lock[p] = NoWriter

(* The promise "append-only": what has been terminated by a newline is never *)
(* changed, moved or removed, and grows by one line at a time.               *)
Terminated == IF open THEN SubSeq(log, 1, Len(log) - 1) ELSE log
History == INSTANCE AppendOnlyHistory
  WITH history <- dropped \o rotated \o Terminated, Records <- Lines
ImplementsHistory == History!Spec
=============================================================================
