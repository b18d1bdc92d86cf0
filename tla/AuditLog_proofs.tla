--------------------------- MODULE AuditLog_proofs ---------------------------
(***************************************************************************)
(* Theorems about AuditLog: its types, the append-only history and what a  *)
(* torn line costs, for any number of processes; the integrity of the      *)
(* chain and the size of the file, for one process, under any number of    *)
(* threads, appends, rotations, failing operations, kills and restarts.    *)
(***************************************************************************)
EXTENDS AuditLog, SequenceTheorems, FiniteSetTheorems, TLAPS

-----------------------------------------------------------------------------
(* The hashes and lines that the model starts from are hashes and lines. *)
LEMMA LineTypes ==
  /\ Genesis \in Hashes
  /\ Garbage \in Lines
  /\ Entries \subseteq Lines
  /\ \A line \in Lines : line.hash \in Hashes
<1>1. Genesis \in Hashes
  BY LimitsAssumption DEF Hashes, Genesis
<1>2. \A line \in Entries : line.hash \in Hashes
  BY DEF Entries
<1>3. Garbage.hash \in Hashes
  BY <1>1 DEF Garbage
<1> QED BY <1>1, <1>2, <1>3 DEF Lines

(* What a bootstrap recovers has the type of a chain head and a line count. *)
LEMMA BootTypes ==
  ASSUME NEW file \in Seq(Lines)
  PROVE  BootHash(file) \in Hashes /\ BootCount(file) \in Nat
<1>1. BootHash(file) \in Hashes
  <2>1. CASE LastRead(file) = {}
    BY <2>1, LineTypes DEF BootHash
  <2>2. CASE LastRead(file) # {}
    <3>1. \A i \in LastRead(file) : file[i] \in Lines
      BY ElementOfSeq DEF LastRead, Replayed
    <3> QED BY <2>2, <3>1, LineTypes DEF BootHash
  <2> QED BY <2>1, <2>2
<1>2. BootCount(file) \in Nat
  <2>1. IsFiniteSet(1 .. Len(file))
    BY FS_Interval, LenProperties
  <2>2. IsFiniteSet(Replayed(file))
    BY <2>1, FS_Subset DEF Replayed
  <2> QED BY <2>2, FS_CardinalityType DEF BootCount
<1> QED BY <1>1, <1>2

(* When every line parses, the head a bootstrap recovers is the last hash. *)
LEMMA BootFindsHead ==
  ASSUME NEW file \in Seq(Lines), \A i \in 1 .. Len(file) : file[i].ok
  PROVE  BootHash(file) = LastHashOf(file)
<1>0. Len(file) \in Nat
  BY LenProperties
<1>1. CASE file = <<>>
  <2>1. LastRead(file) = {}
    BY <1>1 DEF LastRead, Replayed
  <2> QED BY <1>1, <2>1 DEF BootHash, LastHashOf
<1>2. CASE file # <<>>
  <2>1. Len(file) \in 1 .. Len(file)
    BY <1>0, <1>2, EmptySeq
  <2>2. Len(file) \in Replayed(file)
    BY <1>0, <2>1, LimitsAssumption DEF Replayed
  <2>3. LastRead(file) = {Len(file)}
    BY <1>0, <2>2 DEF LastRead, Replayed
  <2> QED BY <1>2, <2>3 DEF BootHash, LastHashOf
<1> QED BY <1>1, <1>2

-----------------------------------------------------------------------------
(* Neither way of writing a line leaves the sequences of lines. *)
LEMMA AppendLine ==
  ASSUME NEW file \in Seq(Lines), NEW line \in Lines
  PROVE  /\ Append(file, line) \in Seq(Lines)
         /\ [file EXCEPT ![Len(file)] = Garbage] \in Seq(Lines)
<1>1. CASE file = <<>>
  <2>1. [file EXCEPT ![Len(file)] = Garbage] = file
    BY <1>1
  <2> QED BY <2>1, AppendProperties
<1>2. CASE file # <<>>
  <2>1. Len(file) \in 1 .. Len(file)
    BY <1>2, EmptySeq, LenProperties
  <2> QED BY <2>1, AppendProperties, ExceptSeq, LineTypes
<1> QED BY <1>1, <1>2

LEMMA AddLineType ==
  ASSUME log \in Seq(Lines), NEW line \in Lines
  PROVE  AddLine(line) \in Seq(Lines)
<1>1. CASE open
  BY <1>1, AppendLine DEF AddLine
<1>2. CASE ~open
  BY <1>2, AppendLine DEF AddLine
<1> QED BY <1>1, <1>2

(* The variables of audit.log that a write changes. *)
FileTypes ==
  /\ log \in Seq(Lines) /\ present \in BOOLEAN /\ open \in BOOLEAN
  /\ size \in Nat /\ tears \in Nat /\ damaged \subseteq {"log", "log.1"}

(* A write keeps their types, whether it succeeds, fails or is torn. *)
LEMMA WriteTypes ==
  ASSUME TypeOK, NEW line \in Lines,
         \/ WriteLine(line) /\ UNCHANGED <<tears, damaged>>
         \/ TearLine(line)
         \/ WriteFails(line)
  PROVE  FileTypes'
<1>0. /\ log \in Seq(Lines) /\ present \in BOOLEAN /\ open \in BOOLEAN
      /\ size \in Nat /\ tears \in Nat /\ damaged \subseteq {"log", "log.1"}
  BY DEF TypeOK
<1>1. CASE WriteLine(line) /\ tears' = tears /\ damaged' \in {damaged, damaged \cup {"log"}}
  <2>1. log' \in Seq(Lines)
    BY <1>0, <1>1, AddLineType DEF WriteLine
  <2>2. open' \in BOOLEAN /\ present' \in BOOLEAN
    BY <1>1, Zenon DEF WriteLine
  <2> QED BY <1>0, <1>1, <2>1, <2>2 DEF WriteLine, FileTypes
<1>2. CASE TearLine(line)
  <2>1. PICK part \in {Garbage, line} : log' = AddLine(part)
    BY <1>2 DEF TearLine
  <2>2. log' \in Seq(Lines)
    BY <1>0, <2>1, AddLineType, LineTypes
  <2>3. open' \in BOOLEAN /\ present' \in BOOLEAN
    BY <1>2, Zenon DEF TearLine
  <2> QED BY <1>0, <1>2, <2>2, <2>3 DEF TearLine, FileTypes
<1>3. CASE present' \in {present, TRUE} /\ UNCHANGED <<log, open, size, tears, damaged>>
  <2>1. present' \in BOOLEAN
    BY <1>0, <1>3, Zenon
  <2> QED BY <1>0, <1>3, <2>1 DEF FileTypes
<1> QED BY <1>1, <1>2, <1>3 DEF WriteFails

(* So do the lines that a thread writes. *)
LEMMA PendingTypes ==
  ASSUME TypeOK, NEW w \in Writers, pc[w] # "idle"
  PROVE  /\ Marker(w) \in Entries /\ Marker(w) \in Lines
         /\ entry[w] \in Entries /\ entry[w] \in Lines
         /\ Pending(w) \in Lines
<1>1. MarkerHash(w) \in Hashes
  BY DEF TypeOK
<1>2. Marker(w) \in Entries
  BY <1>1, LineTypes DEF Marker, Entries
<1>3. entry[w] \in Entries
  BY DEF TypeOK
<1> QED BY <1>2, <1>3, LineTypes DEF Pending

(* An exception leaves the lock and the threads well typed. *)
LEMMA RaiseTypes ==
  ASSUME TypeOK, NEW w \in Writers, Raise(w)
  PROVE  /\ lock' \in [Procs -> Writers \cup {NoWriter}]
         /\ pc' \in [Writers -> {"idle", "write", "advance", "unlink", "rename",
                                 "touch", "mark", "return"}]
         /\ pc'[w] = "idle" /\ \A v \in Writers : v # w => pc'[v] = pc[v]
         /\ \A v \in Writers : pc'[v] # "idle" => MarkerHash(v)' \in Hashes
         /\ UNCHANGED <<up, entry, nextHash, crashes, returned>>
<1>1. UNCHANGED <<up, entry, nextHash, crashes, returned>>
  BY DEF Raise
<1>2. pc' = [pc EXCEPT ![w] = "idle"] /\ lock' = [lock EXCEPT ![ProcOf[w]] = NoWriter]
  BY DEF Raise, Goto
<1>3. \A v \in Writers : pc'[v] # "idle" => MarkerHash(v)' \in Hashes
  BY <1>1, <1>2 DEF TypeOK, MarkerHash
<1> QED BY <1>1, <1>2, <1>3 DEF TypeOK

LEMMA FaultTypes ==
  ASSUME TypeOK, Fault
  PROVE  faults' \in Nat /\ faults' = faults + 1
BY DEF TypeOK, Fault

(* Every reachable state is well typed: the hashes in memory and in the      *)
(* files are numbered within the bound, and no counter goes below zero.      *)
THEOREM TypeCorrect == Spec => []TypeOK
<1>1. Init => TypeOK
  <2> SUFFICES ASSUME Init PROVE TypeOK
    OBVIOUS
  <2>1. NoEntry \in Entries /\ 1 \in 1 .. MaxEntries + 1
    BY LimitsAssumption, LineTypes DEF NoEntry, Entries
  <2>2. <<>> \in Seq(Lines)
    BY EmptySeq
  <2> QED BY <2>1, <2>2, LineTypes DEF Init, TypeOK
<1>2. TypeOK /\ [Next]_vars => TypeOK'
  <2> SUFFICES ASSUME TypeOK, [Next]_vars PROVE TypeOK'
    OBVIOUS
  <2>0. ASSUME NEW w \in Writers PROVE ProcOf[w] \in Procs /\ entry[w].hash \in Hashes
    BY ProcsAssumption DEF TypeOK, Entries
  <2>1. ASSUME NEW w \in Writers, Build(w) PROVE TypeOK'
    <3>0. nextHash \in Nat /\ nextHash >= 1 /\ nextHash < MaxEntries /\ MaxEntries \in Nat
      BY <2>1, LimitsAssumption DEF Build, TypeOK
    <3>1. ProcOf[w] \in Procs /\ nextHash \in Hashes /\ nextHash + 2 \in 1 .. MaxEntries + 1
      BY <3>0, ProcsAssumption DEF Hashes
    <3>2. [ok |-> TRUE, prev |-> lastHash[ProcOf[w]], hash |-> nextHash] \in Entries
      BY <3>1 DEF TypeOK, Entries
    <3>3. nextHash + 1 \in Hashes
      BY <3>0 DEF Hashes
    <3>4. \A v \in Writers : pc'[v] # "idle" => MarkerHash(v)' \in Hashes
      BY <2>1, <3>3 DEF Build, TypeOK, Goto, MarkerHash
    <3>5. UNCHANGED <<files, memory, up, crashes, faults, returned>>
      BY <2>1 DEF Build
    <3>6. /\ lock' \in [Procs -> Writers \cup {NoWriter}] /\ entry' \in [Writers -> Entries]
          /\ nextHash' \in 1 .. MaxEntries + 1
          /\ pc' \in [Writers -> {"idle", "write", "advance", "unlink", "rename",
                                  "touch", "mark", "return"}]
      BY <2>1, <3>1, <3>2 DEF Build, TypeOK, Goto
    <3> QED BY <3>4, <3>5, <3>6 DEF TypeOK, files, memory
  <2>2. ASSUME NEW w \in Writers, Write(w) PROVE TypeOK'
    <3>1. FileTypes'
      BY <2>2, PendingTypes, WriteTypes DEF Write, At
    <3> QED BY <2>2, <3>1 DEF Write, TypeOK, FileTypes, Goto, MarkerHash, At, memory, bounds
  <2>3. ASSUME NEW w \in Writers, WriteRaises(w) PROVE TypeOK'
    <3>1. Pending(w) \in Lines
      BY <2>3, PendingTypes DEF WriteRaises, At
    <3>2. FileTypes'
      BY <2>3, <3>1, WriteTypes DEF WriteRaises
    <3>3. UNCHANGED <<rotated, dropped, memory>>
      BY <2>3 DEF WriteRaises
    <3> QED BY <2>3, <3>2, <3>3, RaiseTypes, FaultTypes DEF WriteRaises, TypeOK, FileTypes, memory
  <2>4. ASSUME NEW w \in Writers, Advance(w) PROVE TypeOK'
    BY <2>0, <2>4 DEF Advance, MoveHead, TypeOK, Goto, MarkerHash, At, files, bounds
  <2>5. ASSUME NEW w \in Writers, StatRaises(w) PROVE TypeOK'
    <3>1. lastHash' \in [Procs -> Hashes] /\ lineCount' \in [Procs -> Nat]
      BY <2>0, <2>5 DEF StatRaises, MoveHead, TypeOK
    <3>2. faults' \in Nat /\ Raise(w) /\ UNCHANGED files
      BY <2>5, FaultTypes DEF StatRaises, TypeOK
    <3> QED BY <3>1, <3>2, RaiseTypes DEF TypeOK, files
  <2>6. ASSUME NEW w \in Writers, Unlink(w) PROVE TypeOK'
    BY <2>6, ConcatProperties, EmptySeq DEF Unlink, TypeOK, Goto, MarkerHash, At, memory, bounds
  <2>7. ASSUME NEW w \in Writers, Rename(w) PROVE TypeOK'
    BY <2>7, ConcatProperties, EmptySeq
       DEF Rename, LogMoved, TypeOK, Goto, MarkerHash, At, memory, bounds
  <2>8. ASSUME NEW w \in Writers, RenameRaises(w) PROVE TypeOK'
    BY <2>8, RaiseTypes DEF RenameRaises, TypeOK, files, memory
  <2>9. ASSUME NEW w \in Writers, RotationRaises(w) PROVE TypeOK'
    <3>1. /\ faults' \in Nat /\ Raise(w) /\ damaged' \subseteq {"log", "log.1"}
          /\ UNCHANGED <<log, present, open, size, rotated, dropped, tears, memory>>
      BY <2>9, FaultTypes DEF RotationRaises, TypeOK
    <3> QED BY <3>1, RaiseTypes DEF TypeOK, memory
  <2>10. ASSUME NEW w \in Writers, Touch(w) PROVE TypeOK'
    BY <2>10, LineTypes DEF Touch, TypeOK, Goto, MarkerHash, At, bounds
  <2>11. ASSUME NEW w \in Writers, Mark(w) PROVE TypeOK'
    <3>1. MarkerHash(w) \in Hashes
      BY <2>11 DEF Mark, At, TypeOK
    <3>2. FileTypes'
      BY <2>11, PendingTypes, WriteTypes DEF Mark, At
    <3> QED BY <2>0, <2>11, <3>1, <3>2
            DEF Mark, TypeOK, FileTypes, Goto, MarkerHash, At, bounds
  <2>12. ASSUME NEW w \in Writers, Return(w) PROVE TypeOK'
    BY <2>0, <2>12 DEF Return, TypeOK, Goto, MarkerHash, At, files, memory, bounds
  (* What a kill leaves. *)
  <2>13. ASSUME NEW p \in Procs, Kill(p), FileTypes', UNCHANGED <<rotated, dropped>>
         PROVE  TypeOK'
    <3>1. \A v \in Writers : pc'[v] # "idle" => MarkerHash(v)' \in Hashes
      BY <2>13 DEF Kill, TypeOK, MarkerHash
    <3>2. /\ up' \in [Procs -> BOOLEAN] /\ lock' \in [Procs -> Writers \cup {NoWriter}]
          /\ crashes' \in Nat
          /\ pc' \in [Writers -> {"idle", "write", "advance", "unlink", "rename",
                                 "touch", "mark", "return"}]
      BY <2>13 DEF Kill, TypeOK
    <3>3. UNCHANGED <<rotated, dropped, lastHash, lineCount, entry, nextHash, faults, returned>>
      BY <2>13 DEF Kill, memory
    <3> QED BY <2>13, <3>1, <3>2, <3>3 DEF TypeOK, FileTypes
  <2>14. ASSUME NEW w \in Writers, CrashMidWrite(w) PROVE TypeOK'
    <3>1. FileTypes'
      BY <2>14, PendingTypes, WriteTypes DEF CrashMidWrite, At
    <3> QED BY <2>0, <2>13, <2>14, <3>1 DEF CrashMidWrite
  <2>15. ASSUME NEW p \in Procs, Crash(p) PROVE TypeOK'
    <3>1. FileTypes'
      BY <2>15 DEF Crash, TypeOK, FileTypes, files
    <3> QED BY <2>13, <2>15, <3>1 DEF Crash, files
  <2>16. ASSUME NEW p \in Procs, Restart(p) PROVE TypeOK'
    BY <2>16, BootTypes DEF Restart, TypeOK, MarkerHash, bounds
  <2>17. CASE UNCHANGED vars
    BY <2>17 DEF TypeOK, MarkerHash, vars, files, memory, bounds
  <2> QED BY <2>1, <2>2, <2>3, <2>4, <2>5, <2>6, <2>7, <2>8, <2>9, <2>10, <2>11, <2>12, <2>14,
             <2>15, <2>16, <2>17 DEF Next, Serve, Rotate, Fail, Quiescent
<1> QED BY <1>1, <1>2, PTL DEF Spec
-----------------------------------------------------------------------------
(* A line built on the hash of the last line extends the chain. *)
LEMMA AppendKeepsChain ==
  ASSUME NEW file \in Seq(Lines), Linked(file),
         NEW line \in Entries, line.prev = LastHashOf(file)
  PROVE  /\ Linked(Append(file, line))
         /\ LastHashOf(Append(file, line)) = line.hash
<1>1. line \in Lines /\ line.ok /\ Len(file) \in Nat
  BY LenProperties DEF Lines, Entries
<1>2. /\ Len(Append(file, line)) = Len(file) + 1
      /\ Append(file, line) # <<>>
      /\ \A i \in 1 .. Len(file) : Append(file, line)[i] = file[i]
      /\ Append(file, line)[Len(file) + 1] = line
  BY <1>1, AppendProperties
<1>3. LastHashOf(Append(file, line)) = line.hash
  BY <1>1, <1>2 DEF LastHashOf
<1>4. ASSUME NEW i \in 1 .. Len(file) + 1
      PROVE  /\ Append(file, line)[i].ok
             /\ Append(file, line)[i].prev = PrevHash(Append(file, line), i)
  <2>1. CASE i = Len(file) + 1
    <3>1. CASE file = <<>>
      BY <1>1, <1>2, <2>1, <3>1 DEF LastHashOf, PrevHash
    <3>2. CASE file # <<>>
      <4>1. Len(file) \in 1 .. Len(file)
        BY <3>2, EmptySeq, LenProperties
      <4> QED BY <1>1, <1>2, <2>1, <3>2, <4>1 DEF LastHashOf, PrevHash
    <3> QED BY <3>1, <3>2
  <2>2. CASE i \in 1 .. Len(file)
    BY <1>1, <1>2, <2>2 DEF Linked, PrevHash
  <2> QED BY <1>1, <2>1, <2>2
<1> QED BY <1>2, <1>3, <1>4 DEF Linked

(* An empty file is linked, and its chain head is Genesis. *)
LEMMA EmptyChain == Linked(<<>>) /\ LastHashOf(<<>>) = Genesis
  BY EmptySeq DEF Linked, LastHashOf

(* The lock of a process keeps its threads apart, for any number of processes. *)
LEMMA OwnerKept ==
  ASSUME TypeOK, OwnerDiscipline, [Next]_vars
  PROVE  OwnerDiscipline'
<1>0. \A w \in Writers : ProcOf[w] \in Procs /\ w # NoWriter
  BY ProcsAssumption
<1>1. ASSUME NEW w \in Writers, Build(w) PROVE OwnerDiscipline'
  BY <1>0, <1>1 DEF Build, Goto, OwnerDiscipline, TypeOK
(* A step inside append. *)
<1>2. ASSUME NEW w \in Writers, pc[w] # "idle", UNCHANGED <<lock, up>>,
             \A v \in Writers : v # w => pc'[v] = pc[v]
      PROVE  OwnerDiscipline'
  BY <1>2 DEF OwnerDiscipline
(* A step that leaves append. *)
<1>3. ASSUME NEW w \in Writers, pc[w] # "idle", lock' = [lock EXCEPT ![ProcOf[w]] = NoWriter],
             pc' = [pc EXCEPT ![w] = "idle"], UNCHANGED up
      PROVE  OwnerDiscipline'
  <2>1. ASSUME NEW v \in Writers, pc'[v] # "idle" PROVE lock'[ProcOf[v]] = v /\ up'[ProcOf[v]]
    <3>1. v # w /\ pc[v] # "idle"
      BY <1>3, <2>1 DEF TypeOK
    <3>2. ProcOf[v] # ProcOf[w]
      BY <1>3, <3>1 DEF OwnerDiscipline
    <3> QED BY <1>0, <1>3, <3>1, <3>2 DEF OwnerDiscipline, TypeOK
  <2> QED BY <2>1 DEF OwnerDiscipline
<1>4. ASSUME NEW w \in Writers, Write(w) \/ Advance(w) \/ Rotate(w) PROVE OwnerDiscipline'
  <2>1. pc[w] # "idle" /\ UNCHANGED <<lock, up>> /\ \A v \in Writers : v # w => pc'[v] = pc[v]
    BY <1>4 DEF Write, Advance, Rotate, Unlink, Rename, Touch, Mark, At, Goto, TypeOK
  <2> QED BY <1>2, <2>1
<1>5. ASSUME NEW w \in Writers, Fail(w) PROVE OwnerDiscipline'
  <2>1. pc[w] # "idle" /\ Raise(w)
    BY <1>5 DEF Fail, WriteRaises, StatRaises, RenameRaises, RotationRaises, At
  <2> QED BY <1>3, <2>1 DEF Raise, Goto
<1>6. ASSUME NEW w \in Writers, Return(w) PROVE OwnerDiscipline'
  BY <1>3, <1>6 DEF Return, Goto, At
<1>7. ASSUME NEW p \in Procs, Kill(p) PROVE OwnerDiscipline'
  BY <1>0, <1>7 DEF Kill, OwnerDiscipline, TypeOK
<1>8. ASSUME NEW p \in Procs, Restart(p) PROVE OwnerDiscipline'
  BY <1>0, <1>8 DEF Restart, OwnerDiscipline, TypeOK
<1>9. CASE UNCHANGED vars
  BY <1>9 DEF vars, OwnerDiscipline
<1> QED BY <1>0, <1>1, <1>4, <1>5, <1>6, <1>7, <1>8, <1>9
        DEF Next, Serve, Crash, CrashMidWrite, Quiescent

(* In one process, a thread inside append excludes every other one. *)
LEMMA SoleThread ==
  ASSUME \A p, q \in Procs : p = q, OwnerDiscipline,
         NEW w \in Writers, pc[w] # "idle"
  PROVE  /\ \A v \in Writers : v # w => pc[v] = "idle"
         /\ \A p \in Procs : p = ProcOf[w] /\ lock[p] = w /\ up[p]
         /\ ProcOf[w] \in Procs
<1>1. \A v \in Writers : ProcOf[v] \in Procs
  BY ProcsAssumption
<1>2. \A p \in Procs : p = ProcOf[w]
  BY <1>1
<1>3. \A v \in Writers : pc[v] # "idle" => lock[ProcOf[w]] = v
  BY <1>1, <1>2 DEF OwnerDiscipline
<1> QED BY <1>1, <1>2, <1>3 DEF OwnerDiscipline

LEMMA ChainInvInitial == Init => ChainInv
<1> SUFFICES ASSUME Init PROVE ChainInv
  OBVIOUS
<1>1. Linked(log) /\ Linked(rotated) /\ LastHashOf(log) = Genesis
  BY EmptyChain DEF Init
<1> QED BY <1>1 DEF Init, ChainInv, FileIsThere, OwnerDiscipline, HeadIsRemembered, OwnerAt,
           BuiltOnHead, At

(* ChainInv is inductive for one process: every step of append, of a         *)
(* rotation, of an operation that raises, of a kill and of a restart keeps it. *)
THEOREM ChainInvInductive ==
  ASSUME \A p, q \in Procs : p = q
  PROVE  TypeOK /\ ChainInv /\ [Next]_vars => ChainInv'
<1> SUFFICES ASSUME TypeOK, ChainInv, [Next]_vars PROVE ChainInv'
  OBVIOUS
<1>0. /\ "log" \notin damaged => Linked(log) /\ ~open
      /\ "log.1" \notin damaged => Linked(rotated)
      /\ FileIsThere /\ OwnerDiscipline /\ HeadIsRemembered /\ BuiltOnHead
  BY DEF ChainInv
<1>a. \A w \in Writers : ProcOf[w] \in Procs /\ w # NoWriter
  BY ProcsAssumption
<1>b. OwnerDiscipline'
  BY <1>0, OwnerKept
<1>c. ASSUME NEW w \in Writers, pc[w] # "idle"
      PROVE  /\ \A v \in Writers : v # w => pc[v] = "idle"
             /\ \A p \in Procs : p = ProcOf[w] /\ lock[p] = w /\ up[p]
             /\ ProcOf[w] \in Procs
             /\ pc[w] # "touch" => present \/ "log" \in damaged
  <2>1. /\ \A v \in Writers : v # w => pc[v] = "idle"
        /\ \A p \in Procs : p = ProcOf[w] /\ lock[p] = w /\ up[p]
        /\ ProcOf[w] \in Procs
    BY <1>0, <1>c, SoleThread
  <2>2. pc[w] # "touch" => ~Rotating
    BY <2>1 DEF Rotating, At
  <2> QED BY <1>0, <2>1, <2>2 DEF FileIsThere
(* What an exception leaves, when the head in memory is still the last hash. *)
<1>d. ASSUME NEW w \in Writers, pc[w] # "idle", pc[w] # "touch", Raise(w),
             UNCHANGED <<log, rotated, open, damaged>>, present' \in {present, TRUE},
             "log" \notin damaged => LastHashOf(log) = lastHash'[ProcOf[w]]
      PROVE  ChainInv'
  <2>1. \A v \in Writers : pc'[v] = "idle"
    BY <1>c, <1>d, RaiseTypes
  <2>2. HeadIsRemembered'
    BY <1>c, <1>d, <2>1 DEF HeadIsRemembered, OwnerAt, LastHashOf
  <2>a. BuiltOnHead'
    BY <2>1 DEF BuiltOnHead, At
  <2>b. present \/ "log" \in damaged
    BY <1>c, <1>d
  <2>c. present' \/ "log" \in damaged'
    <3>1. CASE present' = TRUE
      BY <3>1
    <3>2. CASE present' = present
      BY <1>d, <2>b, <3>2
    <3> QED BY <1>d, <3>1, <3>2
  <2>3. BuiltOnHead' /\ FileIsThere'
    BY <2>a, <2>c DEF FileIsThere
  <2>4. /\ "log" \notin damaged' => Linked(log)' /\ ~open'
        /\ "log.1" \notin damaged' => Linked(rotated)'
    BY <1>0, <1>d DEF Linked, PrevHash
  <2> QED BY <1>b, <2>2, <2>3, <2>4 DEF ChainInv
(* What is left when it is not: the file is damaged. *)
<1>e. ASSUME "log" \in damaged', damaged' \subseteq damaged \cup {"log"}, UNCHANGED rotated,
             \A v \in Writers : pc'[v] = "idle", damaged \subseteq damaged'
      PROVE  ChainInv'
  <2>1. HeadIsRemembered' /\ BuiltOnHead' /\ FileIsThere'
    BY <1>e DEF HeadIsRemembered, BuiltOnHead, At, FileIsThere
  <2>2. "log.1" \notin damaged' => Linked(rotated)'
    BY <1>0, <1>e DEF Linked, PrevHash
  <2> QED BY <1>b, <1>e, <2>1, <2>2 DEF ChainInv
<1>1. ASSUME NEW w \in Writers, Build(w) PROVE ChainInv'
  <2>1. \A v \in Writers : pc[v] = "idle"
    BY <1>0, <1>1, <1>a DEF Build, OwnerDiscipline
  <2>2. \A v \in Writers : pc'[v] # "idle" => v = w /\ pc'[w] = "write"
    BY <1>1, <2>1 DEF Build, Goto, TypeOK
  <2>3. \A p \in Procs : ~OwnerAt(p, "advance") /\ ~OwnerAt(p, "touch")
                          /\ ~OwnerAt(p, "advance")' /\ ~OwnerAt(p, "touch")'
    BY <2>1, <2>2 DEF OwnerAt
  <2>4. HeadIsRemembered'
    BY <1>0, <1>1, <2>3 DEF Build, HeadIsRemembered, LastHashOf, files, memory
  <2>5. BuiltOnHead'
    BY <1>1, <2>2 DEF Build, BuiltOnHead, At, TypeOK, memory
  <2>6. FileIsThere'
    <3>1. ~Rotating
      BY <1>1, <1>a, <2>1 DEF Build, Rotating, At
    <3> QED BY <1>0, <1>1, <3>1 DEF Build, FileIsThere, files
  <2>7. /\ "log" \notin damaged' => Linked(log)' /\ ~open'
        /\ "log.1" \notin damaged' => Linked(rotated)'
    BY <1>0, <1>1 DEF Build, Linked, PrevHash, files
  <2> QED BY <1>b, <2>4, <2>5, <2>6, <2>7 DEF ChainInv
<1>2. ASSUME NEW w \in Writers, Write(w) PROVE ChainInv'
  <2>0. pc[w] = "write" /\ UNCHANGED <<damaged, rotated, lock, up, entry>> /\ present' = TRUE
    BY <1>2 DEF Write, At, WriteLine
  <2>1. /\ \A v \in Writers : v # w => pc[v] = "idle"
        /\ \A p \in Procs : p = ProcOf[w] /\ lock[p] = w /\ up[p]
        /\ ProcOf[w] \in Procs
    BY <1>c, <2>0
  <2>2. pc'[w] = "advance" /\ \A v \in Writers : pc'[v] # "idle" => v = w
    BY <1>2, <2>1 DEF Write, Goto, TypeOK
  <2>3. ASSUME "log" \notin damaged
        PROVE  Linked(log)' /\ LastHashOf(log)' = entry[w].hash /\ ~open'
    <3>1. ~OwnerAt(ProcOf[w], "advance") /\ ~OwnerAt(ProcOf[w], "touch")
      BY <2>0, <2>1 DEF OwnerAt
    <3>2. LastHashOf(log) = lastHash[ProcOf[w]]
      BY <1>0, <2>1, <2>3, <3>1 DEF HeadIsRemembered
    <3>3. entry[w] \in Entries /\ log \in Seq(Lines) /\ entry[w].prev = LastHashOf(log)
      BY <1>0, <2>0, <3>2 DEF BuiltOnHead, TypeOK, At
    <3>4. log' = Append(log, entry[w]) /\ ~open'
      BY <1>0, <1>2, <2>3 DEF Write, WriteLine, AddLine
    <3> QED BY <1>0, <2>3, <3>3, <3>4, AppendKeepsChain DEF Linked, PrevHash, LastHashOf
  <2>4. "log.1" \notin damaged' => Linked(rotated)'
    BY <1>0, <2>0 DEF Linked, PrevHash
  <2>5. HeadIsRemembered'
    BY <2>0, <2>1, <2>2, <2>3 DEF HeadIsRemembered, OwnerAt
  <2>6. BuiltOnHead' /\ FileIsThere'
    BY <2>0, <2>2 DEF BuiltOnHead, At, FileIsThere
  <2> QED BY <1>b, <2>0, <2>3, <2>4, <2>5, <2>6 DEF ChainInv
<1>3. ASSUME NEW w \in Writers, WriteRaises(w) PROVE ChainInv'
  <2>0. pc[w] \in {"write", "mark"} /\ Raise(w) /\ UNCHANGED <<rotated, lastHash>>
    BY <1>3 DEF WriteRaises, At, memory
  <2>1. \A v \in Writers : pc'[v] = "idle"
    BY <1>c, <2>0, RaiseTypes
  <2>2. CASE present' \in {present, TRUE} /\ UNCHANGED <<log, open, size, tears, damaged>>
    <3>1. ~OwnerAt(ProcOf[w], "advance") /\ ~OwnerAt(ProcOf[w], "touch")
      BY <1>c, <2>0 DEF OwnerAt
    <3>2. "log" \notin damaged => LastHashOf(log) = lastHash'[ProcOf[w]]
      BY <1>0, <1>c, <2>0, <3>1 DEF HeadIsRemembered
    <3> QED BY <1>d, <2>0, <2>2, <3>2
  <2>3. CASE damaged' = damaged \cup {"log"}
    BY <1>e, <2>0, <2>1, <2>3
  <2> QED BY <1>3, <2>2, <2>3 DEF WriteRaises, WriteFails, TearLine
<1>4. ASSUME NEW w \in Writers, Advance(w) PROVE ChainInv'
  <2>0. pc[w] = "advance" /\ UNCHANGED <<files, lock, up, entry>>
    BY <1>4 DEF Advance, At
  <2>1. /\ \A v \in Writers : v # w => pc[v] = "idle"
        /\ \A p \in Procs : p = ProcOf[w] /\ lock[p] = w /\ up[p]
        /\ ProcOf[w] \in Procs /\ (present \/ "log" \in damaged)
    BY <1>c, <2>0
  <2>2. pc'[w] \in {"unlink", "return"} /\ \A v \in Writers : pc'[v] # "idle" => v = w
    BY <1>4, <2>1 DEF Advance, Goto, TypeOK
  <2>3. "log" \notin damaged => LastHashOf(log) = entry[w].hash
    BY <1>0, <2>0, <2>1 DEF HeadIsRemembered, OwnerAt
  <2>4. lastHash'[ProcOf[w]] = entry[w].hash
    BY <1>4, <2>1 DEF Advance, MoveHead, TypeOK
  <2>5. HeadIsRemembered'
    BY <2>0, <2>1, <2>2, <2>3, <2>4 DEF HeadIsRemembered, OwnerAt, LastHashOf, files
  <2>6. BuiltOnHead' /\ FileIsThere'
    BY <2>0, <2>1, <2>2 DEF BuiltOnHead, At, FileIsThere, files
  <2>7. /\ "log" \notin damaged' => Linked(log)' /\ ~open'
        /\ "log.1" \notin damaged' => Linked(rotated)'
    BY <1>0, <2>0 DEF Linked, PrevHash, files
  <2> QED BY <1>b, <2>5, <2>6, <2>7 DEF ChainInv
<1>5. ASSUME NEW w \in Writers, StatRaises(w) PROVE ChainInv'
  <2>1. pc[w] = "advance" /\ Raise(w) /\ UNCHANGED files /\ ProcOf[w] \in Procs
    BY <1>5, <1>a DEF StatRaises, At
  <2>2. "log" \notin damaged => LastHashOf(log) = entry[w].hash
    BY <1>0, <1>c, <2>1 DEF HeadIsRemembered, OwnerAt
  <2>3. lastHash'[ProcOf[w]] = entry[w].hash
    BY <1>5, <2>1 DEF StatRaises, MoveHead, TypeOK
  <2> QED BY <1>d, <2>1, <2>2, <2>3 DEF files
<1>6. ASSUME NEW w \in Writers, Unlink(w) PROVE ChainInv'
  <2>0. /\ pc[w] = "unlink" /\ UNCHANGED <<log, present, open, lastHash, lock, up, entry>>
        /\ rotated' = <<>> /\ damaged' = damaged \ {"log.1"}
    BY <1>6 DEF Unlink, At, memory
  <2>1. /\ \A v \in Writers : v # w => pc[v] = "idle"
        /\ \A p \in Procs : p = ProcOf[w] /\ lock[p] = w /\ up[p]
        /\ ProcOf[w] \in Procs /\ (present \/ "log" \in damaged)
    BY <1>c, <2>0
  <2>2. pc'[w] = "rename" /\ \A v \in Writers : pc'[v] # "idle" => v = w
    BY <1>6, <2>1 DEF Unlink, Goto, TypeOK
  <2>3. "log" \notin damaged => LastHashOf(log) = lastHash[ProcOf[w]]
    BY <1>0, <2>0, <2>1 DEF HeadIsRemembered, OwnerAt
  <2>4. HeadIsRemembered'
    BY <2>0, <2>1, <2>2, <2>3 DEF HeadIsRemembered, OwnerAt, LastHashOf
  <2>5. BuiltOnHead' /\ FileIsThere'
    BY <2>0, <2>1, <2>2 DEF BuiltOnHead, At, FileIsThere
  <2>6. ("log" \notin damaged' => Linked(log)' /\ ~open') /\ Linked(rotated)'
    BY <1>0, <2>0, EmptyChain DEF Linked, PrevHash
  <2> QED BY <1>b, <2>4, <2>5, <2>6 DEF ChainInv
<1>7. ASSUME NEW w \in Writers, Rename(w) PROVE ChainInv'
  <2>0. /\ pc[w] = "rename" /\ UNCHANGED <<lock, up>> /\ log' = <<>> /\ ~open' /\ rotated' = log
        /\ damaged' = IF "log" \in damaged THEN {"log.1"} ELSE {}
    BY <1>7 DEF Rename, At, LogMoved
  <2>1. /\ \A v \in Writers : v # w => pc[v] = "idle"
        /\ \A p \in Procs : p = ProcOf[w] /\ lock[p] = w /\ up[p]
        /\ ProcOf[w] \in Procs
    BY <1>c, <2>0
  <2>2. pc'[w] = "touch" /\ \A v \in Writers : pc'[v] # "idle" => v = w
    BY <1>7, <2>1 DEF Rename, Goto, TypeOK
  <2>3. HeadIsRemembered'
    BY <2>0, <2>1, <2>2 DEF HeadIsRemembered, OwnerAt
  <2>4. BuiltOnHead' /\ FileIsThere'
    BY <2>2 DEF BuiltOnHead, At, FileIsThere, Rotating
  <2>5. Linked(log)' /\ ("log.1" \notin damaged' => Linked(rotated)')
    BY <1>0, <2>0, EmptyChain DEF Linked, PrevHash
  <2> QED BY <1>b, <2>0, <2>3, <2>4, <2>5 DEF ChainInv
<1>8. ASSUME NEW w \in Writers, RenameRaises(w) \/ RotationRaises(w) PROVE ChainInv'
  <2>1. /\ pc[w] \in {"unlink", "rename", "touch"} /\ Raise(w) /\ ProcOf[w] \in Procs
        /\ UNCHANGED <<log, rotated, open, present, lastHash>>
        /\ damaged' = IF pc[w] = "touch" THEN damaged \cup {"log"} ELSE damaged
    BY <1>8, <1>a DEF RenameRaises, RotationRaises, At, files, memory
  <2>2. \A v \in Writers : pc'[v] = "idle"
    BY <1>c, <2>1, RaiseTypes
  <2>3. CASE pc[w] = "touch"
    BY <1>e, <2>1, <2>2, <2>3
  <2>4. CASE pc[w] # "touch"
    <3>1. "log" \notin damaged => LastHashOf(log) = lastHash[ProcOf[w]]
      BY <1>0, <1>c, <2>1, <2>4 DEF HeadIsRemembered, OwnerAt
    <3> QED BY <1>d, <2>1, <2>4, <3>1
  <2> QED BY <2>3, <2>4
<1>9. ASSUME NEW w \in Writers, Touch(w) PROVE ChainInv'
  <2>0. /\ pc[w] = "touch" /\ UNCHANGED <<log, open, rotated, damaged, lock, up>> /\ present' = TRUE
        /\ lastHash' = [lastHash EXCEPT ![ProcOf[w]] = Genesis]
    BY <1>9 DEF Touch, At
  <2>1. /\ \A v \in Writers : v # w => pc[v] = "idle"
        /\ \A p \in Procs : p = ProcOf[w] /\ lock[p] = w /\ up[p]
        /\ ProcOf[w] \in Procs
    BY <1>c, <2>0
  <2>2. pc'[w] = "mark" /\ \A v \in Writers : pc'[v] # "idle" => v = w
    BY <1>9, <2>1 DEF Touch, Goto, TypeOK
  <2>3. lastHash'[ProcOf[w]] = Genesis
    BY <2>0, <2>1 DEF TypeOK
  <2>4. "log" \notin damaged => log = <<>>
    BY <1>0, <2>0, <2>1 DEF HeadIsRemembered, OwnerAt
  <2>5. HeadIsRemembered'
    BY <2>0, <2>1, <2>2, <2>3, <2>4, EmptyChain DEF HeadIsRemembered, OwnerAt, LastHashOf
  <2>6. BuiltOnHead' /\ FileIsThere'
    BY <2>0, <2>1, <2>2, <2>3 DEF BuiltOnHead, At, FileIsThere
  <2>7. /\ "log" \notin damaged' => Linked(log)' /\ ~open'
        /\ "log.1" \notin damaged' => Linked(rotated)'
    BY <1>0, <2>0 DEF Linked, PrevHash
  <2> QED BY <1>b, <2>5, <2>6, <2>7 DEF ChainInv
<1>10. ASSUME NEW w \in Writers, Mark(w) PROVE ChainInv'
  <2>0. /\ pc[w] = "mark" /\ UNCHANGED <<rotated, damaged, lock, up>> /\ present' = TRUE
        /\ lastHash' = [lastHash EXCEPT ![ProcOf[w]] = MarkerHash(w)]
    BY <1>10 DEF Mark, At, WriteLine
  <2>1. /\ \A v \in Writers : v # w => pc[v] = "idle"
        /\ \A p \in Procs : p = ProcOf[w] /\ lock[p] = w /\ up[p]
        /\ ProcOf[w] \in Procs
    BY <1>c, <2>0
  <2>2. pc'[w] = "return" /\ \A v \in Writers : pc'[v] # "idle" => v = w
    BY <1>10, <2>1 DEF Mark, Goto, TypeOK
  <2>3. lastHash'[ProcOf[w]] = MarkerHash(w)
    BY <2>0, <2>1 DEF TypeOK
  <2>4. ASSUME "log" \notin damaged
        PROVE  Linked(log)' /\ LastHashOf(log)' = MarkerHash(w) /\ ~open'
    <3>1. ~OwnerAt(ProcOf[w], "advance") /\ ~OwnerAt(ProcOf[w], "touch")
      BY <2>0, <2>1 DEF OwnerAt
    <3>2. LastHashOf(log) = Genesis
      BY <1>0, <2>0, <2>1, <2>4, <3>1 DEF HeadIsRemembered, BuiltOnHead, At
    <3>3. Marker(w) \in Entries /\ log \in Seq(Lines)
      BY <2>0, PendingTypes DEF TypeOK
    <3>4. Marker(w).prev = Genesis /\ Marker(w).hash = MarkerHash(w)
      BY DEF Marker
    <3>5. log' = Append(log, Marker(w)) /\ ~open'
      BY <1>0, <1>10, <2>4 DEF Mark, WriteLine, AddLine
    <3> QED BY <1>0, <2>4, <3>2, <3>3, <3>4, <3>5, AppendKeepsChain DEF Linked, PrevHash, LastHashOf
  <2>5. HeadIsRemembered'
    BY <2>0, <2>1, <2>2, <2>3, <2>4 DEF HeadIsRemembered, OwnerAt
  <2>6. BuiltOnHead' /\ FileIsThere'
    BY <2>0, <2>2 DEF BuiltOnHead, At, FileIsThere
  <2>7. "log.1" \notin damaged' => Linked(rotated)'
    BY <1>0, <2>0 DEF Linked, PrevHash
  <2> QED BY <1>b, <2>0, <2>4, <2>5, <2>6, <2>7 DEF ChainInv
<1>11. ASSUME NEW w \in Writers, Return(w) PROVE ChainInv'
  <2>0. pc[w] = "return" /\ UNCHANGED <<log, open, rotated, damaged, present, up, lastHash>>
    BY <1>11 DEF Return, At, files, memory
  <2>1. /\ \A v \in Writers : v # w => pc[v] = "idle"
        /\ \A p \in Procs : p = ProcOf[w] /\ lock[p] = w /\ up[p]
        /\ ProcOf[w] \in Procs /\ (present \/ "log" \in damaged)
    BY <1>c, <2>0
  <2>2. \A v \in Writers : pc'[v] = "idle"
    BY <1>11, <2>1 DEF Return, Goto, TypeOK
  <2>3. "log" \notin damaged => LastHashOf(log) = lastHash[ProcOf[w]]
    BY <1>0, <2>0, <2>1 DEF HeadIsRemembered, OwnerAt
  <2>4. HeadIsRemembered'
    BY <2>0, <2>1, <2>2, <2>3 DEF HeadIsRemembered, OwnerAt, LastHashOf
  <2>5. BuiltOnHead' /\ FileIsThere'
    BY <2>0, <2>1, <2>2 DEF BuiltOnHead, At, FileIsThere
  <2>6. /\ "log" \notin damaged' => Linked(log)' /\ ~open'
        /\ "log.1" \notin damaged' => Linked(rotated)'
    BY <1>0, <2>0 DEF Linked, PrevHash
  <2> QED BY <1>b, <2>4, <2>5, <2>6 DEF ChainInv
<1>12. ASSUME NEW p \in Procs, Crash(p) PROVE ChainInv'
  <2>1. \A q \in Procs : ~up'[q]
    BY <1>12 DEF Crash, Kill, TypeOK
  <2>2. \A w \in Writers : pc'[w] = "idle"
    BY <1>12, <1>a DEF Crash, Kill
  <2>3. HeadIsRemembered' /\ BuiltOnHead' /\ FileIsThere'
    BY <2>1, <2>2 DEF HeadIsRemembered, BuiltOnHead, At, FileIsThere, Rotating
  <2>4. /\ "log" \notin damaged' => Linked(log)' /\ ~open'
        /\ "log.1" \notin damaged' => Linked(rotated)'
    BY <1>0, <1>12 DEF Crash, Linked, PrevHash, files
  <2> QED BY <1>b, <2>3, <2>4 DEF ChainInv
<1>13. ASSUME NEW w \in Writers, CrashMidWrite(w) PROVE ChainInv'
  <2>1. \A v \in Writers : pc'[v] = "idle"
    BY <1>13, <1>a DEF CrashMidWrite, Kill
  <2> QED BY <1>13, <1>e, <2>1 DEF CrashMidWrite, TearLine
<1>14. ASSUME NEW p \in Procs, Restart(p) PROVE ChainInv'
  <2>0. UNCHANGED <<log, open, rotated, damaged, lock, pc>> /\ present' = TRUE
    BY <1>14 DEF Restart
  <2>1. \A w \in Writers : pc[w] = "idle" /\ pc'[w] = "idle"
    BY <1>0, <1>14, <1>a, <2>0 DEF Restart, OwnerDiscipline
  <2>2. "log" \notin damaged => BootHash(log) = LastHashOf(log)
    BY <1>0, BootFindsHead DEF Linked, TypeOK
  <2>3. \A q \in Procs : lastHash'[q] = BootHash(log)
    BY <1>14 DEF Restart, TypeOK
  <2>4. HeadIsRemembered'
    BY <2>0, <2>1, <2>2, <2>3 DEF HeadIsRemembered, OwnerAt, LastHashOf
  <2>5. BuiltOnHead' /\ FileIsThere'
    BY <2>0, <2>1 DEF BuiltOnHead, At, FileIsThere
  <2>6. /\ "log" \notin damaged' => Linked(log)' /\ ~open'
        /\ "log.1" \notin damaged' => Linked(rotated)'
    BY <1>0, <2>0 DEF Linked, PrevHash
  <2> QED BY <1>b, <2>4, <2>5, <2>6 DEF ChainInv
<1>15. CASE UNCHANGED vars
  <2>1. HeadIsRemembered' /\ BuiltOnHead' /\ FileIsThere'
    BY <1>0, <1>15 DEF HeadIsRemembered, OwnerAt, LastHashOf, BuiltOnHead, At, FileIsThere, Rotating,
                       vars, files, memory
  <2>2. /\ "log" \notin damaged' => Linked(log)' /\ ~open'
        /\ "log.1" \notin damaged' => Linked(rotated)'
    BY <1>0, <1>15 DEF Linked, PrevHash, vars, files
  <2> QED BY <1>b, <2>1, <2>2 DEF ChainInv
<1> QED BY <1>1, <1>2, <1>3, <1>4, <1>5, <1>6, <1>7, <1>8, <1>9, <1>10, <1>11, <1>12, <1>13,
           <1>14, <1>15 DEF Next, Serve, Rotate, Fail, Quiescent

(* In every reachable state of one process, whatever its threads, rotations,  *)
(* errors, kills and restarts, `cdeh audit verify` says ok of audit.log and of *)
(* audit.log.1, unless a write was torn or failed behind the line, or a touch  *)
(* failed, in that very file; and it finds audit.log missing only in the       *)
(* middle of a rotation, or after the process has died in one.                 *)
THEOREM ChainIsIntact ==
  ASSUME \A p, q \in Procs : p = q
  PROVE  Spec => []ChainVerifies
<1>1. Init => ChainInv
  BY ChainInvInitial
<1>2. TypeOK /\ ChainInv /\ [Next]_vars => ChainInv'
  BY ChainInvInductive
<1>3. ChainInv => ChainVerifies
  BY DEF ChainInv, FileIsThere, ChainVerifies, VerifyChain
<1> QED BY <1>1, <1>2, <1>3, TypeCorrect, PTL DEF Spec

-----------------------------------------------------------------------------
(* What is appended to the last of three files is appended to all of them. *)
LEMMA AppendToLast ==
  ASSUME NEW S, NEW a \in Seq(S), NEW b \in Seq(S), NEW c \in Seq(S), NEW e \in S
  PROVE  a \o b \o Append(c, e) = Append(a \o b \o c, e)
<1>1. a \o b \in Seq(S) /\ <<e>> \in Seq(S) /\ a \o b \o c \in Seq(S)
  BY ConcatProperties
<1>2. Append(c, e) = c \o <<e>> /\ Append(a \o b \o c, e) = (a \o b \o c) \o <<e>>
  BY <1>1, AppendIsConcat
<1> QED BY <1>1, <1>2, ConcatAssociative

(* A file is its lines but the last, and the last. *)
LEMMA FrontAndLast ==
  ASSUME NEW file \in Seq(Lines), file # <<>>
  PROVE  LET front == SubSeq(file, 1, Len(file) - 1)
             mangled == [file EXCEPT ![Len(file)] = Garbage]
         IN  /\ front \in Seq(Lines) /\ file[Len(file)] \in Lines
             /\ file = Append(front, file[Len(file)])
             /\ mangled = Append(front, Garbage)
             /\ SubSeq(mangled, 1, Len(mangled) - 1) = front
<1> DEFINE n == Len(file)
           front == SubSeq(file, 1, n - 1)
           mangled == [file EXCEPT ![n] = Garbage]
<1>1. n \in 1 .. n /\ n \in Nat /\ \A i \in 1 .. n : file[i] \in Lines
  BY EmptySeq, LenProperties, ElementOfSeq
<1>2. front \in Seq(Lines) /\ Len(front) = n - 1 /\ \A i \in 1 .. n - 1 : front[i] = file[i]
  BY <1>1, SubSeqProperties
<1>3. /\ mangled \in Seq(Lines) /\ Len(mangled) = n
      /\ \A i \in 1 .. n : mangled[i] = IF i = n THEN Garbage ELSE file[i]
  BY <1>1, ExceptSeq, LineTypes
<1> HIDE DEF n, front, mangled
<1>4. ASSUME NEW line \in Lines
      PROVE  /\ Append(front, line) \in Seq(Lines) /\ Len(Append(front, line)) = n
             /\ \A i \in 1 .. n : Append(front, line)[i] = IF i = n THEN line ELSE file[i]
  BY <1>1, <1>2, AppendProperties
<1>5. file = Append(front, file[n])
  BY <1>1, <1>4, SeqEqual DEF n
<1>6. mangled = Append(front, Garbage)
  BY <1>1, <1>3, <1>4, LineTypes, SeqEqual
<1>7. SubSeq(mangled, 1, n - 1) = front
  <2>1. /\ SubSeq(mangled, 1, n - 1) \in Seq(Lines) /\ Len(SubSeq(mangled, 1, n - 1)) = n - 1
        /\ \A i \in 1 .. n - 1 : SubSeq(mangled, 1, n - 1)[i] = mangled[i]
    BY <1>1, <1>3, LineTypes, SubSeqProperties
  <2>2. \A i \in 1 .. n - 1 : SubSeq(mangled, 1, n - 1)[i] = front[i]
    BY <1>1, <1>2, <1>3, <2>1
  <2> QED BY <1>1, <1>2, <2>1, <2>2, SeqEqual
<1> QED BY <1>1, <1>2, <1>3, <1>5, <1>6, <1>7 DEF n, front, mangled

LEMMA FrontOfAppend ==
  ASSUME NEW file \in Seq(Lines), NEW line \in Lines
  PROVE  SubSeq(Append(file, line), 1, Len(Append(file, line)) - 1) = file
<1> DEFINE n == Len(file)
           longer == Append(file, line)
           front == SubSeq(longer, 1, n)
<1>1. n \in Nat /\ \A i \in 1 .. n : file[i] \in Lines
  BY LenProperties, ElementOfSeq
<1>2. Len(longer) = n + 1 /\ \A i \in 1 .. n : longer[i] = file[i]
  BY <1>1, AppendProperties
<1> HIDE DEF n, longer
<1>3. front \in Seq(Lines) /\ Len(front) = n /\ \A i \in 1 .. n : front[i] = longer[i]
  BY <1>1, <1>2, SubSeqProperties
<1>4. front = file
  BY <1>1, <1>2, <1>3, SeqEqual DEF n
<1> QED BY <1>1, <1>2, <1>4 DEF n, longer

(* Only a line without its newline is taken back from the end of a file. *)
TornLast == open => log # <<>>

(* A write that ends with a newline adds one terminated line, *)
LEMMA WriteTerminates ==
  ASSUME TypeOK, TornLast, NEW line \in Lines, log' = AddLine(line), open' = FALSE
  PROVE  \E x \in Lines : Terminated' = Append(Terminated, x)
<1>1. log \in Seq(Lines) /\ Terminated' = log'
  BY DEF TypeOK, Terminated
<1>2. CASE open
  <2>1. Terminated' = Append(Terminated, Garbage)
    BY <1>1, <1>2, FrontAndLast DEF TornLast, AddLine, Terminated
  <2> QED BY <2>1, LineTypes
<1>3. CASE ~open
  BY <1>1, <1>3 DEF AddLine, Terminated
<1> QED BY <1>2, <1>3

(* ... and one that does not adds none. *)
LEMMA TearTerminates ==
  ASSUME TypeOK, TornLast, NEW line \in Lines, log' = AddLine(line), open' = TRUE
  PROVE  Terminated' = Terminated /\ TornLast'
<1>1. log \in Seq(Lines) /\ Terminated' = SubSeq(log', 1, Len(log') - 1)
  BY DEF TypeOK, Terminated
<1>2. CASE open
  <2>1. log # <<>> /\ log' = [log EXCEPT ![Len(log)] = Garbage]
    BY <1>2 DEF TornLast, AddLine
  <2>2. log' # <<>>
    <3>1. log' = Append(SubSeq(log, 1, Len(log) - 1), Garbage) /\ SubSeq(log, 1, Len(log) - 1) \in Seq(Lines)
      BY <1>1, <2>1, FrontAndLast
    <3> QED BY <3>1, LineTypes, AppendProperties
  <2> QED BY <1>1, <1>2, <2>1, <2>2, FrontAndLast DEF Terminated, TornLast
<1>3. CASE ~open
  <2>1. log' = Append(log, line) /\ log' # <<>>
    BY <1>1, <1>3, AppendProperties DEF AddLine
  <2> QED BY <1>1, <1>3, <2>1, FrontOfAppend DEF Terminated, TornLast
<1> QED BY <1>2, <1>3

(* The log implements the append-only history, for any number of processes   *)
(* on one file, whatever is torn, raises or is killed: a rotation moves the  *)
(* history between the files without changing it, and every write that ends   *)
(* a line adds one record to it.                                              *)
THEOREM HistoryIsAppendOnly == Spec => ImplementsHistory
<1> DEFINE hist == dropped \o rotated \o Terminated
           Inv == TypeOK /\ TornLast
<1>1. Init => History!Init /\ TornLast
  <2> SUFFICES ASSUME Init PROVE hist = <<>> /\ TornLast
    BY DEF History!Init
  <2>1. <<>> \o <<>> = <<>>
    BY EmptySeq, ConcatEmptySeq
  <2> QED BY <2>1 DEF Init, Terminated, TornLast
<1>2. Inv /\ [Next]_vars => TornLast' /\ [History!Record]_hist
  <2> SUFFICES ASSUME Inv, [Next]_vars PROVE TornLast' /\ [History!Record]_hist
    OBVIOUS
  <2>0. /\ log \in Seq(Lines) /\ rotated \in Seq(Lines) /\ dropped \in Seq(Lines)
        /\ Terminated \in Seq(Lines) /\ dropped \o rotated \in Seq(Lines) /\ hist \in Seq(Lines)
    <3>1. Terminated \in Seq(Lines)
      BY FrontAndLast DEF TypeOK, TornLast, Terminated
    <3> QED BY <3>1, ConcatProperties DEF TypeOK
  (* A step that writes nothing or tears a line. *)
  <2>a. ASSUME UNCHANGED <<log, open, rotated, dropped>>
        PROVE  TornLast' /\ [History!Record]_hist
    BY <2>a DEF TornLast, Terminated
  <2>b. ASSUME NEW line \in Lines, WriteLine(line), UNCHANGED <<rotated, dropped>>
        PROVE  TornLast' /\ [History!Record]_hist
    <3>1. PICK x \in Lines : Terminated' = Append(Terminated, x)
      BY <2>b, WriteTerminates DEF WriteLine
    <3>2. hist' = Append(hist, x)
      BY <2>0, <2>b, <3>1, AppendToLast
    <3> QED BY <2>b, <3>2 DEF History!Record, TornLast, WriteLine
  <2>c. ASSUME NEW line \in Lines, TearLine(line), UNCHANGED <<rotated, dropped>>
        PROVE  TornLast' /\ [History!Record]_hist
    <3>1. PICK part \in {Garbage, line} : log' = AddLine(part)
      BY <2>c DEF TearLine
    <3>2. part \in Lines /\ open' = TRUE
      BY <2>c, LineTypes DEF TearLine
    <3> QED BY <2>c, <3>1, <3>2, TearTerminates
  <2>1. ASSUME NEW w \in Writers, Write(w) \/ Mark(w) PROVE TornLast' /\ [History!Record]_hist
    <3>1. Marker(w) \in Lines /\ entry[w] \in Lines
      BY <2>1, PendingTypes DEF Write, Mark, At
    <3> QED BY <2>b, <2>1, <3>1 DEF Write, Mark
  <2>2. ASSUME NEW w \in Writers, WriteRaises(w) PROVE TornLast' /\ [History!Record]_hist
    <3>1. Pending(w) \in Lines /\ UNCHANGED <<rotated, dropped>> /\ WriteFails(Pending(w))
      BY <2>2, PendingTypes DEF WriteRaises, At
    <3> QED BY <2>a, <2>b, <2>c, <3>1 DEF WriteFails
  <2>3. ASSUME NEW w \in Writers, CrashMidWrite(w) PROVE TornLast' /\ [History!Record]_hist
    <3>1. Pending(w) \in Lines /\ UNCHANGED <<rotated, dropped>> /\ TearLine(Pending(w))
      BY <2>3, PendingTypes DEF CrashMidWrite, At
    <3> QED BY <2>c, <3>1
  <2>4. ASSUME NEW w \in Writers, Unlink(w) PROVE TornLast' /\ [History!Record]_hist
    <3>1. (dropped \o rotated) \o <<>> = dropped \o rotated
      BY <2>0, ConcatEmptySeq
    <3> QED BY <2>4, <3>1 DEF Unlink, Terminated, TornLast
  <2>5. ASSUME NEW w \in Writers, Rename(w) PROVE TornLast' /\ [History!Record]_hist
    <3>1. hist' = dropped \o rotated \o log /\ TornLast'
      <4>1. dropped \o rotated \o log \o <<>> = dropped \o rotated \o log
        BY <2>0, ConcatProperties, ConcatEmptySeq
      <4> QED BY <2>5, <4>1 DEF Rename, LogMoved, Terminated, TornLast
    <3>2. CASE open
      <4>1. PICK x \in Lines : log = Append(Terminated, x)
        BY <2>0, <3>2, FrontAndLast DEF TornLast, Terminated
      <4>2. dropped \o rotated \o Append(Terminated, x) = Append(hist, x)
        BY <2>0, AppendToLast
      <4>3. hist' = Append(hist, x)
        BY <3>1, <4>1, <4>2
      <4> QED BY <3>1, <4>3 DEF History!Record
    <3>3. CASE ~open
      BY <3>1, <3>3 DEF Terminated
    <3> QED BY <3>2, <3>3
  <2>6. ASSUME NEW w \in Writers,
               \/ Build(w) \/ Advance(w) \/ Touch(w) \/ Return(w)
               \/ StatRaises(w) \/ RenameRaises(w) \/ RotationRaises(w)
        PROVE  UNCHANGED <<log, open, rotated, dropped>>
    BY <2>6 DEF Build, Advance, Touch, Return, StatRaises, RenameRaises, RotationRaises, files
  <2>7. ASSUME NEW p \in Procs, Crash(p) \/ Restart(p)
        PROVE  UNCHANGED <<log, open, rotated, dropped>>
    BY <2>7 DEF Crash, Restart, files
  <2>8. CASE UNCHANGED vars
    BY <2>a, <2>8 DEF vars, files
  <2> QED BY <2>a, <2>1, <2>2, <2>3, <2>4, <2>5, <2>6, <2>7, <2>8
          DEF Next, Serve, Rotate, Fail, Quiescent
<1> QED BY <1>1, <1>2, TypeCorrect, PTL DEF Spec, ImplementsHistory, History!Spec

-----------------------------------------------------------------------------
(* The hashes that can be read back from a file. *)
HashesIn(file) == {h \in Hashes : \E i \in 1 .. Len(file) : file[i].ok /\ file[i].hash = h}

LEMMA ReadableIn ==
  /\ \A h \in Hashes : Readable(h) <=> h \in HashesIn(log) \cup HashesIn(rotated) \cup HashesIn(dropped)
  /\ \A h \in Hashes : Readable(h)' <=>
       h \in HashesIn(log)' \cup HashesIn(rotated)' \cup HashesIn(dropped)'
  BY DEF Readable, HashesIn

LEMMA HashesOfAppend ==
  ASSUME NEW file \in Seq(Lines), NEW line \in Lines
  PROVE  /\ HashesIn(file) \subseteq HashesIn(Append(file, line))
         /\ line.ok => line.hash \in HashesIn(Append(file, line))
<1>1. /\ Len(Append(file, line)) = Len(file) + 1 /\ Len(file) \in Nat
      /\ \A i \in 1 .. Len(file) : Append(file, line)[i] = file[i]
      /\ Append(file, line)[Len(file) + 1] = line
  BY AppendProperties, LenProperties
<1>2. line.hash \in Hashes
  BY LineTypes
<1> QED BY <1>1, <1>2 DEF HashesIn

(* Overwriting the last line loses no hash but its own. *)
LEMMA HashesOfReplace ==
  ASSUME NEW file \in Seq(Lines), file # <<>>
  PROVE  HashesIn(file) \subseteq HashesIn([file EXCEPT ![Len(file)] = Garbage])
            \cup {h \in Hashes : file[Len(file)].ok /\ file[Len(file)].hash = h}
<1> DEFINE new == [file EXCEPT ![Len(file)] = Garbage]
<1>1. Len(file) \in Nat /\ DOMAIN file = 1 .. Len(file)
  BY LenProperties
<1>2. new \in Seq(Lines) /\ DOMAIN new = 1 .. Len(file)
  BY <1>1, AppendLine
<1>3. Len(new) = Len(file)
  BY <1>1, <1>2, LenProperties
<1>4. \A i \in 1 .. Len(file) : i # Len(file) => new[i] = file[i]
  BY <1>1
<1> HIDE DEF new
<1> QED BY <1>3, <1>4 DEF HashesIn, new

LEMMA HashesOfConcat ==
  ASSUME NEW a \in Seq(Lines), NEW b \in Seq(Lines)
  PROVE  HashesIn(a) \cup HashesIn(b) \subseteq HashesIn(a \o b)
<1>1. /\ Len(a \o b) = Len(a) + Len(b) /\ Len(a) \in Nat /\ Len(b) \in Nat
      /\ \A i \in 1 .. Len(a) : (a \o b)[i] = a[i]
      /\ \A i \in Len(a) + 1 .. Len(a) + Len(b) : (a \o b)[i] = b[i - Len(a)]
  BY ConcatProperties, LenProperties
<1>2. ASSUME NEW i \in 1 .. Len(b)
      PROVE  i + Len(a) \in 1 .. Len(a \o b) /\ (a \o b)[i + Len(a)] = b[i]
  BY <1>1
<1>3. HashesIn(b) \subseteq HashesIn(a \o b)
  BY <1>2 DEF HashesIn
<1>4. HashesIn(a) \subseteq HashesIn(a \o b)
  BY <1>1 DEF HashesIn
<1> QED BY <1>3, <1>4

(* Only a line without its newline can be overwritten. *)
LEMMA ReadableStays ==
  ASSUME TypeOK, [Next]_vars, NEW h \in Hashes, Readable(h),
         open => log # <<>> /\ ~(log[Len(log)].ok /\ log[Len(log)].hash = h)
  PROVE  Readable(h)'
<1>0. log \in Seq(Lines) /\ rotated \in Seq(Lines) /\ dropped \in Seq(Lines)
  BY DEF TypeOK
<1>1. ASSUME NEW line \in Lines, UNCHANGED <<rotated, dropped>>, log' = AddLine(line)
      PROVE  Readable(h)'
  <2>1. h \in HashesIn(log) => h \in HashesIn(log)'
    <3>1. CASE open
      <4>1. HashesIn(log)' = HashesIn([log EXCEPT ![Len(log)] = Garbage])
        BY <1>1, <3>1 DEF HashesIn, AddLine
      <4> QED BY <1>0, <3>1, <4>1, HashesOfReplace
    <3>2. CASE ~open
      <4>1. HashesIn(log)' = HashesIn(Append(log, line))
        BY <1>1, <3>2 DEF HashesIn, AddLine
      <4> QED BY <1>0, <4>1, HashesOfAppend
    <3> QED BY <3>1, <3>2
  <2>2. HashesIn(rotated)' = HashesIn(rotated) /\ HashesIn(dropped)' = HashesIn(dropped)
    BY <1>1 DEF HashesIn
  <2> QED BY <2>1, <2>2, ReadableIn
<1>2. ASSUME UNCHANGED <<log, rotated, dropped>> PROVE Readable(h)'
  BY <1>2 DEF Readable
<1>3. ASSUME NEW line \in Lines, UNCHANGED <<rotated, dropped>>,
             WriteLine(line) \/ TearLine(line) \/ WriteFails(line)
      PROVE  Readable(h)'
  <2>1. CASE log' = log
    BY <1>2, <1>3, <2>1
  <2>2. CASE \E part \in {Garbage, line} : log' = AddLine(part)
    BY <1>1, <1>3, <2>2, LineTypes
  <2> QED BY <1>3, <2>1, <2>2 DEF WriteFails, WriteLine, TearLine
<1>4. ASSUME NEW w \in Writers, Write(w) \/ WriteRaises(w) \/ Mark(w) \/ CrashMidWrite(w)
      PROVE  Readable(h)'
  <2>1. entry[w] \in Lines /\ Marker(w) \in Lines /\ Pending(w) \in Lines
    BY <1>4, PendingTypes DEF Write, WriteRaises, Mark, CrashMidWrite, At
  <2> QED BY <1>3, <1>4, <2>1 DEF Write, WriteRaises, Mark, CrashMidWrite
<1>5. ASSUME NEW w \in Writers, Unlink(w) PROVE Readable(h)'
  <2>1. HashesIn(dropped) \cup HashesIn(rotated) \subseteq HashesIn(dropped)'
    <3>1. HashesIn(dropped)' = HashesIn(dropped \o rotated)
      BY <1>5 DEF Unlink, HashesIn
    <3> QED BY <1>0, <3>1, HashesOfConcat
  <2>2. HashesIn(log)' = HashesIn(log)
    BY <1>5 DEF Unlink, HashesIn
  <2> QED BY <2>1, <2>2, ReadableIn
<1>6. ASSUME NEW w \in Writers, Rename(w) PROVE Readable(h)'
  <2>1. HashesIn(dropped) \cup HashesIn(rotated) \subseteq HashesIn(dropped)'
    <3>1. HashesIn(dropped)' = HashesIn(dropped \o rotated)
      BY <1>6 DEF Rename, HashesIn
    <3> QED BY <1>0, <3>1, HashesOfConcat
  <2>2. HashesIn(rotated)' = HashesIn(log)
    BY <1>6 DEF Rename, HashesIn
  <2> QED BY <2>1, <2>2, ReadableIn
<1>7. ASSUME NEW w \in Writers,
             \/ Build(w) \/ Advance(w) \/ Touch(w) \/ Return(w)
             \/ StatRaises(w) \/ RenameRaises(w) \/ RotationRaises(w)
      PROVE  UNCHANGED <<log, rotated, dropped>>
  BY <1>7 DEF Build, Advance, Touch, Return, StatRaises, RenameRaises, RotationRaises, files
<1>8. ASSUME NEW p \in Procs, Crash(p) \/ Restart(p) PROVE UNCHANGED <<log, rotated, dropped>>
  BY <1>8 DEF Crash, Restart, files
<1>9. UNCHANGED vars => UNCHANGED <<log, rotated, dropped>>
  BY DEF vars, files
<1> QED BY <1>2, <1>4, <1>5, <1>6, <1>7, <1>8, <1>9 DEF Next, Serve, Rotate, Fail, Quiescent

-----------------------------------------------------------------------------
(* Every append numbers its entry, and the entry of its rotation, with hashes *)
(* of their own.                                                              *)
IdentInv ==
  /\ \A h \in returned : h < nextHash
  /\ \A w \in Writers : pc[w] # "idle" =>
       /\ entry[w].hash < nextHash /\ entry[w].hash \notin returned
       /\ MarkerHash(w) < nextHash /\ MarkerHash(w) \notin returned
       /\ \A v \in Writers \ {w} : pc[v] # "idle" =>
            entry[v].hash # entry[w].hash /\ entry[v].hash # MarkerHash(w)

(* The hashes of appends that have returned, or may yet return. *)
IsLive(h) == h \in returned \/ \E w \in Writers : pc[w] # "idle" /\ entry[w].hash = h

(* Those whose line has been written, and the ones of them that cannot be read. *)
Written ==
  {h \in Hashes : \/ h \in returned
                  \/ \E w \in Writers : pc[w] \notin {"idle", "write"} /\ entry[w].hash = h}
Lost == {h \in Written : ~Readable(h)}

(* A torn line ends the file, and is of an append that never returns. *)
TornIsDead ==
  open => /\ log # <<>>
          /\ log[Len(log)].ok => log[Len(log)].hash < nextHash /\ ~IsLive(log[Len(log)].hash)

(* Each tear pays for the entry that the torn line may swallow. *)
LossPaid == Cardinality(Lost) + (IF open THEN 1 ELSE 0) <= tears

LossInv == IdentInv /\ TornIsDead /\ LossPaid

LEMMA LostType ==
  ASSUME TypeOK, NEW S \in SUBSET Hashes
  PROVE  IsFiniteSet(S) /\ Cardinality(S) \in Nat
<1>1. IsFiniteSet(Hashes)
  BY FS_Interval, LimitsAssumption DEF Hashes
<1> QED BY <1>1, FS_Subset, FS_CardinalityType

LEMMA InitLoss == Init => LossInv
<1> SUFFICES ASSUME Init PROVE LossInv
  OBVIOUS
<1>1. Lost = {}
  BY DEF Init, Lost, Written
<1>2. Cardinality({}) = 0
  BY FS_EmptySet
<1> QED BY <1>1, <1>2 DEF Init, LossInv, IdentInv, TornIsDead, LossPaid

LEMMA NextIdent ==
  ASSUME TypeOK, IdentInv, [Next]_vars
  PROVE  IdentInv'
<1>0. nextHash \in Nat /\ (\A w \in Writers : entry[w].hash \in Nat) /\ returned \subseteq Nat
  <2>1. MaxEntries + 1 \in Nat /\ Hashes \subseteq Nat
    BY LimitsAssumption DEF Hashes
  <2>2. nextHash \in Nat
    BY <2>1 DEF TypeOK
  <2>3. \A w \in Writers : entry[w].hash \in Hashes
    BY DEF TypeOK, Entries
  <2> QED BY <2>1, <2>2, <2>3 DEF TypeOK
<1>1. ASSUME NEW w \in Writers, Build(w) PROVE IdentInv'
  <2>1. /\ nextHash' = nextHash + 2 /\ returned' = returned /\ pc[w] = "idle"
        /\ entry'[w].hash = nextHash
        /\ \A v \in Writers \ {w} : pc'[v] = pc[v] /\ entry'[v] = entry[v]
    BY <1>1 DEF Build, Goto, At, TypeOK
  <2>2. MarkerHash(w)' = nextHash + 1
        /\ \A v \in Writers \ {w} : MarkerHash(v)' = MarkerHash(v)
    BY <2>1 DEF MarkerHash
  <2>3. \A v \in Writers : MarkerHash(v) = entry[v].hash + 1
    BY DEF MarkerHash
  <2> QED BY <1>0, <2>1, <2>2, <2>3 DEF IdentInv
<1>2. ASSUME NEW w \in Writers, Return(w) PROVE IdentInv'
  <2>1. /\ nextHash' = nextHash /\ returned' = returned \cup {entry[w].hash} /\ pc[w] = "return"
        /\ entry' = entry /\ pc'[w] = "idle"
        /\ \A v \in Writers \ {w} : pc'[v] = pc[v]
    BY <1>2 DEF Return, Goto, At, TypeOK, bounds
  <2>2. \A v \in Writers : MarkerHash(v)' = MarkerHash(v)
    BY <2>1 DEF MarkerHash
  <2> QED BY <1>0, <2>1, <2>2 DEF IdentInv
<1>3. ASSUME UNCHANGED <<nextHash, returned, entry>>,
             \A w \in Writers : pc'[w] # "idle" => pc[w] # "idle"
      PROVE  IdentInv'
  BY <1>3 DEF IdentInv, MarkerHash
<1>4. ASSUME NEW w \in Writers, Write(w) \/ Advance(w) \/ Rotate(w) PROVE IdentInv'
  BY <1>3, <1>4 DEF Write, Advance, Rotate, Unlink, Rename, Touch, Mark, At, Goto, TypeOK, bounds
<1>5. ASSUME NEW w \in Writers, Fail(w) PROVE IdentInv'
  <2>1. Raise(w) /\ pc[w] # "idle"
    BY <1>5 DEF Fail, WriteRaises, StatRaises, RenameRaises, RotationRaises, At
  <2> QED BY <1>3, <2>1, RaiseTypes
<1>6. ASSUME NEW p \in Procs, Kill(p) \/ Restart(p) PROVE IdentInv'
  BY <1>3, <1>6 DEF Kill, Restart, bounds
<1>7. CASE UNCHANGED vars
  BY <1>3, <1>7 DEF vars, bounds
<1>8. ASSUME NEW w \in Writers, CrashMidWrite(w) PROVE IdentInv'
  <2>1. ProcOf[w] \in Procs /\ Kill(ProcOf[w])
    BY <1>8, ProcsAssumption DEF CrashMidWrite
  <2> QED BY <1>6, <2>1
<1> QED BY <1>1, <1>2, <1>4, <1>5, <1>6, <1>7, <1>8 DEF Next, Serve, Crash, Quiescent

(* A step that tears no line leaves a torn line dead. *)
LEMMA TornStays ==
  ASSUME TypeOK, IdentInv, TornIsDead, open' => open /\ UNCHANGED log,
         nextHash' >= nextHash, nextHash' \in Nat,
         \A h \in Hashes : IsLive(h)' => IsLive(h) \/ h >= nextHash
  PROVE  TornIsDead'
<1> SUFFICES ASSUME open', log[Len(log)].ok
             PROVE  log # <<>> /\ log[Len(log)].hash < nextHash' /\ ~IsLive(log[Len(log)].hash)'
  BY DEF TornIsDead, IsLive
<1>1. log # <<>> /\ log[Len(log)].hash < nextHash /\ ~IsLive(log[Len(log)].hash)
  BY DEF TornIsDead
<1>2. Len(log) \in 1 .. Len(log) /\ log \in Seq(Lines)
  BY <1>1, EmptySeq, LenProperties DEF TypeOK
<1>3. log[Len(log)].hash \in Hashes
  BY <1>2, LineTypes, ElementOfSeq
<1> QED BY <1>1, <1>3 DEF Hashes, TypeOK

LEMMA LostShrinks ==
  ASSUME TypeOK, [Next]_vars, TornIsDead, NEW h \in Written, ~Readable(h)'
  PROVE  h \in Lost
<1>1. h \in Hashes /\ IsLive(h)
  BY DEF Written, IsLive
<1>2. open => log # <<>> /\ ~(log[Len(log)].ok /\ log[Len(log)].hash = h)
  BY <1>1 DEF TornIsDead
<1> QED BY <1>1, <1>2, ReadableStays DEF Lost

LEMMA LossStaysPaid ==
  ASSUME TypeOK, LossPaid, Lost' \subseteq Lost, tears' \in Nat,
         \/ tears' = tears /\ (open' => open)
         \/ tears' = tears + 1
  PROVE  LossPaid'
<1>1. Lost \in SUBSET Hashes
  BY DEF Lost, Written
<1>2. IsFiniteSet(Lost) /\ Cardinality(Lost) \in Nat
  BY <1>1, LostType
<1>3. Cardinality(Lost') \in Nat /\ Cardinality(Lost') <= Cardinality(Lost)
  BY <1>2, FS_Subset, FS_CardinalityType
<1>4. tears \in Nat
  BY DEF TypeOK
<1> QED BY <1>2, <1>3, <1>4 DEF LossPaid

(* A step that brings no append past its write. *)
LEMMA NoNewLoss ==
  ASSUME TypeOK, [Next]_vars, LossInv, IdentInv', tears' \in Nat,
         \A w \in Writers : pc'[w] \notin {"idle", "write"} =>
           pc[w] \notin {"idle", "write"} /\ entry'[w] = entry[w],
         returned' = returned, TornIsDead',
         \/ tears' = tears /\ (open' => open)
         \/ tears' = tears + 1
  PROVE  LossInv'
<1>1. \A h : h \in Written' => h \in Written
  BY DEF Written
<1>2. \A h : h \in Lost' => h \in Written /\ ~Readable(h)'
  BY <1>1 DEF Lost
<1>3. \A h : h \in Lost' => h \in Lost
  BY <1>2, LostShrinks DEF LossInv
<1> QED BY <1>3, LossStaysPaid DEF LossInv

LEMMA TornFrame ==
  ASSUME TypeOK, LossInv, open' => open /\ UNCHANGED log, nextHash' = nextHash,
         \A w \in Writers : pc'[w] # "idle" => pc[w] # "idle" /\ entry'[w] = entry[w],
         returned' = returned
  PROVE  TornIsDead'
<1>1. \A h \in Hashes : IsLive(h)' => IsLive(h)
  BY DEF IsLive
<1> QED BY <1>1, TornStays DEF LossInv, TypeOK

(* An entry written behind a torn line is lost, and the tear is used up. *)
LEMMA WriteLoss ==
  ASSUME TypeOK, LossInv, IdentInv', NEW w \in Writers, Write(w)
  PROVE  LossInv'
<1> DEFINE h0 == entry[w].hash
<1>1. /\ log' = IF open THEN [log EXCEPT ![Len(log)] = Garbage] ELSE Append(log, entry[w])
      /\ ~open' /\ tears' = tears /\ entry' = entry /\ returned' = returned
      /\ pc[w] = "write" /\ \A v \in Writers \ {w} : pc'[v] = pc[v]
  BY DEF Write, WriteLine, AddLine, At, Goto, TypeOK
<1>2. entry[w] \in Lines /\ entry[w].ok /\ h0 \in Hashes /\ log \in Seq(Lines)
  BY DEF TypeOK, Lines, Entries
<1>3. \A h : h \in Lost' => h \in Written \cup {h0} /\ ~Readable(h)'
  BY <1>1 DEF Lost, Written
<1>4. \A h : h \in Lost' => h \in Lost \cup {h0}
  BY <1>3, LostShrinks DEF LossInv, Next, Serve
<1>5. TornIsDead'
  BY <1>1 DEF TornIsDead
<1>6. CASE open
  <2>1. Lost \in SUBSET Hashes /\ tears \in Nat
    BY DEF Lost, Written, TypeOK
  <2>2. IsFiniteSet(Lost) /\ Cardinality(Lost) \in Nat
    BY <2>1, LostType
  <2>3. /\ IsFiniteSet(Lost \cup {h0})
        /\ Cardinality(Lost \cup {h0}) = IF h0 \in Lost THEN Cardinality(Lost) ELSE Cardinality(Lost) + 1
    BY <2>2, FS_AddElement
  <2>4. Cardinality(Lost') \in Nat /\ Cardinality(Lost') <= Cardinality(Lost \cup {h0})
    BY <1>4, <2>3, FS_Subset, FS_CardinalityType
  <2>5. Cardinality(Lost') <= Cardinality(Lost) + 1
    BY <2>2, <2>3, <2>4
  <2>6. LossPaid'
    BY <1>1, <1>6, <2>1, <2>2, <2>4, <2>5 DEF LossInv, LossPaid
  <2> QED BY <1>5, <2>6 DEF LossInv
<1>7. CASE ~open
  <2>1. h0 \in HashesIn(log)'
    <3>1. HashesIn(log)' = HashesIn(Append(log, entry[w]))
      BY <1>1, <1>7 DEF HashesIn
    <3> QED BY <1>2, <3>1, HashesOfAppend
  <2>2. Readable(h0)'
    <3>1. PICK i \in 1 .. Len(log') : log'[i].ok /\ log'[i].hash = h0
      BY <1>1, <2>1 DEF HashesIn
    <3> QED BY <1>1, <3>1 DEF Readable
  <2>3. Lost' \subseteq Lost
    <3>1. ASSUME NEW h \in Lost' PROVE h \in Lost
      <4>1. h # h0
        BY <1>1, <1>3, <2>2 DEF Readable
      <4> QED BY <1>4, <4>1
    <3> QED BY <3>1
  <2>4. LossPaid'
    BY <1>1, <2>3, LossStaysPaid DEF LossInv, TypeOK
  <2> QED BY <1>5, <2>4 DEF LossInv
<1> QED BY <1>6, <1>7

(* A torn line is of an append that does not return, because the process is   *)
(* killed or the write raises.                                                *)
LEMMA TearLoss ==
  ASSUME TypeOK, [Next]_vars, LossInv, IdentInv', NEW w \in Writers, pc[w] # "idle",
         TearLine(Pending(w)), UNCHANGED <<entry, returned, nextHash>>,
         \A v \in Writers : pc'[v] # "idle" => pc'[v] = pc[v] /\ v # w
  PROVE  LossInv'
<1>1. PICK part \in {Garbage, Pending(w)} : log' = AddLine(part)
  BY DEF TearLine
<1>2. open' = TRUE /\ tears' = tears + 1
  BY DEF TearLine
<1>3. log \in Seq(Lines) /\ Len(log) \in Nat /\ Garbage \in Lines /\ part \in Lines
  BY LineTypes, LenProperties, PendingTypes DEF TypeOK
<1>4. log' # <<>> /\ log'[Len(log')] \in {Garbage, Pending(w)}
  <2>1. CASE open
    <3>1. log # <<>> /\ log' = [log EXCEPT ![Len(log)] = Garbage]
      BY <1>1, <2>1 DEF LossInv, TornIsDead, AddLine
    <3>2. Len(log) \in 1 .. Len(log) /\ DOMAIN log = 1 .. Len(log)
      BY <1>3, <3>1, EmptySeq, LenProperties
    <3>3. log' \in Seq(Lines) /\ DOMAIN log' = 1 .. Len(log) /\ log'[Len(log)] = Garbage
      BY <1>3, <3>1, <3>2, AppendLine
    <3>4. Len(log') = Len(log)
      BY <1>3, <3>3, LenProperties
    <3> QED BY <3>2, <3>3, <3>4
  <2>2. CASE ~open
    <3>1. log' = Append(log, part)
      BY <1>1, <2>2 DEF AddLine
    <3> QED BY <1>1, <1>3, <3>1, AppendProperties
  <2> QED BY <2>1, <2>2
<1>a. PICK last : last = log'[Len(log')]
  OBVIOUS
<1>5. ASSUME last.ok PROVE last.hash < nextHash /\ ~IsLive(last.hash)'
  <2>1. last.hash \in {entry[w].hash, MarkerHash(w)}
    BY <1>4, <1>a, <1>5 DEF Pending, Marker, Garbage
  <2>2. last.hash < nextHash /\ last.hash \notin returned
    BY <2>1 DEF LossInv, IdentInv
  <2>3. \A v \in Writers : pc'[v] # "idle" => entry[v].hash # last.hash
    BY <2>1 DEF LossInv, IdentInv
  <2> QED BY <2>2, <2>3 DEF IsLive
<1>6. TornIsDead'
  BY <1>2, <1>4, <1>5, <1>a DEF TornIsDead, IsLive
<1>7. tears' \in Nat
  BY <1>2 DEF TypeOK
<1> QED BY <1>2, <1>6, <1>7, NoNewLoss

LEMMA NextLoss ==
  ASSUME TypeOK, LossInv, [Next]_vars
  PROVE  LossInv'
<1>0. IdentInv' /\ tears \in Nat
  BY NextIdent DEF LossInv, TypeOK
<1>1. ASSUME NEW w \in Writers, Build(w) PROVE LossInv'
  <2>1. /\ nextHash' = nextHash + 2 /\ returned' = returned /\ tears' = tears
        /\ open' = open /\ log' = log /\ entry'[w].hash = nextHash /\ pc'[w] = "write"
        /\ \A v \in Writers \ {w} : pc'[v] = pc[v] /\ entry'[v] = entry[v]
    BY <1>1 DEF Build, Goto, At, TypeOK, files
  <2>2. \A h \in Hashes : IsLive(h)' => IsLive(h) \/ h >= nextHash
    <3>1. nextHash >= nextHash
      BY LimitsAssumption DEF TypeOK
    <3> SUFFICES ASSUME NEW h \in Hashes, NEW v \in Writers, pc'[v] # "idle", entry'[v].hash = h
                 PROVE  IsLive(h) \/ h >= nextHash
      BY <2>1 DEF IsLive
    <3>2. CASE v = w
      BY <2>1, <3>1, <3>2
    <3>3. CASE v # w
      BY <2>1, <3>3 DEF IsLive
    <3> QED BY <3>2, <3>3
  <2>3. TornIsDead'
    BY <2>1, <2>2, TornStays DEF LossInv, TypeOK
  <2> QED BY <1>0, <2>1, <2>3, NoNewLoss
<1>2. ASSUME NEW w \in Writers, Write(w) PROVE LossInv'
  BY <1>0, <1>2, WriteLoss
<1>3. ASSUME NEW w \in Writers, Return(w) PROVE LossInv'
  <2>1. /\ returned' = returned \cup {entry[w].hash} /\ entry' = entry /\ nextHash' = nextHash
        /\ tears' = tears /\ open' = open /\ log' = log
        /\ pc[w] = "return" /\ pc'[w] = "idle" /\ \A v \in Writers \ {w} : pc'[v] = pc[v]
    BY <1>3 DEF Return, Goto, At, TypeOK, files, bounds
  <2>2. \A h \in Hashes : IsLive(h)' => IsLive(h)
    BY <2>1 DEF IsLive
  <2>3. TornIsDead'
    BY <2>1, <2>2, TornStays DEF LossInv, TypeOK
  <2>4. \A h : h \in Lost' => h \in Written /\ ~Readable(h)'
    BY <2>1 DEF Lost, Written
  <2>5. Lost' \subseteq Lost
    BY <2>4, LostShrinks DEF LossInv
  <2> QED BY <1>0, <2>1, <2>3, <2>5, LossStaysPaid DEF LossInv
<1>4. ASSUME UNCHANGED <<nextHash, returned, entry, tears>>, open' => open /\ UNCHANGED log,
             \A w \in Writers : /\ pc'[w] # "idle" => pc[w] # "idle"
                                /\ pc'[w] \notin {"idle", "write"} => pc[w] \notin {"idle", "write"}
      PROVE  LossInv'
  <2>1. TornIsDead'
    BY <1>4, TornFrame
  <2> QED BY <1>0, <1>4, <2>1, NoNewLoss
<1>5. ASSUME NEW w \in Writers, Advance(w) \/ Rotate(w) PROVE LossInv'
  <2>1. UNCHANGED <<nextHash, returned, entry, tears>>
    BY <1>5 DEF Advance, Rotate, Unlink, Rename, Touch, Mark, files, bounds
  <2>2. open' => open /\ UNCHANGED log
    BY <1>5 DEF Advance, Rotate, Unlink, Rename, LogMoved, Touch, Mark, WriteLine, files
  <2>3. \A v \in Writers : /\ pc'[v] # "idle" => pc[v] # "idle"
                           /\ pc'[v] \notin {"idle", "write"} => pc[v] \notin {"idle", "write"}
    BY <1>5 DEF Advance, Rotate, Unlink, Rename, Touch, Mark, At, Goto, TypeOK
  <2> QED BY <1>4, <2>1, <2>2, <2>3
(* What a failing operation leaves of the threads. *)
<1>6. ASSUME NEW w \in Writers, Fail(w)
      PROVE  /\ UNCHANGED <<nextHash, returned, entry>> /\ pc[w] # "idle"
             /\ \A v \in Writers : pc'[v] # "idle" => pc'[v] = pc[v] /\ v # w
  <2>1. Raise(w) /\ pc[w] # "idle"
    BY <1>6 DEF Fail, WriteRaises, StatRaises, RenameRaises, RotationRaises, At
  <2> QED BY <2>1, RaiseTypes
<1>7. ASSUME NEW w \in Writers, WriteRaises(w) PROVE LossInv'
  <2>1. WriteFails(Pending(w)) /\ Fail(w)
    BY <1>7 DEF WriteRaises, Fail
  <2>2. CASE UNCHANGED <<log, open, size, tears, damaged>>
    BY <1>4, <1>6, <2>1, <2>2
  <2>3. CASE TearLine(Pending(w))
    BY <1>0, <1>6, <2>1, <2>3, TearLoss
  <2>4. CASE WriteLine(Pending(w)) /\ UNCHANGED tears
    <3>1. ~open'
      BY <2>4 DEF WriteLine
    <3> QED BY <1>4, <1>6, <2>1, <2>4, <3>1
  <2> QED BY <2>1, <2>2, <2>3, <2>4 DEF WriteFails
<1>8. ASSUME NEW w \in Writers, StatRaises(w) \/ RenameRaises(w) \/ RotationRaises(w) PROVE LossInv'
  <2>1. UNCHANGED <<log, open, tears>> /\ Fail(w)
    BY <1>8 DEF StatRaises, RenameRaises, RotationRaises, Fail, files
  <2> QED BY <1>4, <1>6, <2>1
<1>9. ASSUME NEW w \in Writers, CrashMidWrite(w) PROVE LossInv'
  <2>1. /\ UNCHANGED <<nextHash, returned, entry>> /\ pc[w] # "idle" /\ TearLine(Pending(w))
        /\ \A v \in Writers : pc'[v] # "idle" => pc'[v] = pc[v] /\ v # w
    BY <1>9 DEF CrashMidWrite, Kill, At
  <2> QED BY <1>0, <2>1, TearLoss
<1>10. ASSUME NEW p \in Procs, Crash(p) PROVE LossInv'
  BY <1>4, <1>10 DEF Crash, Kill, files
<1>11. ASSUME NEW p \in Procs, Restart(p) PROVE LossInv'
  BY <1>4, <1>11 DEF Restart, bounds
<1>12. CASE UNCHANGED vars
  BY <1>4, <1>12 DEF vars, files, bounds
<1> QED BY <1>1, <1>2, <1>3, <1>5, <1>7, <1>8, <1>9, <1>10, <1>11, <1>12
        DEF Next, Serve, Fail, Quiescent

(* A torn line costs at most one acknowledged entry, the one written behind   *)
(* it: for any number of processes, threads, rotations, kills, restarts and    *)
(* operations that raise in a process that lives on.                           *)
THEOREM LossNeedsTear == Spec => []LossIsBounded
<1>1. TypeOK /\ LossInv /\ [Next]_vars => LossInv'
  BY NextLoss
<1>2. TypeOK /\ LossInv => LossIsBounded
  <2> SUFFICES ASSUME TypeOK, LossInv PROVE LossIsBounded
    OBVIOUS
  <2> DEFINE gone == {h \in returned : ~Readable(h)}
  <2>1. gone \in SUBSET Lost /\ Lost \in SUBSET Hashes
    BY DEF Lost, Written, TypeOK
  <2>2. IsFiniteSet(Lost) /\ Cardinality(Lost) \in Nat
    BY <2>1, LostType
  <2>3. Cardinality(gone) \in Nat /\ Cardinality(gone) <= Cardinality(Lost)
    BY <2>1, <2>2, FS_Subset, FS_CardinalityType
  <2>4. Cardinality(Lost) <= tears /\ tears \in Nat
    BY <2>2 DEF LossInv, LossPaid, TypeOK
  <2> QED BY <2>2, <2>3, <2>4 DEF LossIsBounded
<1> QED BY <1>1, <1>2, InitLoss, TypeCorrect, PTL DEF Spec

-----------------------------------------------------------------------------
(* Only an append that has not yet come to its rotation leaves the file at    *)
(* its limit, or one that was killed or raised on the way.  The entry of a     *)
(* rotation opens a new file.                                                  *)
Limit == MaxBytes + crashes + faults
SizeInv ==
  /\ OwnerDiscipline
  /\ size <= Limit
  /\ \A w \in Writers : pc[w] \in {"advance", "unlink", "rename"} => present
  /\ (\A w \in Writers : pc[w] \notin {"advance", "unlink", "rename"}) => size < Limit
  /\ \A w \in Writers : pc[w] \in {"touch", "mark"} => size = 0

(* One process keeps its file within its limit, but for a line per kill and   *)
(* per operation that raised, provided that the entry of a rotation does not   *)
(* fill a file by itself.                                                      *)
THEOREM SizeStaysBounded ==
  ASSUME \A p, q \in Procs : p = q, MaxBytes > 1
  PROVE  Spec => []SizeIsBounded
<1>1. Init => SizeInv
  BY LimitsAssumption DEF Init, SizeInv, Limit, OwnerDiscipline
<1>2. TypeOK /\ SizeInv /\ [Next]_vars => SizeInv'
  <2> SUFFICES ASSUME TypeOK, SizeInv, [Next]_vars PROVE SizeInv'
    OBVIOUS
  <2>0. MaxBytes \in Nat /\ size \in Nat /\ crashes \in Nat /\ faults \in Nat /\ Limit \in Nat
    BY LimitsAssumption DEF TypeOK, Limit
  <2>o. OwnerDiscipline /\ OwnerDiscipline'
    BY OwnerKept DEF SizeInv
  (* The step of the only thread that is inside append. *)
  <2>a. ASSUME NEW w \in Writers, pc[w] # "idle" PROVE \A v \in Writers : v # w => pc[v] = "idle"
    BY <2>o, <2>a, SoleThread
  (* It leaves append, and pays for the size it leaves. *)
  <2>b. ASSUME \A v \in Writers : pc'[v] = "idle", size' < Limit', size' <= Limit'
        PROVE  SizeInv'
    BY <2>b, <2>o DEF SizeInv
  <2>c. ASSUME NEW w \in Writers, pc[w] # "idle", Raise(w), Fault, size' <= size + 1,
               size' <= size \/ pc[w] \in {"write", "mark"}, size' \in Nat
        PROVE  SizeInv'
    <3>1. \A v \in Writers : pc'[v] = "idle"
      BY <2>a, <2>c, RaiseTypes
    <3>2. crashes' = crashes /\ faults' = faults + 1
      BY <2>c, RaiseTypes, FaultTypes
    <3>3. CASE size' <= size
      <4>1. size' < Limit' /\ size' <= Limit'
        BY <2>0, <2>c, <3>2, <3>3 DEF SizeInv, Limit
      <4> QED BY <2>b, <3>1, <4>1
    <3>4. CASE pc[w] \in {"write", "mark"}
      <4>1. \A v \in Writers : pc[v] \notin {"advance", "unlink", "rename"}
        BY <2>a, <3>4
      <4>2. size < Limit
        BY <4>1 DEF SizeInv
      <4>3. size' < Limit' /\ size' <= Limit'
        BY <2>0, <2>c, <3>2, <4>2 DEF Limit
      <4> QED BY <2>b, <3>1, <4>3
    <3> QED BY <2>c, <3>3, <3>4
  (* A kill. *)
  <2>d. ASSUME NEW p \in Procs, Kill(p), size' \in Nat,
               \/ size' = size
               \/ /\ size' = size + 1
                  /\ \A v \in Writers : pc[v] \notin {"advance", "unlink", "rename"}
        PROVE  SizeInv'
    <3>1. \A v \in Writers : pc'[v] = "idle"
      BY <2>d, ProcsAssumption DEF Kill
    <3>2. crashes' = crashes + 1 /\ faults' = faults
      BY <2>d DEF Kill
    <3>3. size' < Limit' /\ size' <= Limit'
      BY <2>0, <2>d, <3>2 DEF SizeInv, Limit
    <3> QED BY <2>b, <3>1, <3>3
  <2>1. ASSUME NEW w \in Writers, Build(w) PROVE SizeInv'
    <3>a. \A v \in Writers : ProcOf[v] = ProcOf[w] /\ v # NoWriter
      BY ProcsAssumption
    <3>b. lock[ProcOf[w]] = NoWriter
      BY <2>1 DEF Build
    <3>1. \A v \in Writers : pc[v] = "idle" /\ pc'[v] \in {"idle", "write"}
      BY <2>o, <2>1, <3>a, <3>b DEF Build, OwnerDiscipline, Goto, TypeOK
    <3>2. size < Limit /\ UNCHANGED <<size, crashes, faults>>
      BY <2>1, <3>1 DEF Build, SizeInv, files
    <3> QED BY <2>0, <2>o, <3>1, <3>2 DEF SizeInv, Limit
  <2>2. ASSUME NEW w \in Writers, Write(w) PROVE SizeInv'
    <3>1. pc[w] = "write" /\ pc'[w] = "advance" /\ present' = TRUE /\ size' = size + 1
          /\ UNCHANGED <<crashes, faults>>
      BY <2>2 DEF Write, At, Goto, WriteLine, TypeOK, bounds
    <3>2. \A v \in Writers : pc[v] \notin {"advance", "unlink", "rename"}
      BY <2>a, <3>1
    <3>3. size < Limit
      BY <3>2 DEF SizeInv
    <3>4. \A v \in Writers : pc'[v] \in {"idle", "advance"}
      BY <2>a, <2>2, <3>1 DEF Write, Goto, TypeOK
    <3>5. size' <= Limit'
      BY <2>0, <3>1, <3>3 DEF Limit
    <3> QED BY <2>o, <3>1, <3>4, <3>5 DEF SizeInv
  <2>3. ASSUME NEW w \in Writers, WriteRaises(w) PROVE SizeInv'
    <3>1. pc[w] \in {"write", "mark"} /\ Raise(w) /\ Fault /\ size' \in {size, size + 1}
      BY <2>3 DEF WriteRaises, At, WriteFails, TearLine, WriteLine
    <3> QED BY <2>0, <2>c, <3>1
  <2>4. ASSUME NEW w \in Writers, Advance(w) PROVE SizeInv'
    <3>1. /\ pc[w] = "advance" /\ UNCHANGED <<present, size, crashes, faults>>
          /\ pc'[w] = IF RotationDue(lineCount[ProcOf[w]] + 1) THEN "unlink" ELSE "return"
      BY <2>4 DEF Advance, At, Goto, files, TypeOK, bounds
    <3>2. present
      BY <3>1 DEF SizeInv
    <3>3. pc'[w] = "return" => size < Limit
      BY <2>0, <3>1 DEF RotationDue, Limit
    <3>4. \A v \in Writers : pc'[v] \in {"idle", "unlink", "return"}
      BY <2>a, <2>4, <3>1 DEF Advance, Goto, TypeOK
    <3>5. size <= Limit /\ Limit' = Limit
      BY <3>1 DEF SizeInv, Limit
    <3> QED BY <2>o, <3>1, <3>2, <3>3, <3>4, <3>5 DEF SizeInv
  <2>5. ASSUME NEW w \in Writers, StatRaises(w) PROVE SizeInv'
    <3>1. pc[w] = "advance" /\ Raise(w) /\ size' = size
      BY <2>5 DEF StatRaises, At, files
    <3>2. Fault
      BY <2>5, <3>1 DEF StatRaises, SizeInv
    <3> QED BY <2>0, <2>c, <3>1, <3>2
  <2>6. ASSUME NEW w \in Writers, Unlink(w) PROVE SizeInv'
    <3>1. pc[w] = "unlink" /\ pc'[w] = "rename" /\ UNCHANGED <<present, size, crashes, faults>>
      BY <2>6 DEF Unlink, At, Goto, TypeOK, bounds
    <3>2. present /\ size <= Limit /\ Limit' = Limit
      BY <3>1 DEF SizeInv, Limit
    <3>3. \A v \in Writers : pc'[v] \in {"idle", "rename"}
      BY <2>a, <2>6, <3>1 DEF Unlink, Goto, TypeOK
    <3> QED BY <2>o, <3>1, <3>2, <3>3 DEF SizeInv
  <2>7. ASSUME NEW w \in Writers, Rename(w) PROVE SizeInv'
    <3>1. pc[w] = "rename" /\ pc'[w] = "touch" /\ size' = 0 /\ UNCHANGED <<crashes, faults>>
      BY <2>7 DEF Rename, LogMoved, At, Goto, TypeOK, bounds
    <3>2. \A v \in Writers : pc'[v] \in {"idle", "touch"}
      BY <2>a, <2>7, <3>1 DEF Rename, Goto, TypeOK
    <3>3. size' < Limit' /\ size' <= Limit'
      BY <2>0, <3>1 DEF Limit
    <3> QED BY <2>o, <3>1, <3>2, <3>3 DEF SizeInv
  <2>8. ASSUME NEW w \in Writers, RenameRaises(w) PROVE SizeInv'
    BY <2>8 DEF RenameRaises, At, SizeInv
  <2>9. ASSUME NEW w \in Writers, RotationRaises(w) PROVE SizeInv'
    <3>1. pc[w] # "idle" /\ Raise(w) /\ Fault /\ size' = size
      BY <2>9 DEF RotationRaises, At
    <3> QED BY <2>0, <2>c, <3>1
  <2>10. ASSUME NEW w \in Writers, Touch(w) PROVE SizeInv'
    <3>1. pc[w] = "touch" /\ UNCHANGED <<size, crashes, faults>>
      BY <2>10 DEF Touch, At, bounds
    <3>2. size = 0 /\ \A v \in Writers : pc'[v] \in {"idle", "mark"}
      BY <2>a, <2>10, <3>1 DEF Touch, Goto, TypeOK, SizeInv
    <3>3. size' < Limit' /\ size' <= Limit'
      BY <2>0, <3>1, <3>2 DEF Limit
    <3> QED BY <2>o, <3>1, <3>2, <3>3 DEF SizeInv
  <2>11. ASSUME NEW w \in Writers, Mark(w) PROVE SizeInv'
    <3>1. pc[w] = "mark" /\ pc'[w] = "return" /\ size' = size + 1 /\ UNCHANGED <<crashes, faults>>
      BY <2>11 DEF Mark, At, Goto, WriteLine, TypeOK, bounds
    <3>2. size = 0 /\ \A v \in Writers : pc'[v] \in {"idle", "return"}
      BY <2>a, <2>11, <3>1 DEF Mark, Goto, TypeOK, SizeInv
    <3>3. size' < Limit' /\ size' <= Limit'
      BY <2>0, <3>1, <3>2 DEF Limit
    <3> QED BY <2>o, <3>2, <3>3 DEF SizeInv
  <2>12. ASSUME NEW w \in Writers, Return(w) PROVE SizeInv'
    <3>1. pc[w] = "return" /\ pc'[w] = "idle" /\ UNCHANGED <<size, crashes, faults>>
      BY <2>12 DEF Return, At, Goto, TypeOK, files, bounds
    <3>2. \A v \in Writers : pc[v] \notin {"advance", "unlink", "rename"} /\ pc'[v] = "idle"
      BY <2>a, <2>12, <3>1 DEF Return, Goto, TypeOK
    <3>3. size' < Limit' /\ size' <= Limit'
      BY <2>0, <3>1, <3>2 DEF SizeInv, Limit
    <3> QED BY <2>b, <3>2, <3>3
  <2>13. ASSUME NEW w \in Writers, CrashMidWrite(w) PROVE SizeInv'
    <3>1. pc[w] \in {"write", "mark"} /\ size' = size + 1 /\ Kill(ProcOf[w]) /\ ProcOf[w] \in Procs
      BY <2>13, ProcsAssumption DEF CrashMidWrite, TearLine, At
    <3>2. \A v \in Writers : pc[v] \notin {"advance", "unlink", "rename"}
      BY <2>a, <3>1
    <3> QED BY <2>0, <2>d, <3>1, <3>2
  <2>14. ASSUME NEW p \in Procs, Crash(p) PROVE SizeInv'
    BY <2>0, <2>d, <2>14 DEF Crash, files
  <2>15. ASSUME NEW p \in Procs, Restart(p) PROVE SizeInv'
    <3>1. present' = TRUE /\ UNCHANGED <<size, crashes, faults, pc>>
      BY <2>15 DEF Restart, bounds
    <3>2. Limit' = Limit
      BY <3>1 DEF Limit
    <3> QED BY <2>o, <3>1, <3>2 DEF SizeInv
  <2>16. CASE UNCHANGED vars
    <3>1. UNCHANGED <<present, size, crashes, faults, pc>> /\ Limit' = Limit
      BY <2>16 DEF vars, files, bounds, Limit
    <3> QED BY <2>o, <3>1 DEF SizeInv
  <2> QED BY <2>1, <2>2, <2>3, <2>4, <2>5, <2>6, <2>7, <2>8, <2>9, <2>10, <2>11, <2>12, <2>13,
             <2>14, <2>15, <2>16 DEF Next, Serve, Rotate, Fail, Quiescent
<1>3. SizeInv => SizeIsBounded
  BY DEF SizeInv, SizeIsBounded, Limit
<1> QED BY <1>1, <1>2, <1>3, TypeCorrect, PTL DEF Spec
=============================================================================
