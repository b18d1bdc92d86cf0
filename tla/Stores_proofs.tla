---------------------------- MODULE Stores_proofs ----------------------------
(***************************************************************************)
(* The safety of the stores for every number of processes, threads, keys,   *)
(* operations, failing saves and kills.                                      *)
(***************************************************************************)
EXTENDS Stores, TLAPS

Saving == {"write", "fill", "replace"}
Le(d, e) == \A k \in Keys : d[k].n <= e[k].n
Recent(d) == \A k \in Keys : d[k].n <= ops
Holds(d, o) == \A k \in Touched(o) : d[k].n >= o.n

(* Where the threads of each kind of store can be. *)
PlaceInv ==
  /\ \A t \in Threads :
       /\ pc[t] \in IF kind = "sqlite" THEN {"idle", "again", "half", "commit"}
                    ELSE {"idle", "write", "fill", "replace", "return"}
       /\ pc[t] \in Saving \cup {"return", "commit"} => op[t] \in Ops /\ op[t].n <= ops
       /\ ~up[Owner(t)] => pc[t] = "idle"
  /\ writer # NoProc => kind = "sqlite" /\ up[writer]
  /\ kind # "sqlite" => \A p \in Procs : p = Home \/ up[p]

(* The disk holds what has been acknowledged. *)
DiskInv ==
  /\ disk.whole /\ Recent(disk.data)
  /\ AckedAreOnDisk

(* What is on its way to the disk is as new as what is there. *)
DraftInv ==
  \A t \in Threads :
    /\ pc[t] \in Saving =>
         Le(disk.data, draft[t]) /\ Recent(draft[t]) /\ Holds(draft[t], op[t])
    /\ pc[t] = "replace" => tmp = [whole |-> TRUE, data |-> draft[t]]

(* So is what a transaction holds. *)
SqlInv == writer # NoProc => Le(disk.data, mem[writer]) /\ Recent(mem[writer])

(* An operation that is about to return has reached the disk, or will with   *)
(* the commit that is left, unless another thread has rolled it back.         *)
DoneInv ==
  \A t \in Threads :
    /\ pc[t] = "return" => Holds(disk.data, op[t])
    /\ pc[t] = "commit" => op[t].n \in undone \/ Holds(View(ProcOf[t]), op[t])

(* The memory of the process is ahead of the file only while it is saved, or *)
(* after a save that failed.                                                  *)
MemoryInv ==
  InMemory =>
    /\ up[Home] => Le(disk.data, mem[Home]) /\ Recent(mem[Home])
    /\ \A t \in Threads :
         /\ pc[t] \in Saving => draft[t] = mem[Home]
         /\ pc[t] = "return" => mem[Home] = disk.data

StoreInv == TypeOK /\ PlaceInv /\ DiskInv /\ DraftInv /\ DoneInv /\ SqlInv /\ MemoryInv /\ MemoryIsSaved

Serving == {"write", "fill", "replace", "return"}

LEMMA EmptyType == Empty \in Dicts /\ NoTmp \in Files /\ NoOp \notin Ops
  BY StoreAssumption DEF Empty, Dicts, Values, NoTmp, Files, NoOp, Ops

LEMMA InitStoreInv == Init => StoreInv
  <1> SUFFICES ASSUME Init PROVE StoreInv
    OBVIOUS
  <1>1. TypeOK
    <2>1. up \in [Procs -> BOOLEAN] /\ unsaved \in BOOLEAN
      BY Zenon DEF Init
    <2>2. disk \in Files /\ tmp \in Files /\ mem \in [Procs -> Dicts]
      BY EmptyType DEF Init, Files
    <2> QED
      BY <2>1, <2>2, EmptyType, StoreAssumption DEF Init, TypeOK
  <1>2. PlaceInv /\ DiskInv /\ DraftInv /\ DoneInv /\ SqlInv
    BY DEF Init, PlaceInv, DiskInv, AckedAreOnDisk, DraftInv, DoneInv, SqlInv, Saving, Recent, Empty
  <1>3. MemoryInv /\ MemoryIsSaved
    BY StoreAssumption DEF Init, MemoryInv, MemoryIsSaved, Le, Recent, Empty
  <1> QED BY <1>1, <1>2, <1>3 DEF StoreInv

(* What the operations make of a dictionary. *)
LEMMA ChangedType ==
  ASSUME NEW d \in Dicts, NEW o \in Ops
  PROVE  Changed(d, o) \in Dicts /\ Touched(o) \subseteq Keys
  BY StoreAssumption DEF Changed, Dicts, Values, Ops, Touched

LEMMA ChangedIsNewer ==
  ASSUME NEW d \in Dicts, NEW o \in Ops, \A k \in Keys : d[k].n < o.n
  PROVE  Le(d, Changed(d, o)) /\ Holds(Changed(d, o), o)
         /\ \A k \in Keys : Changed(d, o)[k].n <= o.n
  BY DEF Changed, Dicts, Values, Ops, Touched, Le, Holds

(* One thread at a time is inside an operation on a JSON store. *)
LEMMA OneServed ==
  ASSUME TypeOK, NEW t \in Threads, pc[t] \in Serving, NEW u \in Threads, u # t
  PROVE  pc[u] \notin Serving
  BY DEF TypeOK, Serving

(* What a transaction reads is as new as the disk. *)
LEMMA ViewIsNewer ==
  ASSUME TypeOK, DiskInv, SqlInv, NEW p \in Procs, writer \in {NoProc, p}
  PROVE  View(p) \in Dicts /\ Le(disk.data, View(p)) /\ Recent(View(p))
  <1>1. CASE writer = p
    BY <1>1, StoreAssumption DEF View, TypeOK, SqlInv
  <1>2. CASE writer # p
    <2>1. View(p) = disk.data /\ disk.data \in Dicts
      BY <1>2 DEF View, TypeOK, Files
    <2> QED
      BY <2>1, StoreAssumption DEF DiskInv, Le, Dicts, Values
  <1> QED BY <1>1, <1>2

LEMMA NextStoreInv == StoreInv /\ [Next]_vars => StoreInv'
  <1> SUFFICES ASSUME StoreInv, [Next]_vars PROVE StoreInv'
    OBVIOUS
  <1> USE DEF StoreInv
  <1>1. ASSUME NEW t \in Threads, Write(t) PROVE StoreInv'
    <2>1. TypeOK'
      BY <1>1, EmptyType, OneServed, StoreAssumption DEF Write, OpenTmp, At, Goto, file, bounds, TypeOK, PlaceInv, Files, Saving, Serving, Ops
    <2>2. PlaceInv'
      BY <1>1, EmptyType, OneServed DEF Write, OpenTmp, At, Goto, file, bounds, TypeOK, PlaceInv, Owner, Saving
    <2>3. DiskInv'
      BY <1>1 DEF Write, OpenTmp, bounds, DiskInv, AckedAreOnDisk, Recent
    <2>4. DraftInv'
      BY <1>1, OneServed DEF Write, OpenTmp, At, Goto, bounds, DraftInv, Saving, Serving, Recent, Holds, Touched, InMemory
    <2>5. DoneInv'
      BY <1>1, OneServed DEF Write, At, Goto, PlaceInv, DoneInv, Serving
    <2>6. SqlInv'
      BY <1>1 DEF Write, OpenTmp, bounds, SqlInv, Recent
    <2>7. MemoryInv'
      BY <1>1 DEF Write, OpenTmp, At, Goto, bounds, MemoryInv, Saving, Recent, InMemory
    <2>8. MemoryIsSaved'
      BY <1>1, StoreAssumption DEF Write, At, TypeOK, MemoryIsSaved, Free
    <2> QED BY <2>1, <2>2, <2>3, <2>4, <2>5, <2>6, <2>7, <2>8
  <1>2. ASSUME NEW t \in Threads, Fill(t) PROVE StoreInv'
    <2>1. TypeOK'
      BY <1>2 DEF Fill, At, Goto, bounds, TypeOK, Files
    <2>2. PlaceInv'
      BY <1>2 DEF Fill, At, Goto, bounds, PlaceInv, Owner, Saving
    <2>3. DiskInv'
      BY <1>2 DEF Fill, bounds, DiskInv, AckedAreOnDisk, Recent
    <2>4. DraftInv'
      BY <1>2, OneServed DEF Fill, At, Goto, file, bounds, TypeOK, PlaceInv, DiskInv, DraftInv, Saving, Serving, Le, Recent, Holds, Touched, InMemory, Files, Dicts, Values
    <2>5. DoneInv'
      BY <1>2 DEF Fill, At, Goto, TypeOK, DoneInv, Holds, Touched, View, InMemory
    <2>6. SqlInv'
      BY <1>2 DEF Fill, bounds, SqlInv, Recent
    <2>7. MemoryInv'
      BY <1>2 DEF Fill, At, Goto, bounds, MemoryInv, Saving, Recent, InMemory
    <2>8. MemoryIsSaved'
      BY <1>2 DEF Fill, MemoryIsSaved, Free, InMemory
    <2> QED BY <2>1, <2>2, <2>3, <2>4, <2>5, <2>6, <2>7, <2>8
  <1>3. ASSUME NEW t \in Threads, Replace(t) PROVE StoreInv'
    <2>1. TypeOK'
      BY <1>3, EmptyType, OneServed, StoreAssumption DEF Replace, At, Goto, file, bounds, TypeOK, PlaceInv, Files, Saving, Serving, Ops
    <2>2. PlaceInv'
      BY <1>3, EmptyType, OneServed DEF Replace, At, Goto, file, bounds, TypeOK, PlaceInv, Owner, Saving
    <2>3. DiskInv'
      BY <1>3 DEF Replace, At, bounds, TypeOK, DiskInv, AckedAreOnDisk, DraftInv, Saving, Le, Recent, Files, Dicts, Values
    <2>4. DraftInv'
      BY <1>3 DEF Replace, At, Goto, TypeOK, DraftInv, Saving
    <2>5. DoneInv'
      BY <1>3, OneServed DEF Replace, At, Goto, PlaceInv, DraftInv, DoneInv, Saving, Serving, Holds, Touched, InMemory
    <2>6. SqlInv'
      BY <1>3 DEF Replace, At, Goto, file, bounds, TypeOK, PlaceInv, DiskInv, SqlInv, Saving, Le, Recent, Files, Dicts, Values
    <2>7. MemoryInv'
      BY <1>3, OneServed DEF Replace, At, Goto, file, bounds, TypeOK, PlaceInv, DiskInv, DraftInv, MemoryInv, Saving, Serving, Le, Recent, InMemory, Dicts, Values
    <2>8. MemoryIsSaved'
      BY <1>3, StoreAssumption DEF Replace, At, TypeOK, MemoryIsSaved, Free
    <2> QED BY <2>1, <2>2, <2>3, <2>4, <2>5, <2>6, <2>7, <2>8
  <1>4. ASSUME NEW t \in Threads, SaveFails(t) PROVE StoreInv'
    <2>1. TypeOK'
      BY <1>4, EmptyType, StoreAssumption DEF SaveFails, Leave, Goto, file, TypeOK
    <2>2. PlaceInv'
      BY <1>4 DEF SaveFails, Leave, Goto, TypeOK, PlaceInv, Saving
    <2>3. DiskInv'
      BY <1>4 DEF SaveFails, file, DiskInv, AckedAreOnDisk, Recent
    <2>4. DraftInv'
      BY <1>4 DEF SaveFails, Leave, Goto, TypeOK, DraftInv, Saving
    <2>5. DoneInv'
      BY <1>4 DEF SaveFails, Leave, Goto, file, DoneInv, Holds, Touched, View, InMemory
    <2>6. SqlInv'
      BY <1>4 DEF SaveFails, file, SqlInv, Recent
    <2>7. MemoryInv'
      BY <1>4 DEF SaveFails, Leave, Goto, file, TypeOK, MemoryInv, Saving, Recent, InMemory
    <2>8. MemoryIsSaved'
      BY <1>4 DEF SaveFails, MemoryIsSaved
    <2> QED BY <2>1, <2>2, <2>3, <2>4, <2>5, <2>6, <2>7, <2>8
  <1>5. ASSUME NEW t \in Threads, Return(t) PROVE StoreInv'
    <2>1. TypeOK'
      BY <1>5, EmptyType DEF Return, Leave, Ack, At, Goto, file, bounds, TypeOK, PlaceInv, Ops
    <2>2. PlaceInv'
      BY <1>5 DEF Return, Leave, Goto, bounds, TypeOK, PlaceInv, Owner, Saving
    <2>3. DiskInv'
      BY <1>5 DEF Return, Ack, At, file, bounds, DiskInv, AckedAreOnDisk, DoneInv, Recent, Holds
    <2>4. DraftInv'
      BY <1>5 DEF Return, Leave, Goto, file, bounds, TypeOK, DraftInv, Saving, Recent, Holds, Touched, InMemory
    <2>5. DoneInv'
      BY <1>5, OneServed DEF Return, Leave, Goto, file, TypeOK, DoneInv, Holds, Touched, View, InMemory, Files
    <2>6. SqlInv'
      BY <1>5 DEF Return, file, bounds, SqlInv, Recent
    <2>7. MemoryInv'
      BY <1>5 DEF Return, Leave, Goto, file, bounds, TypeOK, MemoryInv, Saving, Recent, InMemory
    <2>8. MemoryIsSaved'
      BY <1>5 DEF Return, At, file, MemoryInv, MemoryIsSaved, InMemory
    <2> QED BY <2>1, <2>2, <2>3, <2>4, <2>5, <2>6, <2>7, <2>8
  <1>6. ASSUME NEW t \in Threads, NEW name \in {"set", "update", "delete"}, NEW k \in Keys,
               Begin(t, name, k)
        PROVE  StoreInv'
    <2> DEFINE base == IF InMemory THEN mem[Home] ELSE disk.data
               o == op'[t]
               d == Changed(base, o)
    <2>1. /\ o \in Ops /\ o.n = ops + 1 /\ ops' = ops + 1 /\ ops < MaxOps
          /\ op' = [op EXCEPT ![t] = o] /\ kind # "sqlite" /\ up[Home]
      BY <1>6, StoreAssumption DEF Begin, NewOp, Ops, TypeOK, Owner
    <2>2. base \in Dicts /\ Le(disk.data, base) /\ Recent(base)
      BY <2>1, StoreAssumption DEF TypeOK, DiskInv, MemoryInv, Le, Files, Dicts, Values
    <2>3. \A i \in Keys : base[i].n < o.n
      BY <2>1, <2>2 DEF Recent, Dicts, Values, TypeOK
    <2>4. /\ d \in Dicts /\ Le(base, d) /\ Holds(d, o) /\ Touched(o) \subseteq Keys
          /\ \A i \in Keys : d[i].n <= o.n
      BY <2>1, <2>2, <2>3, ChangedType, ChangedIsNewer
    <2>5. Le(disk.data, d)
      BY <2>2, <2>4 DEF Le, Dicts, Values, TypeOK, Files
    <2>6. /\ draft' = [draft EXCEPT ![t] = d] /\ pc' = [pc EXCEPT ![t] = "write"]
          /\ mem' = IF InMemory THEN [mem EXCEPT ![Home] = d] ELSE mem
          /\ lock' = t /\ lock = NoThread /\ pc[t] = "idle"
          /\ UNCHANGED <<kind, disk, tmp, writer, up, unsaved, acked, undone, faults, crashes>>
      BY <1>6 DEF Begin, AfterChange, Goto, At, Free, file
    <2>7. \A u \in Threads : pc[u] \notin Serving
      BY <2>6, StoreAssumption DEF TypeOK, Serving
    <2> HIDE DEF base, o, d
    <2>8. TypeOK'
      BY <2>1, <2>4, <2>6, StoreAssumption DEF TypeOK
    <2>9. PlaceInv'
      BY <2>1, <2>6, StoreAssumption DEF TypeOK, PlaceInv, Owner, Saving
    <2>10. DiskInv'
      BY <2>1, <2>6 DEF TypeOK, DiskInv, AckedAreOnDisk, Recent, Files, Dicts, Values
    <2>11. DraftInv'
      BY <2>1, <2>4, <2>5, <2>6 DEF TypeOK, DraftInv, Recent, Holds, Touched, InMemory, Dicts, Values
    <2>12. DoneInv'
      BY <2>1, <2>6 DEF PlaceInv, DoneInv, Holds, Touched, InMemory
    <2>13. SqlInv'
      BY <2>1, <2>6 DEF PlaceInv, SqlInv
    <2>14. MemoryInv'
      BY <2>1, <2>4, <2>5, <2>6, StoreAssumption DEF TypeOK, MemoryInv, Saving, Recent, InMemory
    <2>15. MemoryIsSaved'
      BY <2>1, <2>6, StoreAssumption DEF MemoryIsSaved, Free
    <2> QED BY <2>8, <2>9, <2>10, <2>11, <2>12, <2>13, <2>14, <2>15
  <1>7. CASE Reset
    <2> DEFINE gone == [k \in Keys |-> [n |-> ops + 1, live |-> FALSE]]
    <2>1. /\ kind = "checkpoint" /\ ops < MaxOps /\ ops' = ops + 1
          /\ \A t \in Threads : pc[t] = "idle"
          /\ disk' = [disk EXCEPT !.data = gone] /\ acked' = [k \in Keys |-> acked[k] \cup {ops + 1}]
          /\ UNCHANGED <<kind, mem, tmp, lock, writer, up, pc, op, draft, unsaved, undone, faults, crashes>>
      BY <1>7 DEF Reset, At
    <2>2. gone \in Dicts /\ \A k \in Keys : gone[k].n = ops + 1
      BY <2>1, StoreAssumption DEF TypeOK, Dicts, Values
    <2> HIDE DEF gone
    <2>3. disk' \in Files /\ disk'.data = gone /\ disk'.whole = disk.whole
      BY <2>1, <2>2 DEF TypeOK, Files
    <2>4. TypeOK'
      <3>1. UNCHANGED <<up, unsaved>>
        BY <2>1
      <3> QED
        BY <2>1, <2>3, <3>1, StoreAssumption DEF TypeOK
    <2>5. PlaceInv'
      BY <2>1 DEF PlaceInv, Owner, Saving
    <2>6. DiskInv'
      <3>1. Recent(disk.data)' /\ disk'.whole
        BY <2>1, <2>2, <2>3 DEF DiskInv, Recent, TypeOK
      <3>2. ASSUME NEW k \in Keys, NEW n \in acked'[k] PROVE disk'.data[k].n >= n \/ n \in undone'
        <4>1. disk'.data[k].n = ops + 1 /\ undone' = undone /\ ops \in Nat
          BY <2>1, <2>2, <2>3 DEF TypeOK
        <4>2. CASE n = ops + 1
          BY <4>1, <4>2
        <4>3. CASE n # ops + 1
          <5>1. n \in acked[k] /\ n \in Nat
            BY <2>1, <4>3 DEF TypeOK
          <5>2. disk.data[k].n \in Nat /\ disk.data[k].n <= ops
            BY DEF DiskInv, Recent, TypeOK, Files, Dicts, Values
          <5> QED
            BY <4>1, <5>1, <5>2 DEF DiskInv, AckedAreOnDisk
        <4> QED BY <4>2, <4>3
      <3> QED BY <3>1, <3>2 DEF DiskInv, AckedAreOnDisk
    <2>7. DraftInv' /\ DoneInv' /\ MemoryInv' /\ MemoryIsSaved'
      BY <2>1 DEF DraftInv, DoneInv, MemoryInv, MemoryIsSaved, InMemory, Saving
    <2>8. SqlInv'
      BY <2>1 DEF SqlInv, PlaceInv
    <2> QED BY <2>4, <2>5, <2>6, <2>7, <2>8
  <1>8. ASSUME NEW t \in Threads, FirstStatement(t) PROVE StoreInv'
    <2> DEFINE p == ProcOf[t]
    <2>1. /\ kind = "sqlite" /\ pc[t] = "idle" /\ up[p] /\ writer \in {NoProc, p} /\ p \in Procs
          /\ mem' = [mem EXCEPT ![p] = View(p)] /\ writer' = p /\ pc' = [pc EXCEPT ![t] = "again"]
          /\ UNCHANGED <<kind, disk, tmp, lock, up, op, draft, unsaved, acked, undone, ops, faults, crashes>>
      BY <1>8, StoreAssumption DEF FirstStatement, At, Goto, file, bounds
    <2>2. View(p) \in Dicts /\ Le(disk.data, View(p)) /\ Recent(View(p))
      BY <2>1, ViewIsNewer
    <2>3. TypeOK'
      <3>1. UNCHANGED <<up, unsaved>>
        BY <2>1
      <3> QED
        BY <2>1, <2>2, <3>1 DEF TypeOK
    <2>4. PlaceInv'
      BY <2>1 DEF TypeOK, PlaceInv, Owner, Saving
    <2>5. mem'[p] = View(p)
      BY <2>1 DEF TypeOK
    <2>6. DiskInv' /\ SqlInv'
      BY <2>1, <2>2, <2>5 DEF DiskInv, AckedAreOnDisk, SqlInv, Recent
    <2>7. DraftInv'
      BY <2>1 DEF DraftInv, PlaceInv, Saving, TypeOK
    <2>8. DoneInv'
      <3> SUFFICES ASSUME NEW u \in Threads, pc'[u] = "commit" PROVE (op[u].n \in undone \/ Holds(View(ProcOf[u]), op[u]))'
        BY <2>1 DEF DoneInv, PlaceInv, TypeOK
      <3>1. pc[u] = "commit" /\ ProcOf[u] \in Procs
        BY <2>1, StoreAssumption DEF TypeOK
      <3>2. View(ProcOf[u])' = View(ProcOf[u])
        <4>1. CASE ProcOf[u] = p
          BY <2>1, <2>5, <4>1 DEF View
        <4>2. CASE ProcOf[u] # p
          BY <2>1, <3>1, <4>2, StoreAssumption DEF View
        <4> QED BY <4>1, <4>2
      <3> QED
        BY <2>1, <3>1, <3>2 DEF DoneInv, Holds, Touched, InMemory
    <2>9. MemoryInv' /\ MemoryIsSaved'
      BY <2>1 DEF MemoryInv, MemoryIsSaved, InMemory
    <2> QED BY <2>3, <2>4, <2>6, <2>7, <2>8, <2>9
  <1>9. ASSUME NEW t \in Threads, NEW name \in {"set", "update", "delete"}, NEW k \in Keys,
               Statement(t, name, k) \/ SecondStatement(t, name, k)
        PROVE  StoreInv'
    <2> DEFINE p == ProcOf[t]
               o == [name |-> name, key |-> k, n |-> ops + 1]
    <2>1. /\ ops' = ops + 1 /\ ops < MaxOps /\ op' = [op EXCEPT ![t] = o] /\ p \in Procs
          /\ pc[t] \in {"idle", "again", "half"} /\ kind = "sqlite" /\ up[p]
      BY <1>9, StoreAssumption DEF Statement, SecondStatement, NewOp, Owner, At, PlaceInv
    <2>2. o \in Ops /\ o.n = ops + 1 /\ op'[t] = o /\ ops + 1 \in 0 .. MaxOps
      BY <2>1, StoreAssumption DEF Ops, TypeOK
    <2> HIDE DEF o
    <2>3. PICK d \in {View(p), Changed(View(p), o)} :
            /\ mem' = [mem EXCEPT ![p] = d]
            /\ (d = Changed(View(p), o) /\ undone' = undone) \/ undone' = undone \cup {o.n}
      <3>1. CASE Statement(t, name, k)
        BY <2>2, <3>1 DEF Statement
      <3>2. CASE SecondStatement(t, name, k)
        BY <2>2, <3>2 DEF SecondStatement
      <3> QED BY <1>9, <3>1, <3>2
    <2>30. /\ pc' = [pc EXCEPT ![t] = "commit"]
           /\ writer \in {NoProc, p} /\ writer' = p
           /\ UNCHANGED <<kind, disk, tmp, lock, up, draft, unsaved, acked, faults, crashes>>
           /\ undone' \in SUBSET (0 .. MaxOps) /\ undone \subseteq undone'
      BY <1>9, <2>2, <2>3 DEF Statement, SecondStatement, Goto, file, TypeOK
    <2>4. View(p) \in Dicts /\ Le(disk.data, View(p)) /\ Recent(View(p))
      BY <2>1, <2>3, <2>30, ViewIsNewer
    <2>5. /\ d \in Dicts /\ Le(View(p), d) /\ Touched(o) \subseteq Keys
          /\ o.n \in undone' \/ Holds(d, o)
          /\ \A i \in Keys : d[i].n <= o.n
      <3>1. \A i \in Keys : View(p)[i].n < o.n
        BY <2>2, <2>4 DEF Recent, Dicts, Values, TypeOK
      <3> QED
        <4>1. /\ Changed(View(p), o) \in Dicts /\ Touched(o) \subseteq Keys
              /\ Le(View(p), Changed(View(p), o)) /\ Holds(Changed(View(p), o), o)
              /\ \A i \in Keys : Changed(View(p), o)[i].n <= o.n
          BY <2>2, <2>4, <3>1, ChangedType, ChangedIsNewer
        <4>2. CASE d = Changed(View(p), o)
          BY <2>3, <2>30, <4>1, <4>2
        <4>3. CASE d = View(p) /\ o.n \in undone'
          BY <2>2, <2>4, <3>1, <4>1, <4>3 DEF Le, Dicts, Values, TypeOK
        <4> QED BY <2>3, <2>30, <4>2, <4>3
    <2>6. Le(disk.data, d)
      BY <2>4, <2>5 DEF Le, Dicts, Values, TypeOK, Files
    <2>7. TypeOK'
      <3>1. UNCHANGED <<up, unsaved>>
        BY <2>3, <2>30
      <3> QED
        BY <2>1, <2>2, <2>3, <2>30, <2>5, <3>1, StoreAssumption DEF TypeOK
    <2>8. PlaceInv'
      <3> SUFFICES ASSUME NEW u \in Threads
                   PROVE  /\ pc'[u] \in {"idle", "again", "half", "commit"}
                          /\ pc'[u] = "commit" => op'[u] \in Ops /\ op'[u].n <= ops'
                          /\ ~up[ProcOf[u]] => pc'[u] = "idle"
        BY <2>1, <2>3, <2>30 DEF PlaceInv, Owner, Saving
      <3>1. CASE u = t
        BY <2>1, <2>2, <2>3, <2>30, <3>1 DEF TypeOK, Ops
      <3>2. CASE u # t
        BY <2>1, <2>3, <2>30, <3>2 DEF PlaceInv, Owner, TypeOK, Ops
      <3> QED BY <3>1, <3>2
    <2>9. mem'[p] = d
      BY <2>1, <2>3, <2>30 DEF TypeOK
    <2>10. DiskInv' /\ SqlInv'
      BY <2>1, <2>2, <2>3, <2>30, <2>5, <2>6 DEF DiskInv, AckedAreOnDisk, SqlInv, Recent, TypeOK, Files, Dicts, Values
    <2>11. DraftInv'
      BY <2>1, <2>3, <2>30 DEF DraftInv, PlaceInv, Saving, TypeOK
    <2>12. DoneInv'
      <3> SUFFICES ASSUME NEW u \in Threads, pc'[u] = "commit" PROVE (op[u].n \in undone \/ Holds(View(ProcOf[u]), op[u]))'
        BY <2>1, <2>3, <2>30 DEF DoneInv, PlaceInv, TypeOK
      <3>1. CASE u = t
        BY <2>1, <2>2, <2>3, <2>30, <2>5, <2>9, <3>1, StoreAssumption DEF Holds, View, Touched, InMemory
      <3>2. CASE u # t
        <4>1. pc[u] = "commit" /\ ProcOf[u] \in Procs /\ op'[u] = op[u] /\ op[u] \in Ops
          BY <2>1, <2>3, <2>30, <3>2, StoreAssumption DEF TypeOK, PlaceInv, Saving
        <4>2. Touched(op[u])' = Touched(op[u]) /\ Touched(op[u]) \subseteq Keys
          BY <2>3, <2>30, <4>1 DEF Touched, InMemory, Ops
        <4> SUFFICES ASSUME op[u].n \notin undone PROVE Holds(View(ProcOf[u]), op[u])'
          BY <2>30, <4>1
        <4>3. Holds(View(ProcOf[u]), op[u])
          BY <4>1 DEF DoneInv
        <4>4. CASE ProcOf[u] = p
          <5>1. View(p)' = d
            BY <2>3, <2>30, <2>9 DEF View
          <5> QED
            BY <2>4, <2>5, <4>1, <4>2, <4>3, <4>4, <5>1 DEF Holds, Le, Dicts, Values, Ops
        <4>5. CASE ProcOf[u] # p
          <5>1. View(ProcOf[u])' = View(ProcOf[u])
            BY <2>1, <2>3, <2>30, <4>1, <4>5, StoreAssumption DEF View
          <5> QED
            BY <4>1, <4>2, <4>3, <5>1 DEF Holds
        <4> QED BY <4>4, <4>5
      <3> QED BY <3>1, <3>2
    <2>13. MemoryInv' /\ MemoryIsSaved'
      BY <2>1, <2>3, <2>30 DEF MemoryInv, MemoryIsSaved, InMemory
    <2> QED BY <2>7, <2>8, <2>10, <2>11, <2>12, <2>13
  <1>10. ASSUME NEW t \in Threads, Commit(t) PROVE StoreInv'
    <2> DEFINE p == ProcOf[t]
    <2>1. /\ kind = "sqlite" /\ pc[t] = "commit" /\ p \in Procs /\ op[t] \in Ops
          /\ pc' = [pc EXCEPT ![t] = "idle"] /\ op' = [op EXCEPT ![t] = NoOp]
          /\ draft' = [draft EXCEPT ![t] = Empty]
          /\ acked' = [k \in Keys |-> IF k \in Touched(op[t]) THEN acked[k] \cup {op[t].n} ELSE acked[k]]
          /\ UNCHANGED <<kind, tmp, lock, up, unsaved, undone, ops, faults, crashes>>
      BY <1>10, StoreAssumption DEF Commit, Leave, Ack, At, Goto, bounds, PlaceInv
    <2>2. /\ disk' \in Files /\ disk'.whole /\ disk'.data = View(p)
          /\ writer' \in Procs \cup {NoProc} /\ mem' \in [Procs -> Dicts]
          /\ writer' # p /\ \A q \in Procs : q # p => writer' = q <=> writer = q
          /\ \A q \in Procs \ {p} : mem'[q] = mem[q]
      <3>1. CASE writer = p
        <4>1. disk' = [disk EXCEPT !.data = mem[p]] /\ writer' = NoProc /\ mem' = [mem EXCEPT ![p] = Empty]
          BY <1>10, <3>1 DEF Commit
        <4>2. disk'.data = mem[p] /\ disk'.whole = disk.whole /\ disk' \in Files
          BY <2>1, <4>1 DEF TypeOK, Files
        <4> QED
          BY <2>1, <3>1, <4>1, <4>2, EmptyType, StoreAssumption DEF TypeOK, View, DiskInv
      <3>2. CASE writer # p
        BY <1>10, <3>2 DEF Commit, TypeOK, View, DiskInv
      <3> QED BY <3>1, <3>2
    <2>3. writer \in {NoProc, p} => Le(disk.data, View(p)) /\ Recent(View(p)) /\ View(p) \in Dicts
      BY <2>1, ViewIsNewer
    <2>4. Le(disk.data, disk'.data) /\ Recent(disk'.data)
      <3>1. CASE writer \in {NoProc, p}
        BY <2>2, <2>3, <3>1
      <3>2. CASE writer \notin {NoProc, p}
        BY <2>2, <3>2 DEF View, DiskInv, Le, Files, Dicts, Values
      <3> QED BY <3>1, <3>2
    <2>5. (op[t].n \in undone \/ Holds(disk'.data, op[t])) /\ Touched(op[t]) \subseteq Keys
      BY <2>1, <2>2 DEF DoneInv, Touched, Ops
    <2>6. TypeOK'
      <3>1. UNCHANGED <<up, unsaved>>
        BY <2>1
      <3>2. acked' \in [Keys -> SUBSET (0 .. MaxOps)]
        BY <2>1 DEF TypeOK, Ops
      <3> QED
        BY <2>1, <2>2, <3>1, <3>2, EmptyType DEF TypeOK
    <2>7. PlaceInv'
      BY <2>1, <2>2 DEF PlaceInv, Owner, Saving, TypeOK
    <2>8. DiskInv'
      BY <2>1, <2>2, <2>4, <2>5, StoreAssumption
      DEF DiskInv, AckedAreOnDisk, Recent, Le, Holds, TypeOK, Files, Dicts, Values, Ops
    <2>9. DraftInv' /\ MemoryInv' /\ MemoryIsSaved'
      BY <2>1 DEF DraftInv, MemoryInv, MemoryIsSaved, InMemory, PlaceInv, Saving
    <2>10. SqlInv'
      <3>1. writer' # NoProc => writer \in Procs \ {p} /\ writer' = writer /\ mem'[writer'] = mem[writer]
        BY <2>1, <2>2, StoreAssumption DEF TypeOK
      <3>2. writer' # NoProc => disk'.data = disk.data
        BY <2>2, <3>1 DEF View
      <3> QED
        BY <2>1, <3>1, <3>2, StoreAssumption DEF SqlInv, Recent
    <2>11. DoneInv'
      <3> SUFFICES ASSUME NEW u \in Threads, pc'[u] = "commit" PROVE (op[u].n \in undone \/ Holds(View(ProcOf[u]), op[u]))'
        BY <2>1 DEF DoneInv, PlaceInv, TypeOK, Saving
      <3> DEFINE q == ProcOf[u]
      <3>1. u # t /\ pc[u] = "commit" /\ q \in Procs /\ op'[u] = op[u] /\ op[u] \in Ops
        BY <2>1, StoreAssumption DEF TypeOK, PlaceInv, Saving
      <3>2. Touched(op[u])' = Touched(op[u]) /\ Touched(op[u]) \subseteq Keys
        BY <2>1, <3>1 DEF Touched, InMemory, Ops
      <3> SUFFICES ASSUME op[u].n \notin undone PROVE Holds(View(q), op[u])'
        BY <2>1, <3>1
      <3>3. Holds(View(q), op[u])
        BY <3>1 DEF DoneInv
      <3>4. CASE q = p
        BY <2>2, <3>1, <3>2, <3>3, <3>4 DEF Holds, View
      <3>5. CASE q # p /\ writer = q
        BY <2>2, <3>1, <3>2, <3>3, <3>5 DEF Holds, View
      <3>6. CASE q # p /\ writer # q
        <4>1. View(q) = disk.data /\ View(q)' = disk'.data
          BY <2>2, <3>1, <3>6 DEF View
        <4> QED
          BY <2>2, <2>4, <3>1, <3>2, <3>3, <4>1 DEF Holds, Le, TypeOK, Files, Dicts, Values, Ops
      <3> QED BY <3>4, <3>5, <3>6
    <2> QED BY <2>6, <2>7, <2>8, <2>9, <2>10, <2>11
  <1>11. ASSUME NEW p \in Procs, Kill(p) PROVE StoreInv'
    <2>1. /\ up[p] /\ crashes < MaxCrashes /\ crashes' = crashes + 1 /\ (p = Home \/ kind = "sqlite")
          /\ up' = [up EXCEPT ![p] = FALSE]
          /\ pc' = [t \in Threads |-> IF Owner(t) = p THEN "idle" ELSE pc[t]]
          /\ op' = [t \in Threads |-> IF Owner(t) = p THEN NoOp ELSE op[t]]
          /\ draft' = [t \in Threads |-> IF Owner(t) = p THEN Empty ELSE draft[t]]
          /\ mem' = [mem EXCEPT ![p] = Empty] /\ lock' = NoThread
          /\ writer' = IF writer = p THEN NoProc ELSE writer
          /\ UNCHANGED <<kind, disk, tmp, unsaved, acked, undone, ops, faults>>
      BY <1>11 DEF Kill, file
    <2>2. \A t \in Threads : pc'[t] \notin Serving
      BY <2>1, StoreAssumption DEF PlaceInv, Owner, Serving
    <2>3. TypeOK'
      BY <2>1, <2>2, StoreAssumption, EmptyType DEF TypeOK, Serving
    <2>4. PlaceInv'
      BY <2>1 DEF PlaceInv, Owner, Saving
    <2>5. DiskInv'
      BY <2>1 DEF DiskInv, AckedAreOnDisk, Recent
    <2>6. DraftInv'
      BY <2>1 DEF DraftInv, Saving, Recent, Holds, Touched, InMemory
    <2>7. DoneInv'
      BY <2>1, StoreAssumption DEF DoneInv, Holds, Touched, View, InMemory, Owner
    <2>8. SqlInv'
      BY <2>1 DEF SqlInv, Recent
    <2>9. MemoryInv'
      BY <2>1 DEF TypeOK, MemoryInv, InMemory, Owner
    <2>10. MemoryIsSaved'
      BY <2>1 DEF TypeOK, MemoryIsSaved, InMemory
    <2> QED BY <2>3, <2>4, <2>5, <2>6, <2>7, <2>8, <2>9, <2>10
  <1>12. ASSUME NEW p \in Procs, Restart(p) PROVE StoreInv'
    <2>1. /\ ~up[p] /\ up' = [up EXCEPT ![p] = TRUE]
          /\ mem' = [mem EXCEPT ![p] = Loaded] /\ unsaved' = FALSE
          /\ UNCHANGED <<kind, disk, tmp, lock, writer, pc, op, draft, acked, undone, ops, faults, crashes>>
      BY <1>12 DEF Restart, file, bounds
    <2>2. Loaded \in Dicts /\ (InMemory => Loaded = disk.data)
      BY EmptyType DEF Loaded, TypeOK, DiskInv, Files
    <2>3. \A t \in Threads : Owner(t) = p => pc[t] = "idle"
      BY <2>1 DEF PlaceInv
    <2>4. writer # p
      BY <2>1, StoreAssumption DEF PlaceInv
    <2>5. TypeOK'
      BY <2>1, <2>2, <2>3, <2>4, StoreAssumption, EmptyType, OneServed, StoreAssumption DEF TypeOK, PlaceInv, Files, Saving, Serving, Ops, Serving, Owner
    <2>6. PlaceInv'
      BY <2>1, <2>2, <2>3, <2>4, StoreAssumption, EmptyType, OneServed DEF TypeOK, PlaceInv, Owner, Saving, Serving, Owner
    <2>7. DiskInv'
      BY <2>1 DEF DiskInv, AckedAreOnDisk, Recent
    <2>8. DraftInv'
      BY <2>1 DEF DraftInv, Recent, Holds, Touched, InMemory
    <2>9. DoneInv'
      BY <2>1, <2>4 DEF DoneInv, Holds, Touched, View, InMemory
    <2>10. SqlInv'
      BY <2>1, <2>4 DEF SqlInv, Recent
    <2>11. MemoryInv'
      BY <2>1, <2>2, <2>3 DEF TypeOK, DiskInv, MemoryInv, Saving, Le, Recent, InMemory, Dicts, Values, Owner
    <2>12. MemoryIsSaved'
      <3>1. InMemory => p = Home
        BY <2>1 DEF PlaceInv, InMemory
      <3> QED
        BY <2>1, <2>2, <3>1 DEF TypeOK, MemoryIsSaved, InMemory
    <2> QED BY <2>5, <2>6, <2>7, <2>8, <2>9, <2>10, <2>11, <2>12
  <1>13. ASSUME NEW t \in Threads, StatementFails(t) \/ CommitFails(t) PROVE StoreInv'
    <2> DEFINE p == ProcOf[t]
    <2>1. /\ kind = "sqlite" /\ p \in Procs /\ SqlError(t)
      BY <1>13, StoreAssumption DEF StatementFails, CommitFails, At, PlaceInv
    <2>2. /\ faults' \in 0 .. MaxFaults /\ op' = [op EXCEPT ![t] = NoOp]
          /\ UNCHANGED <<kind, disk, tmp, lock, up, draft, unsaved, acked, ops, crashes>>
      BY <2>1, StoreAssumption DEF SqlError, file, TypeOK
    <2>3. /\ writer' \in {writer, NoProc} /\ mem' \in [Procs -> Dicts]
          /\ writer' # NoProc => mem' = mem
          /\ \A q \in Procs \ {p} : writer' = q <=> writer = q
          /\ undone \subseteq undone'
      <3>1. CASE RollBack(t)
        BY <2>1, <3>1, EmptyType, StoreAssumption DEF RollBack, TypeOK
      <3>2. CASE LeaveOpen(t)
        BY <3>2 DEF LeaveOpen, TypeOK
      <3> QED BY <2>1, <3>1, <3>2 DEF SqlError
    <2>4. /\ pc' \in [Threads -> {"idle", "again", "half", "commit"}] /\ pc'[t] = "idle"
          /\ \A u \in Threads \ {t} : pc'[u] = pc[u] \/ (pc[u] = "again" /\ pc'[u] = "half")
      <3>1. pc \in [Threads -> {"idle", "again", "half", "commit"}]
        BY <2>1 DEF PlaceInv, TypeOK
      <3>2. CASE RollBack(t)
        BY <3>1, <3>2 DEF RollBack, At
      <3>3. CASE LeaveOpen(t)
        BY <3>1, <3>3 DEF LeaveOpen, Goto
      <3> QED BY <2>1, <3>2, <3>3 DEF SqlError
    <2>5. undone' \subseteq 0 .. MaxOps
      <3>1. CASE RollBack(t)
        <4>1. ASSUME NEW u \in Threads, At(u, "commit") PROVE op[u].n \in 0 .. MaxOps
          BY <4>1 DEF PlaceInv, At, Ops
        <4> QED
          BY <3>1, <4>1 DEF RollBack, Others, Uncommitted, TypeOK
      <3>2. CASE LeaveOpen(t)
        BY <3>2 DEF LeaveOpen, TypeOK
      <3> QED BY <2>1, <3>1, <3>2 DEF SqlError
    <2>6. TypeOK'
      <3>1. UNCHANGED <<up, unsaved>>
        BY <2>2
      <3> QED
        BY <2>2, <2>3, <2>4, <2>5, <3>1 DEF TypeOK
    <2>7. PlaceInv'
      <3> SUFFICES ASSUME NEW u \in Threads
                   PROVE  /\ pc'[u] \in {"idle", "again", "half", "commit"}
                          /\ pc'[u] = "commit" => op'[u] \in Ops /\ op'[u].n <= ops'
                          /\ ~up[ProcOf[u]] => pc'[u] = "idle"
        BY <2>1, <2>2, <2>3 DEF PlaceInv, Owner, Saving
      <3>1. CASE u = t
        BY <2>4, <3>1
      <3>2. CASE u # t
        BY <2>1, <2>2, <2>4, <3>2 DEF PlaceInv, Owner, TypeOK
      <3> QED BY <3>1, <3>2
    <2>8. DiskInv'
      BY <2>2, <2>3 DEF DiskInv, AckedAreOnDisk, Recent
    <2>9. SqlInv'
      BY <2>2, <2>3 DEF SqlInv, Recent
    <2>10. DraftInv' /\ MemoryInv' /\ MemoryIsSaved'
      BY <2>1, <2>2, <2>4 DEF DraftInv, MemoryInv, MemoryIsSaved, InMemory, Saving
    <2>11. DoneInv'
      <3> SUFFICES ASSUME NEW u \in Threads, pc'[u] = "commit", op'[u].n \notin undone'
                   PROVE  Holds(View(ProcOf[u]), op[u])'
        BY <2>4 DEF DoneInv
      <3> DEFINE q == ProcOf[u]
      <3>1. u # t /\ pc[u] = "commit" /\ q \in Procs /\ op'[u] = op[u] /\ op[u] \in Ops
        <4>1. u # t /\ pc[u] = "commit"
          BY <2>4
        <4> QED
          BY <2>2, <4>1, StoreAssumption DEF TypeOK, PlaceInv
      <3>2. Touched(op[u])' = Touched(op[u]) /\ Touched(op[u]) \subseteq Keys
        BY <2>2, <3>1 DEF Touched, InMemory, Ops
      <3>3. Holds(View(q), op[u])
        BY <2>3, <3>1 DEF DoneInv
      <3>4. CASE writer' = writer /\ mem' = mem
        BY <2>2, <3>1, <3>2, <3>3, <3>4 DEF Holds, View
      <3>5. CASE RollBack(t) /\ q # p
        BY <2>2, <3>1, <3>2, <3>3, <3>5, StoreAssumption DEF Holds, View, RollBack
      <3>6. CASE RollBack(t) /\ q = p
        <4>1. ~Uncommitted(u)
          BY <3>1, <3>6 DEF RollBack, Others
        <4>2. \A i \in Touched(op[u]) : disk.data[i].n >= op[u].n
          BY <3>1, <3>2, <4>1 DEF Uncommitted, At, TypeOK, Files, Dicts, Values, Ops
        <4> QED
          BY <2>2, <3>1, <3>2, <3>6, <4>2, StoreAssumption DEF Holds, View, RollBack
      <3> QED BY <2>1, <3>4, <3>5, <3>6 DEF SqlError, LeaveOpen
    <2> QED BY <2>6, <2>7, <2>8, <2>9, <2>10, <2>11
  <1>14. CASE UNCHANGED vars
    BY <1>14 DEF vars, file, bounds, TypeOK, PlaceInv, DiskInv, DraftInv, DoneInv, SqlInv, MemoryInv,
       AckedAreOnDisk, MemoryIsSaved, InMemory, Owner, Le, Recent, Holds, Touched, View, Free
  <1> QED
    BY <1>1, <1>2, <1>3, <1>4, <1>5, <1>6, <1>7, <1>8, <1>9, <1>10, <1>11, <1>12, <1>13, <1>14
    DEF Next, Proceed, Quiescent

(* An acknowledged operation is never undone: the three steps that write the *)
(* file write something that is as new as what it holds.                      *)
LEMMA StepGoesForward ==
  ASSUME StoreInv, [Next]_vars
  PROVE  \A k \in Keys : disk'.data[k].n >= disk.data[k].n
  <1>0. \A k \in Keys : disk.data[k].n \in Nat /\ disk.data[k].n <= ops
    BY DEF StoreInv, TypeOK, Files, Dicts, Values, DiskInv, AckedAreOnDisk, Recent
  <1>1. CASE UNCHANGED disk
    BY <1>0, <1>1
  <1>2. ASSUME NEW t \in Threads, Replace(t) PROVE Le(disk.data, disk'.data)
    BY <1>2 DEF Replace, At, StoreInv, DraftInv, Saving
  <1>3. ASSUME NEW t \in Threads, Commit(t) PROVE UNCHANGED disk \/ Le(disk.data, disk'.data)
    <2> DEFINE p == ProcOf[t]
    <2> SUFFICES ASSUME writer = p PROVE Le(disk.data, disk'.data)
      BY <1>3 DEF Commit
    <2>1. p \in Procs /\ disk'.data = mem[p]
      BY <1>3, StoreAssumption DEF Commit, StoreInv, TypeOK, Files
    <2> QED
      BY <2>1, StoreAssumption DEF StoreInv, SqlInv
  <1>4. CASE Reset
    <2>1. \A k \in Keys : disk'.data[k].n = ops + 1
      BY <1>4 DEF Reset, StoreInv, TypeOK, Files
    <2> QED
      BY <1>0, <2>1, StoreAssumption DEF StoreInv, TypeOK
  <1>5. \A t \in Threads : Replace(t) \/ Commit(t) => \A k \in Keys : disk'.data[k].n >= disk.data[k].n
    BY <1>0, <1>2, <1>3 DEF Le
  <1> QED
    BY <1>1, <1>4, <1>5
    DEF Next, Proceed, Write, OpenTmp, Fill, SaveFails, Return, FirstStatement, Begin, Statement, SecondStatement,
        StatementFails, CommitFails, SqlError, Kill, Restart, Quiescent, vars, file

(* Every reachable state satisfies the invariant. *)
THEOREM StoreSafety == Spec => []StoreInv
  BY InitStoreInv, NextStoreInv, PTL DEF Spec

(* The types, and that only one thread is inside an operation on a JSON     *)
(* store: what it holds of the lock is its own.                              *)
THEOREM StoreTypes == Spec => []TypeOK
  BY StoreSafety, PTL DEF StoreInv

(* No failing save and no kill leaves a file that does not parse, which the  *)
(* next start would take for an empty store.                                 *)
THEOREM StoreIsReadable == Spec => []DiskIsReadable
  <1>1. StoreInv => DiskIsReadable
    BY DEF StoreInv, DiskInv, DiskIsReadable
  <1> QED BY <1>1, StoreSafety, PTL

(* What an operation did is on disk when it returns, of the SQLite store     *)
(* too, whose threads share a transaction that any of them commits; what     *)
(* another thread's error rolled back is the only exception.                  *)
THEOREM AcknowledgedIsDurable == Spec => []AckedAreOnDisk
  <1>1. StoreInv => AckedAreOnDisk
    BY DEF StoreInv, DiskInv, AckedAreOnDisk
  <1> QED BY <1>1, StoreSafety, PTL

(* Outside an operation the memory of the process is its file, unless a save *)
(* failed.                                                                    *)
THEOREM MemoryIsTheFile == Spec => []MemoryIsSaved
  BY StoreSafety, PTL DEF StoreInv

(* No save brings back an older value of a key.                               *)
THEOREM NoLostUpdate == Spec => DiskNeverGoesBack
  <1>1. StoreInv /\ [Next]_vars => [\A k \in Keys : disk'.data[k].n >= disk.data[k].n]_vars
    BY StepGoesForward
  <1> QED BY <1>1, StoreSafety, PTL DEF Spec, DiskNeverGoesBack
=============================================================================
