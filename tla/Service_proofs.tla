---------------------------- MODULE Service_proofs ----------------------------
(***************************************************************************)
(* The service, for every number of adapters, users, requests, commands     *)
(* and faults: types and the lock of the server, no run for a user who was  *)
(* never let run shares, the server as an atomic dictionary of adapters, and *)
(* changes that only an overlapping process can undo.                        *)
(***************************************************************************)
EXTENDS Service, FiniteSetTheorems, TLAPS

(* The parts of the state. *)
FilesOK ==
  /\ file \in Dicts /\ whole \in [Stores -> BOOLEAN] /\ share \in Entries
  /\ tmp \in [Stores -> [there : BOOLEAN, whole : BOOLEAN, data : Dicts]]
MemOK == mem \in [Procs -> Dicts]
FlagsOK == up \in BOOLEAN /\ lock \in Procs
OpOK == op \in [Ops -> Requests \cup {NoRequest}]
Labels == {"new", "queued", "load", "act", "replace", "save", "rename", "audit", "transfer", "print",
           "keep", "note", "over"}
PlaceOK == pc \in [Ops -> Labels]
ReplyOK == outcome \in [Ops -> Replies]
TraceOK == last \in [Names -> Procs] /\ clash \in BOOLEAN /\ granted \subseteq Users
BoundsOK == ops \in 0 .. MaxOps /\ faults \in 0 .. MaxFaults
LockHeld == \A i \in 1 .. ops : lock # i /\ op[i].via = "http" => pc[i] \in {"queued", "over"}

LEMMA TypeParts ==
  /\ TypeOK <=> FilesOK /\ MemOK /\ FlagsOK /\ OpOK /\ PlaceOK /\ ReplyOK /\ TraceOK /\ BoundsOK
                  /\ LockHeld
  /\ TypeOK' <=> FilesOK' /\ MemOK' /\ FlagsOK' /\ OpOK' /\ PlaceOK' /\ ReplyOK' /\ TraceOK'
                  /\ BoundsOK' /\ LockHeld'
  BY DEF TypeOK, FilesOK, MemOK, FlagsOK, OpOK, PlaceOK, Labels, ReplyOK, TraceOK, BoundsOK, LockHeld

(* A part that a step leaves alone keeps its type. *)
LEMMA TypeFrame ==
  /\ UNCHANGED disk /\ FilesOK => FilesOK'
  /\ UNCHANGED mem /\ MemOK => MemOK'
  /\ UNCHANGED <<up, lock>> /\ FlagsOK => FlagsOK'
  /\ UNCHANGED op /\ OpOK => OpOK'
  /\ UNCHANGED pc /\ PlaceOK => PlaceOK'
  /\ UNCHANGED outcome /\ ReplyOK => ReplyOK'
  /\ UNCHANGED trace /\ TraceOK => TraceOK'
  /\ UNCHANGED bounds /\ BoundsOK => BoundsOK'
  BY DEF disk, trace, bounds, FilesOK, MemOK, FlagsOK, OpOK, PlaceOK, ReplyOK, TraceOK, BoundsOK

LEMMA BoundFacts ==
  /\ MaxOps \in Nat /\ MaxRequests \in Nat /\ MaxCommands \in Nat /\ MaxFaults \in Nat
  /\ MaxOps = MaxRequests + MaxCommands /\ 0 \in Procs /\ Ops \subseteq Procs
  BY ServiceAssumption DEF MaxOps, Procs, Ops

LEMMA EntryTypes ==
  /\ \A n \in Procs, live \in BOOLEAN : [n |-> n, live |-> live] \in Entries
  /\ \A dict \in Dicts, k \in Names : dict[k] \in Entries
  /\ Nothing \in Dicts
  /\ NoTmp \in [there : BOOLEAN, whole : BOOLEAN, data : Dicts]
  <1>1. \A n \in Procs, live \in BOOLEAN : [n |-> n, live |-> live] \in Entries
    BY DEF Entries, Procs
  <1>2. Nothing \in Dicts
    BY <1>1, BoundFacts DEF Nothing, Dicts
  <1> QED BY <1>1, <1>2 DEF Dicts, NoTmp

LEMMA StoreTypes ==
  /\ \A k \in Names : StoreOf[k] \in Stores /\ k \in StoreOf[k]
  /\ \A s \in Stores : s \subseteq Names
  <1>1. ASSUME NEW k \in Names PROVE \E s \in Stores : k \in s
    BY DEF Names, Stores
  <1>2. ASSUME NEW k \in Names PROVE StoreOf[k] = CHOOSE s \in Stores : k \in s
    BY DEF StoreOf
  <1> QED BY <1>1, <1>2 DEF Names, Stores

(* Each store has its own names. *)
LEMMA StoreOfName ==
  \A s \in Stores, k \in Names : k \in s => StoreOf[k] = s
  BY StoreTypes, ServiceAssumption DEF Stores

LEMMA ReplyTypes ==
  /\ NoReply \in Replies /\ Failed \in Replies
  /\ \A names \in SUBSET Adapters : Reply("ok", names) \in Replies /\ Reply("error", names) \in Replies
  BY DEF NoReply, Failed, Reply, Replies

(* What is asked for is asked for on one of the names of its kind. *)
LEMMA TargetTypes ==
  ASSUME NEW kind, NEW k, <<kind, k>> \in Remote \cup Local
  PROVE  /\ kind \in Kinds /\ k \in Targets(kind) /\ k \in Names
         /\ kind \in {"register", "remove"} => k \in Adapters
         /\ <<kind, k>> \in Remote => kind \notin {"user", "asset"}
  BY ServiceAssumption DEF Targets, Kinds, Names

-----------------------------------------------------------------------------
(* An operation that is not sent is nowhere; one that is sent asks for what  *)
(* its way admits.                                                            *)
Means(i) == op[i].kind # "user" => (op[i].live <=> op[i].kind # "remove")
IsSent(i) ==
  /\ op[i] \in Requests /\ pc[i] # "new" /\ Means(i)
  /\ op[i].via = "http" => pc[i] # "load"
  /\ <<op[i].kind, op[i].name>> \in IF op[i].via = "http" THEN Remote ELSE Local
NotSent(i) == op[i] = NoRequest /\ pc[i] = "new" /\ outcome[i] = NoReply
SentInv == \A i \in Ops : IF i <= ops THEN IsSent(i) ELSE NotSent(i)

(* The bounds on requests and on commands bound the operations. *)
SentBy(via) == {i \in 1 .. ops : op[i].via = via}
CountInv ==
  /\ Cardinality(SentBy("http")) <= MaxRequests /\ Cardinality(SentBy("cli")) <= MaxCommands

ServiceInv == TypeOK /\ SentInv /\ CountInv

LEMMA SentCount ==
  ASSUME TypeOK, SentInv
  PROVE  /\ \A via : IsFiniteSet(SentBy(via)) /\ Cardinality(SentBy(via)) \in Nat
         /\ Cardinality(SentBy("http")) + Cardinality(SentBy("cli")) = ops
  <1>1. ops \in Nat /\ IsFiniteSet(1 .. ops) /\ Cardinality(1 .. ops) = ops
    BY FS_Interval, BoundFacts DEF TypeOK
  <1>2. \A via : IsFiniteSet(SentBy(via)) /\ Cardinality(SentBy(via)) \in Nat
    BY <1>1, FS_Subset, FS_CardinalityType DEF SentBy
  <1>3. \A i \in 1 .. ops : op[i].via \in {"http", "cli"}
    <2>1. \A i \in 1 .. ops : i \in Ops /\ i <= ops
      BY <1>1, BoundFacts DEF TypeOK, Ops
    <2> QED BY <2>1 DEF SentInv, IsSent, Requests
  <1>4. SentBy("http") \cup SentBy("cli") = 1 .. ops /\ SentBy("http") \cap SentBy("cli") = {}
    BY <1>3 DEF SentBy
  <1>5. Cardinality(SentBy("http") \cup SentBy("cli"))
          = Cardinality(SentBy("http")) + Cardinality(SentBy("cli"))
            - Cardinality(SentBy("http") \cap SentBy("cli"))
    BY <1>2, FS_Union
  <1>6. Cardinality(SentBy("http") \cap SentBy("cli")) = 0
    BY <1>4, FS_EmptySet
  <1>7. Cardinality(SentBy("http") \cup SentBy("cli")) = ops
    BY <1>1, <1>4
  <1>8. Cardinality(SentBy("http")) \in Nat /\ Cardinality(SentBy("cli")) \in Nat
    BY <1>2
  <1> QED BY <1>2, <1>5, <1>6, <1>7, <1>8

(* An operation at work was sent, with a request. *)
LEMMA AtWork ==
  ASSUME TypeOK, SentInv, NEW i \in Ops, pc[i] # "new"
  PROVE  /\ i \in 1 .. ops /\ op[i] \in Requests
         /\ op[i].via \in {"http", "cli"} /\ op[i].kind \in Kinds /\ op[i].name \in Names
         /\ op[i].live \in BOOLEAN
         /\ op[i].kind \in {"register", "remove"} => op[i].name \in Adapters
         /\ op[i].via = "http" => op[i].kind \notin {"user", "asset"}
         /\ Proc(i) \in Procs /\ Store(i) \in Stores
  <1>1. i \in 1 .. ops /\ IsSent(i)
    BY BoundFacts DEF SentInv, NotSent, TypeOK, Ops
  <1>2. op[i].kind \in {"register", "remove"} => op[i].name \in Adapters
    BY <1>1, TargetTypes DEF IsSent
  <1>3. op[i].via = "http" => op[i].kind \notin {"user", "asset"}
    BY <1>1, TargetTypes DEF IsSent
  <1>4. /\ op[i] \in Requests /\ op[i].via \in {"http", "cli"} /\ op[i].kind \in Kinds
        /\ op[i].name \in Names /\ op[i].live \in BOOLEAN
    BY <1>1 DEF IsSent, Requests
  <1>5. Proc(i) \in Procs
    BY BoundFacts DEF Proc
  <1>6. Store(i) \in Stores
    BY <1>4, StoreTypes DEF Store, Stores
  <1> QED BY <1>1, <1>2, <1>3, <1>4, <1>5, <1>6

(* The ways an operation moves. *)
LEMMA GotoType ==
  ASSUME PlaceOK, NEW i \in Ops, NEW label \in Labels, Goto(i, label)
  PROVE  PlaceOK'
  BY DEF PlaceOK, Goto

LEMMA EndType ==
  ASSUME TypeOK, SentInv, NEW i \in Ops, NEW reply \in Replies, End(i, reply),
         pc[i] \notin {"new", "queued", "over"}, UNCHANGED <<up, op, ops>>
  PROVE  MemOK' /\ FlagsOK' /\ PlaceOK' /\ ReplyOK' /\ OpOK' /\ LockHeld'
  <1> USE TypeParts
  <1>1. MemOK'
    BY EntryTypes DEF End, MemOK
  <1>2. FlagsOK'
    BY BoundFacts DEF End, FlagsOK
  <1>3. PlaceOK'
    BY GotoType DEF End, Labels
  <1>4. ReplyOK' /\ OpOK'
    BY DEF End, ReplyOK, OpOK
  <1>5. LockHeld'
    <2>1. i \in 1 .. ops
      BY AtWork
    <2>2. pc'[i] = "over" /\ \A j \in Ops \ {i} : pc'[j] = pc[j]
      BY DEF End, Goto, PlaceOK
    <2>3. \A j \in 1 .. ops : j \in Ops
      BY BoundFacts DEF BoundsOK, Ops
    <2>4. CASE op[i].via = "http"
      <3>1. lock = i
        BY <2>1, <2>4 DEF LockHeld
      <3> QED BY <2>2, <2>3, <3>1 DEF LockHeld
    <2>5. CASE op[i].via # "http"
      <3>1. lock' = lock
        BY <2>5 DEF End
      <3> QED BY <2>2, <2>3, <3>1 DEF LockHeld
    <2> QED BY <2>4, <2>5
  <1> QED BY <1>1, <1>2, <1>3, <1>4, <1>5

LEMMA StepType ==
  ASSUME TypeOK, SentInv, NEW i \in Ops, NEW label \in Labels, Goto(i, label),
         pc[i] \notin {"new", "queued", "over"}, UNCHANGED <<up, lock, op, outcome, ops>>
  PROVE  FlagsOK' /\ PlaceOK' /\ ReplyOK' /\ OpOK' /\ LockHeld'
  <1> USE TypeParts
  <1>1. FlagsOK' /\ PlaceOK' /\ ReplyOK' /\ OpOK'
    BY GotoType, TypeFrame
  <1>2. LockHeld'
    <2>1. \A j \in Ops \ {i} : pc'[j] = pc[j]
      BY DEF Goto, PlaceOK
    <2>2. \A j \in 1 .. ops : j \in Ops
      BY BoundFacts DEF BoundsOK, Ops
    <2>3. op[i].via = "http" => lock = i
      BY AtWork DEF LockHeld
    <2> QED BY <2>1, <2>2, <2>3 DEF LockHeld
  <1> QED BY <1>1, <1>2

LEMMA InitService == Init => ServiceInv
  <1> SUFFICES ASSUME Init PROVE ServiceInv
    OBVIOUS
  <1> USE TypeParts
  <1>1. FilesOK
    <2>1. file \in Dicts
      <3>1. PICK known \in SUBSET Assets :
              file = [k \in Names |-> [n |-> 0, live |-> k \in Adapters \cup known]]
        BY DEF Init
      <3>2. ASSUME NEW k \in Names PROVE [n |-> 0, live |-> k \in Adapters \cup known] \in Entries
        <4>1. (k \in Adapters \cup known) \in BOOLEAN
          OBVIOUS
        <4> QED BY <4>1, EntryTypes, BoundFacts
      <3> QED BY <3>1, <3>2 DEF Dicts
    <2>2. share \in Entries
      BY EntryTypes, BoundFacts DEF Init
    <2> QED BY <2>1, <2>2, EntryTypes DEF Init, FilesOK
  <1>2. MemOK /\ OpOK /\ PlaceOK /\ ReplyOK
    BY EntryTypes, ReplyTypes DEF Init, MemOK, OpOK, PlaceOK, Labels, ReplyOK
  <1>3. FlagsOK
    BY BoundFacts DEF Init, FlagsOK
  <1>4. TraceOK
    BY BoundFacts DEF Init, TraceOK
  <1>5. BoundsOK
    BY BoundFacts DEF Init, BoundsOK
  <1>6. LockHeld
    BY DEF Init, LockHeld
  <1>7. SentInv
    BY BoundFacts DEF Init, SentInv, NotSent, Ops
  <1>8. CountInv
    <2>1. SentBy("http") = {} /\ SentBy("cli") = {}
      BY DEF Init, SentBy
    <2> QED BY <2>1, FS_EmptySet, BoundFacts DEF CountInv
  <1> QED BY <1>1, <1>2, <1>3, <1>4, <1>5, <1>6, <1>7, <1>8 DEF ServiceInv

(* What is sent next. *)
LEMMA SendKeeps ==
  ASSUME ServiceInv, NEW via \in {"http", "cli"}, NEW kind, NEW k, NEW live \in BOOLEAN,
         <<kind, k>> \in Remote \cup Local, Send(via, kind, k, live)
  PROVE  ServiceInv'
  <1> USE TypeParts
  <1> DEFINE n == ops + 1
             new == [via |-> via, kind |-> kind, name |-> k, live |-> live]
  <1>0. TypeOK /\ SentInv /\ CountInv
    BY DEF ServiceInv
  <1>1. new \in Requests
    BY TargetTypes DEF Requests
  <1>2. ops \in Nat /\ n \in Ops /\ ops' = n
    <2>1. Cardinality(SentBy(via)) < IF via = "http" THEN MaxRequests ELSE MaxCommands
      BY DEF Send, SentBy
    <2>2. ops < MaxOps
      BY <1>0, <2>1, SentCount, BoundFacts DEF CountInv
    <2> QED BY <1>0, <2>2, BoundFacts DEF Send, BoundsOK, Ops
  <1>3. /\ op'[n] = new /\ pc'[n] = IF via = "http" THEN "queued" ELSE "load"
        /\ \A i \in Ops \ {n} : op'[i] = op[i] /\ pc'[i] = pc[i]
    BY <1>0, <1>2 DEF Send, OpOK, PlaceOK
  <1>4. OpOK' /\ PlaceOK' /\ BoundsOK'
    BY <1>0, <1>1, <1>2 DEF Send, OpOK, PlaceOK, Labels, BoundsOK, Ops
  <1>5. FilesOK' /\ MemOK' /\ FlagsOK' /\ ReplyOK' /\ TraceOK'
    BY <1>0, TypeFrame DEF Send, process
  <1>6. LockHeld'
    <2> SUFFICES ASSUME NEW i \in 1 .. n, lock # i, op'[i].via = "http" PROVE pc'[i] \in {"queued", "over"}
      BY <1>2 DEF LockHeld, Send, process
    <2>1. CASE i = n
      BY <1>1, <1>3, <2>1
    <2>2. CASE i # n
      <3>1. i \in 1 .. ops /\ i \in Ops
        BY <1>2, <2>2, BoundFacts DEF Ops
      <3> QED BY <1>0, <1>3, <2>2, <3>1 DEF LockHeld
    <2> QED BY <2>1, <2>2
  <1>7. SentInv'
    <2> SUFFICES ASSUME NEW i \in Ops PROVE (IF i <= ops THEN IsSent(i) ELSE NotSent(i))'
      BY DEF SentInv
    <2>1. CASE i = n
      <3>1. <<kind, k>> \in IF via = "http" THEN Remote ELSE Local
        BY DEF Send
      <3>2. Means(i)'
        <4>1. kind # "user" => live = (kind # "remove")
          BY DEF Send
        <4>2. op'[i].kind = kind /\ op'[i].live = live
          BY <1>3, <2>1
        <4> QED BY <4>1, <4>2 DEF Means
      <3> QED BY <1>1, <1>2, <1>3, <2>1, <3>1, <3>2 DEF IsSent
    <2>2. CASE i # n
      <3>1. i <= n <=> i <= ops
        BY <1>2, <2>2, BoundFacts DEF Ops
      <3>2. outcome' = outcome
        BY DEF Send
      <3> QED BY <1>0, <1>2, <1>3, <2>2, <3>1, <3>2 DEF SentInv, IsSent, NotSent, Means
    <2> QED BY <2>1, <2>2
  <1>8. CountInv'
    <2>1. ASSUME NEW v \in {"http", "cli"} PROVE SentBy(v)' = IF v = via THEN SentBy(v) \cup {n} ELSE SentBy(v)
      <3>1. \A i \in 1 .. n : i \in Ops /\ (i = n \/ i \in 1 .. ops)
        BY <1>2, BoundFacts DEF Ops
      <3>2. new.via = via /\ 1 .. ops \subseteq 1 .. n /\ n \in 1 .. n /\ n \notin 1 .. ops
        BY <1>2
      <3> QED BY <1>2, <1>3, <3>1, <3>2 DEF SentBy
    <2>2. n \notin SentBy(via)
      BY <1>2 DEF SentBy
    <2>3. Cardinality(SentBy(via) \cup {n}) = Cardinality(SentBy(via)) + 1
      BY <1>0, <2>2, SentCount, FS_AddElement
    <2>4. Cardinality(SentBy(via)) < IF via = "http" THEN MaxRequests ELSE MaxCommands
      BY DEF Send, SentBy
    <2> QED BY <1>0, <2>1, <2>3, <2>4, SentCount, BoundFacts DEF CountInv
  <1> QED BY <1>4, <1>5, <1>6, <1>7, <1>8 DEF ServiceInv

LEMMA LoadedType == FilesOK => Loaded \in Dicts
  BY StoreTypes, EntryTypes DEF FilesOK, Loaded, Dicts

(* An operation that goes on or ends keeps the account of what was sent. *)
LEMMA MoveKeeps ==
  ASSUME ServiceInv, NEW i \in Ops, pc[i] # "new", NEW label \in Labels \ {"new", "load"}, Goto(i, label),
         UNCHANGED <<op, ops>>, \A j \in Ops \ {i} : outcome'[j] = outcome[j]
  PROVE  SentInv' /\ CountInv'
  <1>1. i <= ops
    BY AtWork DEF ServiceInv
  <1>2. pc'[i] = label /\ \A j \in Ops \ {i} : pc'[j] = pc[j]
    BY DEF Goto, ServiceInv, TypeOK
  <1>3. SentInv'
    BY <1>1, <1>2 DEF ServiceInv, SentInv, IsSent, NotSent, Means
  <1>4. CountInv'
    BY DEF ServiceInv, CountInv, SentBy
  <1> QED BY <1>3, <1>4

LEMMA EndKeeps ==
  ASSUME ServiceInv, NEW i \in Ops, NEW reply \in Replies, End(i, reply),
         pc[i] \notin {"new", "queued", "over"}, UNCHANGED <<up, op, ops>>, FilesOK', TraceOK', BoundsOK'
  PROVE  ServiceInv'
  <1>1. TypeOK'
    BY EndType, TypeParts DEF ServiceInv
  <1>2. \A j \in Ops \ {i} : outcome'[j] = outcome[j]
    BY DEF End, ServiceInv, TypeOK
  <1>3. SentInv' /\ CountInv'
    BY <1>2, MoveKeeps DEF End, Labels
  <1> QED BY <1>1, <1>3 DEF ServiceInv

LEMMA StepKeeps ==
  ASSUME ServiceInv, NEW i \in Ops, NEW label \in Labels \ {"new", "load"}, Goto(i, label),
         pc[i] \notin {"new", "queued", "over"}, UNCHANGED <<up, lock, op, outcome, ops>>,
         FilesOK', MemOK', TraceOK', BoundsOK'
  PROVE  ServiceInv'
  <1>1. TypeOK'
    BY StepType, TypeParts DEF ServiceInv
  <1>2. SentInv' /\ CountInv'
    BY MoveKeeps
  <1> QED BY <1>1, <1>2 DEF ServiceInv

LEMMA GoesOnKeeps ==
  ASSUME ServiceInv, NEW i \in Ops, NEW label \in Labels \ {"new", "load"}, GoesOn(i, label),
         pc[i] \notin {"new", "queued", "over"}, UNCHANGED <<up, op, ops>>, FilesOK', TraceOK', BoundsOK'
  PROVE  ServiceInv'
  <1>1. MemOK'
    BY TypeFrame, TypeParts DEF ServiceInv, GoesOn
  <1> QED BY <1>1, StepKeeps DEF GoesOn

(* A kill takes operations that were sent. *)
LEMMA DieKeeps ==
  ASSUME ServiceInv, NEW set \in SUBSET (1 .. ops), Die(set), UNCHANGED <<op, outcome, ops>>,
         UNCHANGED <<file, whole, share, last, granted>>,
         MemOK', FlagsOK', LockHeld'
  PROVE  ServiceInv'
  <1> USE TypeParts
  <1>0. TypeOK
    BY DEF ServiceInv
  <1>1. PlaceOK'
    BY <1>0 DEF Die, PlaceOK, Labels
  <1>2. FilesOK'
    <2>1. PICK torn : tmp' = [s \in Stores |-> IF s \in torn THEN [NoTmp EXCEPT !.there = TRUE] ELSE tmp[s]]
      BY DEF Die, Torn
    <2>2. [NoTmp EXCEPT !.there = TRUE] \in [there : BOOLEAN, whole : BOOLEAN, data : Dicts]
      BY EntryTypes DEF NoTmp
    <2> QED BY <1>0, <2>1, <2>2 DEF FilesOK
  <1>3. TraceOK'
    <2>1. clash' \in BOOLEAN
      BY Zenon DEF Die, Torn
    <2> QED BY <1>0, <2>1 DEF TraceOK
  <1>4. BoundsOK'
    BY <1>0, BoundFacts DEF Die, BoundsOK
  <1>5. OpOK' /\ ReplyOK'
    BY <1>0, TypeFrame
  <1>6. CountInv'
    BY DEF ServiceInv, CountInv, SentBy
  <1>7. SentInv'
    <2>1. \A i \in Ops : pc'[i] = IF i \in set THEN "over" ELSE pc[i]
      BY DEF Die
    <2>2. ops \in Nat
      BY <1>0, BoundFacts DEF BoundsOK
    <2>3. \A i \in Ops : i \in set => i <= ops
      BY <2>2, BoundFacts DEF Ops
    <2> QED BY <2>1, <2>3 DEF ServiceInv, SentInv, IsSent, NotSent, Means
  <1> QED BY <1>1, <1>2, <1>3, <1>4, <1>5, <1>6, <1>7 DEF ServiceInv

LEMMA ChangeAssetType ==
  ASSUME TypeOK, NEW i \in Ops, ChangeAsset(i)
  PROVE  MemOK'
  <1>1. [n |-> i, live |-> TRUE] \in Entries
    BY EntryTypes, BoundFacts
  <1> QED BY <1>1 DEF ChangeAsset, TypeOK, MemOK, Dicts

LEMMA SpendKeeps ==
  ASSUME BoundsOK, faults < MaxFaults, faults' = faults + 1, UNCHANGED ops
  PROVE  BoundsOK'
  BY BoundFacts DEF BoundsOK

LEMMA NextService == ServiceInv /\ [Next]_vars => ServiceInv'
  <1> SUFFICES ASSUME ServiceInv, [Next]_vars PROVE ServiceInv'
    OBVIOUS
  <1> USE TypeParts
  <1>0. TypeOK /\ SentInv /\ CountInv
    BY DEF ServiceInv
  <1>a. UNCHANGED <<op, ops>> => CountInv'
    BY <1>0 DEF CountInv, SentBy
  <1>b. UNCHANGED <<op, pc, outcome, ops>> => SentInv'
    BY <1>0 DEF SentInv, IsSent, NotSent, Means
  <1>1. CASE Boot
    <2>1. MemOK' /\ FlagsOK'
      BY <1>0, <1>1, LoadedType DEF Boot, MemOK, FlagsOK
    <2>2. FilesOK' /\ OpOK' /\ PlaceOK' /\ ReplyOK' /\ TraceOK' /\ BoundsOK'
      BY <1>0, <1>1, TypeFrame DEF Boot, request
    <2>3. LockHeld'
      BY <1>0, <1>1 DEF Boot, LockHeld, request, bounds
    <2> QED BY <1>1, <1>a, <1>b, <2>1, <2>2, <2>3 DEF Boot, request, bounds, ServiceInv
  <1>2. CASE KillServer
    <2> DEFINE set == {i \in 1 .. ops : op[i].via = "http"}
    <2>1. MemOK' /\ FlagsOK'
      BY <1>0, <1>2, EntryTypes, BoundFacts DEF KillServer, MemOK, FlagsOK
    <2>2. LockHeld'
      <3>1. \A i \in 1 .. ops : i \in Ops
        BY <1>0, BoundFacts DEF BoundsOK, Ops
      <3>2. \A i \in 1 .. ops : op[i].via = "http" => pc'[i] = "over"
        BY <1>2, <3>1 DEF KillServer, Die
      <3> QED BY <1>2, <3>2 DEF KillServer, LockHeld
    <2> QED BY <1>2, <2>1, <2>2, DieKeeps DEF KillServer
  <1>3. ASSUME NEW i \in Ops, KillCommand(i) PROVE ServiceInv'
    <2>1. MemOK'
      BY <1>0, <1>3, EntryTypes DEF KillCommand, MemOK
    <2>2. FlagsOK'
      BY <1>0, <1>3, TypeFrame DEF KillCommand
    <2>3. i \in 1 .. ops /\ op[i].via = "cli"
      BY <1>3 DEF KillCommand, Working
    <2>4. LockHeld'
      <3>1. \A j \in 1 .. ops : j \in Ops
        BY <1>0, BoundFacts DEF BoundsOK, Ops
      <3>2. \A j \in Ops : pc'[j] = IF j = i THEN "over" ELSE pc[j]
        BY <1>3 DEF KillCommand, Die
      <3> QED BY <1>0, <1>3, <3>1, <3>2 DEF KillCommand, LockHeld
    <2> QED BY <1>3, <2>1, <2>2, <2>3, <2>4, DieKeeps DEF KillCommand
  <1>4. ASSUME NEW o \in Remote \cup Local, NEW via \in {"http", "cli"}, NEW live \in BOOLEAN,
               Send(via, o[1], o[2], live)
        PROVE  ServiceInv'
    <2>1. <<o[1], o[2]>> \in Remote \cup Local
      BY <1>4 DEF Send
    <2> QED BY <1>4, <2>1, SendKeeps
  <1>5. ASSUME NEW i \in Ops, Acquire(i) PROVE ServiceInv'
    <2>1. FilesOK' /\ MemOK' /\ OpOK' /\ ReplyOK' /\ TraceOK' /\ BoundsOK'
      BY <1>0, <1>5, TypeFrame DEF Acquire
    <2>2. FlagsOK'
      BY <1>0, <1>5, BoundFacts DEF Acquire, FlagsOK
    <2>3. PlaceOK'
      BY <1>0, <1>5, GotoType DEF Acquire, Labels
    <2>4. LockHeld'
      <3>1. \A j \in 1 .. ops : j \in Ops /\ j # 0
        BY <1>0, BoundFacts DEF BoundsOK, Ops
      <3>2. \A j \in Ops \ {i} : pc'[j] = pc[j]
        BY <1>0, <1>5 DEF Acquire, Goto, PlaceOK
      <3> QED BY <1>0, <1>5, <3>1, <3>2 DEF Acquire, LockHeld, bounds
    <2>5. SentInv' /\ CountInv'
      BY <1>5, MoveKeeps DEF Acquire, At, bounds, Labels
    <2> QED BY <2>1, <2>2, <2>3, <2>4, <2>5 DEF ServiceInv
  <1>6. ASSUME NEW i \in Ops, Load(i) PROVE ServiceInv'
    <2>1. MemOK'
      BY <1>0, <1>6, LoadedType DEF Load, MemOK
    <2>2. FilesOK' /\ TraceOK' /\ BoundsOK'
      BY <1>0, <1>6, TypeFrame DEF Load
    <2> QED BY <1>6, <2>1, <2>2, StepKeeps DEF Load, At, bounds, Labels
  <1>7. ASSUME NEW i \in Ops, Change(i) PROVE ServiceInv'
    <2>1. FilesOK' /\ TraceOK' /\ BoundsOK'
      BY <1>0, <1>7, TypeFrame DEF Change
    <2>2. CASE End(i, Reply("ok", {}))
      BY <1>7, <2>1, <2>2, EndKeeps, ReplyTypes DEF Change, At, bounds
    <2>3. CASE /\ mem' = [mem EXCEPT ![Proc(i)][op[i].name] = [n |-> i, live |-> op[i].live]]
               /\ Goto(i, "save") /\ UNCHANGED <<lock, outcome>>
      <3>1. op[i].name \in Names /\ op[i].live \in BOOLEAN /\ Proc(i) \in Procs
        BY <1>0, <1>7, AtWork DEF Change, At
      <3>2. [n |-> i, live |-> op[i].live] \in Entries
        BY <3>1, EntryTypes, BoundFacts
      <3>3. MemOK'
        BY <1>0, <2>3, <3>1, <3>2 DEF MemOK, Dicts
      <3> QED BY <1>7, <2>1, <2>3, <3>3, StepKeeps DEF Change, At, bounds, Labels
    <2> QED BY <1>7, <2>2, <2>3 DEF Change
  <1>8. ASSUME NEW i \in Ops, Refuse(i) \/ RecordFails(i) PROVE ServiceInv'
    <2>1. FilesOK' /\ TraceOK' /\ BoundsOK'
      BY <1>0, <1>8, TypeFrame, SpendKeeps DEF Refuse, RecordFails
    <2> QED BY <1>8, <2>1, EndKeeps, ReplyTypes DEF Refuse, RecordFails, At
  <1>20. ASSUME NEW i \in Ops, BadBody(i) PROVE ServiceInv'
    <2>1. FilesOK' /\ MemOK' /\ FlagsOK' /\ OpOK' /\ TraceOK' /\ BoundsOK'
      BY <1>0, <1>20, TypeFrame, SpendKeeps DEF BadBody, process
    <2>2. PlaceOK' /\ ReplyOK'
      BY <1>0, <1>20, GotoType, ReplyTypes DEF BadBody, Labels, ReplyOK
    <2>3. LockHeld'
      <3>1. \A j \in 1 .. ops : j \in Ops
        BY <1>0, BoundFacts DEF BoundsOK, Ops
      <3>2. pc'[i] = "over" /\ \A j \in Ops \ {i} : pc'[j] = pc[j]
        BY <1>0, <1>20 DEF BadBody, Goto, PlaceOK
      <3> QED BY <1>0, <1>20, <3>1, <3>2 DEF BadBody, LockHeld, process
    <2>4. \A j \in Ops \ {i} : outcome'[j] = outcome[j]
      BY <1>0, <1>20 DEF BadBody, ReplyOK
    <2>5. SentInv' /\ CountInv'
      BY <1>20, <2>4, MoveKeeps DEF BadBody, At, Labels
    <2> QED BY <2>1, <2>2, <2>3, <2>5 DEF ServiceInv
  <1>9. ASSUME NEW i \in Ops, ChangeShare(i) PROVE ServiceInv'
    <2>1. share' \in Entries
      BY <1>0, <1>9, EntryTypes, BoundFacts DEF ChangeShare, FilesOK
    <2>2. FilesOK'
      BY <1>0, <1>9, <2>1 DEF ChangeShare, FilesOK
    <2>3. TraceOK' /\ BoundsOK'
      BY <1>0, <1>9, TypeFrame DEF ChangeShare
    <2>4. GoesOn(i, "replace") \/ \E status \in {"ok", "error"} : End(i, Reply(status, {}))
      BY <1>9 DEF ChangeShare
    <2> QED BY <1>9, <2>2, <2>3, <2>4, EndKeeps, GoesOnKeeps, ReplyTypes DEF ChangeShare, At, bounds, Labels
  <1>21. ASSUME NEW i \in Ops, ReplaceShare(i) PROVE ServiceInv'
    <2>1. FilesOK'
      BY <1>0, <1>21, EntryTypes, BoundFacts DEF ReplaceShare, FilesOK
    <2>2. TraceOK' /\ BoundsOK'
      BY <1>0, <1>21, TypeFrame DEF ReplaceShare
    <2> QED BY <1>21, <2>1, <2>2, GoesOnKeeps DEF ReplaceShare, At, bounds, Labels
  <1>10. ASSUME NEW i \in Ops, Look(i) PROVE ServiceInv'
    <2>1. FilesOK' /\ TraceOK' /\ BoundsOK'
      BY <1>0, <1>10, TypeFrame DEF Look
    <2>2. Reply("ok", Live(mem[Proc(i)], Adapters)) \in Replies
      BY ReplyTypes DEF Live
    <2> QED BY <1>10, <2>1, <2>2, EndKeeps DEF Look, At, bounds
  <1>11. ASSUME NEW i \in Ops, StartRun(i) PROVE ServiceInv'
    <2>1. FilesOK' /\ TraceOK' /\ BoundsOK'
      BY <1>0, <1>11, TypeFrame DEF StartRun
    <2>2. End(i, Failed) \/ GoesOn(i, "transfer") \/ GoesOn(i, "audit")
      BY <1>11 DEF StartRun
    <2> QED BY <1>11, <2>1, <2>2, EndKeeps, GoesOnKeeps, ReplyTypes DEF StartRun, At, bounds, Labels
  <1>12. ASSUME NEW i \in Ops, Transfer(i) PROVE ServiceInv'
    <2>1. FilesOK' /\ TraceOK' /\ BoundsOK'
      BY <1>0, <1>12, TypeFrame DEF Transfer
    <2>2. CASE ChangeAsset(i) /\ Goto(i, "print") /\ UNCHANGED <<lock, outcome>>
      BY <1>0, <1>12, <2>1, <2>2, ChangeAssetType, StepKeeps DEF Transfer, At, bounds, Labels
    <2>3. ASSUME NEW label \in {"note", "audit"}, GoesOn(i, label) PROVE ServiceInv'
      BY <1>12, <2>1, <2>3, GoesOnKeeps DEF Transfer, At, bounds, Labels
    <2> QED BY <1>12, <2>2, <2>3 DEF Transfer
  <1>13. ASSUME NEW i \in Ops, Note(i) PROVE ServiceInv'
    <2>1. FilesOK' /\ TraceOK' /\ BoundsOK'
      BY <1>0, <1>13, TypeFrame DEF Note
    <2>2. CASE ChangeAsset(i) /\ Goto(i, "save") /\ UNCHANGED <<lock, outcome>>
      BY <1>0, <1>13, <2>1, <2>2, ChangeAssetType, StepKeeps DEF Note, At, bounds, Labels
    <2>3. CASE End(i, Reply("ok", {}))
      BY <1>13, <2>1, <2>3, EndKeeps, ReplyTypes DEF Note, At, bounds
    <2> QED BY <1>13, <2>2, <2>3 DEF Note
  <1>14. ASSUME NEW i \in Ops, Write(i) PROVE ServiceInv'
    <2>1. Store(i) \in Stores /\ Proc(i) \in Procs
      BY <1>0, <1>14, AtWork DEF Write, Writing
    <2>2. FilesOK'
      <3>1. PICK ok \in BOOLEAN :
              tmp' = [tmp EXCEPT ![Store(i)] = [there |-> TRUE, whole |-> ok, data |-> mem[Proc(i)]]]
        BY <1>14 DEF Write
      <3>2. mem[Proc(i)] \in Dicts
        BY <1>0, <2>1 DEF MemOK
      <3> QED BY <1>0, <1>14, <2>1, <3>1, <3>2 DEF Write, FilesOK
    <2>3. TraceOK'
      <3>1. clash' \in BOOLEAN
        BY <1>14, Zenon DEF Write
      <3> QED BY <1>0, <1>14, <3>1 DEF Write, TraceOK
    <2>4. BoundsOK'
      BY <1>0, <1>14, TypeFrame DEF Write
    <2>5. GoesOn(i, "rename") \/ GoesOn(i, "keep")
      BY <1>14 DEF Write, AfterWrite
    <2> QED BY <1>14, <2>2, <2>3, <2>4, <2>5, GoesOnKeeps DEF Write, Writing, bounds, Labels
  <1>15. ASSUME NEW i \in Ops, Rename(i) PROVE ServiceInv'
    <2> DEFINE s == Store(i)
               new == [k \in Names |-> IF k \in s THEN tmp[s].data[k] ELSE file[k]]
    <2>1. s \in Stores /\ Proc(i) \in Procs
      BY <1>0, <1>15, AtWork DEF Rename, Renaming
    <2>2. new \in Dicts
      BY <1>0, <2>1 DEF FilesOK, Dicts
    <2>3. FilesOK'
      BY <1>0, <1>15, <2>1, <2>2, EntryTypes DEF Rename, FilesOK
    <2>4. TraceOK'
      <3>1. Alone(i) \in Procs /\ Live(new, Users) \subseteq Users
        BY BoundFacts DEF Alone, Live
      <3> QED BY <1>0, <1>15, <3>1 DEF Rename, TraceOK
    <2>5. BoundsOK'
      BY <1>0, <1>15, TypeFrame DEF Rename
    <2>6. GoesOn(i, "audit") \/ End(i, Reply("ok", {}))
      BY <1>15 DEF Rename
    <2> QED BY <1>15, <2>3, <2>4, <2>5, <2>6, GoesOnKeeps, EndKeeps, ReplyTypes
        DEF Rename, Renaming, bounds, Labels
  <1>16. ASSUME NEW i \in Ops, SaveFails(i) PROVE ServiceInv'
    <2>1. pc[i] \in {"save", "rename", "print", "keep"}
      BY <1>16 DEF SaveFails, Writing, Renaming
    <2>2. /\ tmp' \in [Stores -> [there : BOOLEAN, whole : BOOLEAN, data : Dicts]]
          /\ clash' \in BOOLEAN /\ BoundsOK'
      <3>1. CASE UNCHANGED <<tmp, clash, faults>>
        BY <1>0, <1>16, <3>1 DEF SaveFails, FilesOK, TraceOK, BoundsOK
      <3>2. CASE /\ faults < MaxFaults /\ faults' = faults + 1
                 /\ Torn(IF Writing(i) THEN {Store(i)} ELSE {})
        <4>1. PICK torn : tmp' = [s \in Stores |-> IF s \in torn THEN [NoTmp EXCEPT !.there = TRUE] ELSE tmp[s]]
          BY <3>2 DEF Torn
        <4>2. [NoTmp EXCEPT !.there = TRUE] \in [there : BOOLEAN, whole : BOOLEAN, data : Dicts]
          BY EntryTypes DEF NoTmp
        <4>3. clash' \in BOOLEAN
          BY <3>2, Zenon DEF Torn
        <4>4. BoundsOK'
          BY <1>0, <1>16, <3>2, SpendKeeps DEF SaveFails
        <4> QED BY <1>0, <4>1, <4>2, <4>3, <4>4 DEF FilesOK
      <3> QED BY <1>16, <3>1, <3>2 DEF SaveFails
    <2>3. FilesOK' /\ TraceOK'
      BY <1>0, <1>16, <2>2 DEF SaveFails, FilesOK, TraceOK
    <2>4. GoesOn(i, "audit") \/ End(i, Reply("ok", {})) \/ End(i, Failed)
      BY <1>16 DEF SaveFails
    <2> QED BY <1>16, <2>1, <2>2, <2>3, <2>4, GoesOnKeeps, EndKeeps, ReplyTypes DEF SaveFails, Labels
  <1>17. ASSUME NEW i \in Ops, Record(i) PROVE ServiceInv'
    <2>1. FilesOK' /\ TraceOK' /\ BoundsOK'
      BY <1>0, <1>17, TypeFrame DEF Record
    <2>2. Reply("ok", Named(i)) \in Replies
      BY <1>0, <1>17, AtWork, ReplyTypes DEF Record, At, Named
    <2>3. GoesOn(i, "note") \/ End(i, Reply("ok", Named(i)))
      BY <1>17 DEF Record
    <2> QED BY <1>17, <2>1, <2>2, <2>3, GoesOnKeeps, EndKeeps DEF Record, At, bounds, Labels
  <1>18. CASE UNCHANGED vars
    <2>1. FilesOK' /\ MemOK' /\ FlagsOK' /\ OpOK' /\ PlaceOK' /\ ReplyOK' /\ TraceOK' /\ BoundsOK'
      BY <1>0, <1>18, TypeFrame DEF vars, process, request
    <2>2. LockHeld'
      BY <1>0, <1>18 DEF vars, process, request, bounds, LockHeld
    <2> QED BY <1>18, <1>a, <1>b, <2>1, <2>2 DEF vars, request, bounds, ServiceInv
  <1> QED
    BY <1>1, <1>2, <1>3, <1>4, <1>5, <1>6, <1>7, <1>8, <1>9, <1>10, <1>11, <1>12, <1>13, <1>14,
       <1>15, <1>16, <1>17, <1>18, <1>20, <1>21
    DEF Next, Advance

THEOREM ServiceSafety == Spec => []ServiceInv
  BY InitService, NextService, PTL DEF Spec

(* Type correctness, and the lock: a request that does not hold it waits for *)
(* it or is over.                                                              *)
THEOREM ServiceTypes == Spec => []TypeOK
  <1>1. ServiceInv => TypeOK
    BY DEF ServiceInv
  <1> QED BY <1>1, ServiceSafety, PTL

-----------------------------------------------------------------------------
(* What the processes know of the users was once in users.json, except in a  *)
(* command that is about to write there.                                      *)
Knows(p) == \A u \in Users : mem[p][u].live => u \in granted
Grants(p) == p # 0 /\ op[p] \in Requests /\ op[p].kind = "user"
GrantInv ==
  /\ \A u \in Users : file[u].live => u \in granted
  /\ \A p \in Procs : Knows(p) \/ Grants(p)
  /\ RunsAreGranted

LEMMA UserNames == Users \subseteq Names /\ (\A u \in Users : u \notin Adapters /\ u \notin Assets)
  BY ServiceAssumption DEF Names

LEMMA LoadedUsers ==
  ASSUME TypeOK, GrantInv, NEW u \in Users, Loaded[u].live
  PROVE  u \in granted
  BY UserNames DEF GrantInv, Loaded, Nothing

(* A step that enters no transfer, forgets no grant, loads nothing into a     *)
(* file, and leaves every memory but one as it is.                             *)
LEMMA GrantFrame ==
  ASSUME ServiceInv, GrantInv, granted \subseteq granted',
         \A i \in Ops : pc'[i] = "transfer" => pc[i] = "transfer" /\ op'[i] = op[i],
         \A i \in Ops : op[i] \in Requests => op'[i] = op[i],
         \A u \in Users : file'[u].live => file[u].live \/ u \in granted',
         NEW q \in Procs, \A p \in Procs \ {q} : mem'[p] = mem[p],
         (\A u \in Users : mem'[q][u].live => mem[q][u].live \/ u \in granted') \/ Grants(q)'
  PROVE  GrantInv'
  <1>1. \A u \in Users : file'[u].live => u \in granted'
    BY DEF GrantInv
  <1>2. \A p \in Procs : Grants(p) => Grants(p)'
    BY DEF Grants, Procs, Ops
  <1>3. ASSUME NEW p \in Procs PROVE (Knows(p) \/ Grants(p))'
    <2>1. CASE p = q
      BY <1>2, <2>1 DEF GrantInv, Knows
    <2>2. CASE p # q
      BY <1>2, <2>2 DEF GrantInv, Knows
    <2> QED BY <2>1, <2>2
  <1>4. RunsAreGranted'
    BY DEF GrantInv, RunsAreGranted, At
  <1> QED BY <1>1, <1>3, <1>4 DEF GrantInv

LEMMA NothingLives == \A u \in Users : ~Nothing[u].live
  BY UserNames DEF Nothing

(* The end of an operation, which forgets what a command has loaded. *)
LEMMA GrantEnd ==
  ASSUME ServiceInv, GrantInv, NEW i \in Ops, NEW reply, End(i, reply), granted \subseteq granted',
         UNCHANGED op, \A u \in Users : file'[u].live => file[u].live \/ u \in granted'
  PROVE  GrantInv'
  <1>0. i \in Procs
    BY BoundFacts
  <1>1. \A p \in Procs \ {i} : mem'[p] = mem[p]
    BY <1>0 DEF End, ServiceInv, TypeOK
  <1>2. \A u \in Users : mem'[i][u].live => mem[i][u].live
    BY <1>0, NothingLives DEF End, ServiceInv, TypeOK
  <1>3. \A j \in Ops : pc'[j] = "transfer" => pc[j] = "transfer"
    BY DEF End, Goto, ServiceInv, TypeOK
  <1> QED BY <1>0, <1>1, <1>2, <1>3, GrantFrame

LEMMA GrantStep ==
  ASSUME ServiceInv, GrantInv, NEW i \in Ops, NEW label, label # "transfer", Goto(i, label),
         granted \subseteq granted', UNCHANGED <<mem, op>>,
         \A u \in Users : file'[u].live => file[u].live \/ u \in granted'
  PROVE  GrantInv'
  <1>1. \A j \in Ops : pc'[j] = "transfer" => pc[j] = "transfer"
    BY DEF Goto, ServiceInv, TypeOK
  <1> QED BY <1>1, GrantFrame, BoundFacts

LEMMA NextGrants == ServiceInv /\ GrantInv /\ [Next]_vars => GrantInv'
  <1> SUFFICES ASSUME ServiceInv, GrantInv, [Next]_vars PROVE GrantInv'
    OBVIOUS
  <1>0. TypeOK /\ SentInv
    BY DEF ServiceInv
  <1>1. CASE Boot
    <2>1. /\ \A p \in Procs \ {0} : mem'[p] = mem[p]
          /\ mem'[0] = Loaded
      BY <1>0, <1>1, BoundFacts DEF Boot, TypeOK
    <2>2. UNCHANGED <<file, op, pc, granted>>
      BY <1>1 DEF Boot, disk, request, trace
    <2>3. \A u \in Users : mem'[0][u].live => u \in granted'
      BY <1>0, <2>1, <2>2, LoadedUsers
    <2> QED BY <2>1, <2>2, <2>3, GrantFrame, BoundFacts
  <1>2. CASE KillServer
    <2>1. /\ \A p \in Procs \ {0} : mem'[p] = mem[p]
          /\ mem'[0] = Nothing
      BY <1>0, <1>2, BoundFacts DEF KillServer, TypeOK
    <2>2. UNCHANGED <<file, op, granted>> /\ \A i \in Ops : pc'[i] = "transfer" => pc[i] = "transfer"
      BY <1>2 DEF KillServer, Die
    <2> QED BY <2>1, <2>2, GrantFrame, BoundFacts, NothingLives
  <1>3. ASSUME NEW i \in Ops, KillCommand(i) PROVE GrantInv'
    <2>1. /\ \A p \in Procs \ {i} : mem'[p] = mem[p]
          /\ mem'[i] = Nothing
      BY <1>0, <1>3, BoundFacts DEF KillCommand, TypeOK
    <2>2. UNCHANGED <<file, op, granted>> /\ \A j \in Ops : pc'[j] = "transfer" => pc[j] = "transfer"
      BY <1>3 DEF KillCommand, Die
    <2> QED BY <2>1, <2>2, GrantFrame, BoundFacts, NothingLives
  <1>4. ASSUME NEW o, NEW via, NEW live, Send(via, o[1], o[2], live) PROVE GrantInv'
    <2>1. UNCHANGED <<file, mem, granted>>
      BY <1>4 DEF Send, disk, process, trace
    <2>2. \A i \in Ops : op[i] \in Requests => op'[i] = op[i] /\ i # ops + 1
      <3>1. ASSUME NEW i \in Ops, op[i] \in Requests PROVE i # ops + 1
        <4>1. NoRequest \notin Requests
          <5>1. \A r \in Requests : r.via # "none"
            BY DEF Requests
          <5> QED BY <5>1 DEF NoRequest
        <4>2. i <= ops
          BY <1>0, <3>1, <4>1 DEF SentInv, NotSent
        <4> QED BY <1>0, <4>2, BoundFacts DEF TypeOK
      <3> QED BY <1>0, <1>4, <3>1 DEF Send, TypeOK
    <2>3. \A i \in Ops : pc'[i] = "transfer" => pc[i] = "transfer" /\ op'[i] = op[i]
      <3>1. ASSUME NEW i \in Ops, pc'[i] = "transfer" PROVE pc[i] = "transfer"
        BY <1>0, <1>4, <3>1 DEF Send, TypeOK
      <3> QED BY <1>0, <2>2, <3>1, AtWork
    <2> QED BY <2>1, <2>2, <2>3, GrantFrame, BoundFacts
  <1>5. ASSUME NEW i \in Ops, Acquire(i) PROVE GrantInv'
    BY <1>5, GrantStep DEF Acquire, disk, trace
  <1>6. ASSUME NEW i \in Ops, Load(i) PROVE GrantInv'
    <2>1. /\ \A p \in Procs \ {i} : mem'[p] = mem[p]
          /\ mem'[i] = Loaded
      BY <1>0, <1>6, BoundFacts DEF Load, TypeOK
    <2>2. UNCHANGED <<file, op, granted>> /\ \A j \in Ops : pc'[j] = "transfer" => pc[j] = "transfer"
      BY <1>0, <1>6 DEF Load, disk, trace, Goto, TypeOK
    <2>3. \A u \in Users : mem'[i][u].live => u \in granted'
      BY <1>0, <2>1, <2>2, LoadedUsers
    <2> QED BY <2>1, <2>2, <2>3, GrantFrame, BoundFacts
  <1>7. ASSUME NEW i \in Ops, Change(i) PROVE GrantInv'
    <2>0. UNCHANGED <<file, op, granted>>
      BY <1>7 DEF Change, disk, trace
    <2>1. CASE End(i, Reply("ok", {}))
      BY <2>0, <2>1, GrantEnd
    <2>2. CASE /\ mem' = [mem EXCEPT ![Proc(i)][op[i].name] = [n |-> i, live |-> op[i].live]]
               /\ Goto(i, "save") /\ UNCHANGED <<lock, outcome>>
      <3>1. /\ op[i] \in Requests /\ op[i].name \in Names /\ Proc(i) \in Procs /\ i # 0
            /\ op[i].via = "http" => op[i].kind # "user"
            /\ op[i].kind \in {"register", "remove"} => op[i].name \in Adapters
        BY <1>0, <1>7, AtWork DEF Change, At, Ops
      <3>2. \A p \in Procs \ {Proc(i)} : mem'[p] = mem[p]
        BY <1>0, <2>2, <3>1 DEF TypeOK
      <3>3. \A j \in Ops : pc'[j] = "transfer" => pc[j] = "transfer"
        BY <1>0, <2>2 DEF Goto, TypeOK
      <3>4. CASE op[i].kind = "user"
        <4>1. PICK q \in Procs : q = Proc(i)
          BY <3>1
        <4>2. Grants(q)'
          BY <2>0, <3>1, <3>4, <4>1 DEF Grants, Proc
        <4>3. \A p \in Procs \ {q} : mem'[p] = mem[p]
          BY <3>2, <4>1
        <4>4. \A j \in Ops : op'[j] = op[j]
          BY <2>0
        <4> QED BY <2>0, <3>3, <4>2, <4>3, <4>4, GrantFrame
      <3>5. CASE op[i].kind # "user"
        <4>1. op[i].name \notin Users
          <5>1. CASE op[i].kind \in {"register", "remove"}
            BY <3>1, <5>1, UserNames
          <5>2. CASE op[i].kind = "asset"
            <6>1. IsSent(i)
              BY <1>0, <1>7, AtWork DEF Change, At, SentInv, NotSent
            <6>2. op[i].name \in Targets("asset")
              BY <5>2, <6>1, TargetTypes DEF IsSent
            <6> QED BY <6>2, UserNames DEF Targets
          <5> QED BY <1>7, <3>5, <5>1, <5>2 DEF Change
        <4>2. \A u \in Users : mem'[Proc(i)][u] = mem[Proc(i)][u]
          BY <1>0, <2>2, <3>1, <4>1 DEF TypeOK, Dicts
        <4> QED BY <2>0, <3>1, <3>2, <3>3, <4>2, GrantFrame
      <3> QED BY <3>4, <3>5
    <2> QED BY <1>7, <2>1, <2>2 DEF Change
  <1>8. ASSUME NEW i \in Ops, Refuse(i) \/ RecordFails(i) \/ Look(i) PROVE GrantInv'
    <2>1. UNCHANGED <<file, op, granted>>
      BY <1>8 DEF Refuse, RecordFails, Look, disk, trace
    <2>2. \E reply : End(i, reply)
      BY <1>8 DEF Refuse, RecordFails, Look
    <2> QED BY <2>1, <2>2, GrantEnd
  <1>9. ASSUME NEW i \in Ops, ChangeShare(i) \/ ReplaceShare(i) \/ Record(i) \/ SaveFails(i) \/ Write(i)
        PROVE  GrantInv'
    <2>1. UNCHANGED <<file, op, granted>>
      BY <1>9 DEF ChangeShare, ReplaceShare, Record, SaveFails, Write, disk, trace
    <2>2. \/ \E reply : End(i, reply)
          \/ \E label \in {"replace", "audit", "note", "rename", "keep"} : GoesOn(i, label)
      BY <1>9 DEF ChangeShare, ReplaceShare, Record, SaveFails, Write, AfterWrite
    <2> QED BY <2>1, <2>2, GrantEnd, GrantStep DEF GoesOn
  <1>14. ASSUME NEW i \in Ops, BadBody(i) PROVE GrantInv'
    BY <1>14, GrantStep DEF BadBody, disk, process, trace
  <1>10. ASSUME NEW i \in Ops, StartRun(i) PROVE GrantInv'
    <2>1. UNCHANGED <<file, op, granted>>
      BY <1>10 DEF StartRun, disk, trace
    <2>2. CASE End(i, Failed)
      BY <2>1, <2>2, GrantEnd
    <2>3. CASE GoesOn(i, "audit")
      BY <2>1, <2>3, GrantStep DEF GoesOn
    <2>4. CASE GoesOn(i, "transfer") /\ MayRun(Proc(i), op[i].name)
      <3>1. op[i].name \in granted
        <4>1. IsSent(i) /\ Proc(i) \in Procs
          BY <1>0, <1>10, AtWork DEF StartRun, At, SentInv, NotSent
        <4>2. op[i].name \in Users
          <5>1. op[i].name \in Targets("run")
            BY <1>10, <4>1, TargetTypes DEF IsSent, StartRun
          <5> QED BY <5>1 DEF Targets
        <4>3. ~Grants(Proc(i))
          BY <1>10 DEF StartRun, Grants, Proc
        <4> QED BY <2>4, <4>1, <4>2, <4>3 DEF GrantInv, Knows, MayRun
      <3>2. mem' = mem /\ \A j \in Ops \ {i} : pc'[j] = pc[j]
        BY <1>0, <2>4 DEF GoesOn, Goto, TypeOK
      <3>3. RunsAreGranted'
        BY <2>1, <3>1, <3>2 DEF GrantInv, RunsAreGranted, At
      <3> QED BY <2>1, <3>2, <3>3 DEF GrantInv, Knows, Grants
    <2> QED BY <1>10, <2>2, <2>3, <2>4 DEF StartRun
  <1>11. ASSUME NEW i \in Ops, Transfer(i) \/ Note(i) PROVE GrantInv'
    <2>1. UNCHANGED <<file, op, granted>>
      BY <1>11 DEF Transfer, Note, disk, trace
    <2>2. CASE End(i, Reply("ok", {}))
      BY <2>1, <2>2, GrantEnd
    <2>3. ASSUME NEW label \in {"note", "audit"}, GoesOn(i, label) PROVE GrantInv'
      BY <2>1, <2>3, GrantStep DEF GoesOn
    <2>4. ASSUME NEW label \in {"print", "save"}, ChangeAsset(i), Goto(i, label) PROVE GrantInv'
      <3>1. Proc(i) \in Procs
        BY <1>0, <1>11, AtWork DEF Transfer, Note, At
      <3>2. \A p \in Procs \ {Proc(i)} : mem'[p] = mem[p]
        BY <1>0, <2>4, <3>1 DEF ChangeAsset, TypeOK
      <3>3. \A u \in Users : mem'[Proc(i)][u] = mem[Proc(i)][u]
        BY <1>0, <2>4, <3>1, UserNames DEF ChangeAsset, TypeOK
      <3>4. \A j \in Ops : pc'[j] = "transfer" => pc[j] = "transfer"
        BY <1>0, <2>4 DEF Goto, TypeOK
      <3> QED BY <2>1, <3>1, <3>2, <3>3, <3>4, GrantFrame
    <2> QED BY <1>11, <2>2, <2>3, <2>4 DEF Transfer, Note
  <1>12. ASSUME NEW i \in Ops, Rename(i) PROVE GrantInv'
    <2>1. granted \subseteq granted' /\ op' = op
      BY <1>12 DEF Rename
    <2>2. \A u \in Users : file'[u].live => u \in granted'
      BY <1>12, UserNames DEF Rename, Live
    <2>3. GoesOn(i, "audit") \/ End(i, Reply("ok", {}))
      BY <1>12 DEF Rename
    <2> QED BY <2>1, <2>2, <2>3, GrantEnd, GrantStep DEF GoesOn
  <1>13. CASE UNCHANGED vars
    BY <1>13 DEF vars, disk, process, request, trace, GrantInv, Knows, Grants, RunsAreGranted, At
  <1> QED
    BY <1>1, <1>2, <1>3, <1>4, <1>5, <1>6, <1>7, <1>8, <1>9, <1>10, <1>11, <1>12, <1>13, <1>14
    DEF Next, Advance

(* A share runs only for users whom users.json has let run shares: however   *)
(* old the users are that a process has loaded.                                *)
THEOREM OnlyGrantedRun == Spec => []RunsAreGranted
  <1>1. Init => GrantInv
    <2> SUFFICES ASSUME Init PROVE GrantInv
      OBVIOUS
    <2>1. \A u \in Users : ~file[u].live
      <3>1. PICK known \in SUBSET Assets :
              file = [k \in Names |-> [n |-> 0, live |-> k \in Adapters \cup known]]
        BY DEF Init
      <3>2. \A u \in Users : u \in Names /\ u \notin Adapters /\ u \notin Assets
        BY ServiceAssumption DEF Names
      <3> QED BY <3>1, <3>2
    <2>2. \A p \in Procs : mem[p] = Nothing
      BY DEF Init
    <2>3. \A p \in Procs : Knows(p)
      BY <2>2, NothingLives DEF Knows
    <2>4. RunsAreGranted
      BY DEF Init, RunsAreGranted, At
    <2> QED BY <2>1, <2>3, <2>4 DEF GrantInv
  <1>2. GrantInv => RunsAreGranted
    BY DEF GrantInv
  <1> QED BY <1>1, <1>2, NextGrants, ServiceSafety, PTL DEF Spec

-----------------------------------------------------------------------------
(* Only a run transfers, prints and notes. *)
RunPlaces == \A i \in Ops : pc[i] \in {"transfer", "print", "keep", "note"} => op[i].kind = "run"

LEMMA NextRunPlaces == ServiceInv /\ RunPlaces /\ [Next]_vars => RunPlaces'
  <1> SUFFICES ASSUME ServiceInv, RunPlaces, [Next]_vars PROVE RunPlaces'
    OBVIOUS
  <1>0. TypeOK /\ SentInv
    BY DEF ServiceInv
  <1>1. ASSUME NEW i \in Ops, NEW label, Goto(i, label), UNCHANGED op,
               label \in {"transfer", "print", "keep", "note"} => op[i].kind = "run"
        PROVE  RunPlaces'
    BY <1>0, <1>1 DEF Goto, TypeOK, RunPlaces
  <1>2. ASSUME NEW i \in Ops, Advance(i) \/ BadBody(i) \/ Refuse(i) \/ RecordFails(i) PROVE RunPlaces'
    <2>1. UNCHANGED op
      BY <1>2 DEF Advance, Acquire, Load, Change, ChangeShare, ReplaceShare, Look, StartRun, Transfer, Note,
                  Write, Rename, SaveFails, Record, BadBody, Refuse, RecordFails
    <2>2. \E label : Goto(i, label) /\ (label \in {"transfer", "print", "keep", "note"} => op[i].kind = "run")
      <3>1. CASE Acquire(i) \/ Load(i) \/ Change(i) \/ ChangeShare(i) \/ ReplaceShare(i) \/ Look(i)
        BY <3>1 DEF Acquire, Load, Change, ChangeShare, ReplaceShare, Look, GoesOn, End
      <3>2. CASE BadBody(i) \/ Refuse(i) \/ RecordFails(i) \/ Rename(i) \/ SaveFails(i) \/ Note(i)
        BY <3>2 DEF BadBody, Refuse, RecordFails, Rename, SaveFails, Note, GoesOn, End
      <3>3. CASE StartRun(i)
        BY <3>3 DEF StartRun, GoesOn, End
      <3>4. CASE Transfer(i) \/ Record(i)
        BY <3>4 DEF Transfer, Record, GoesOn, End, At, RunPlaces
      <3>5. CASE Write(i)
        BY <3>5 DEF Write, AfterWrite, GoesOn, At, RunPlaces
      <3> QED BY <1>2, <3>1, <3>2, <3>3, <3>4, <3>5 DEF Advance
    <2> QED BY <1>1, <2>1, <2>2
  <1>3. CASE Boot \/ KillServer \/ \E i \in Ops : KillCommand(i)
    BY <1>3 DEF Boot, KillServer, KillCommand, Die, request, RunPlaces
  <1>4. ASSUME NEW o, NEW via, NEW live, Send(via, o[1], o[2], live) PROVE RunPlaces'
    <2>1. \A j \in Ops : pc'[j] \in {"transfer", "print", "keep", "note"} => pc'[j] = pc[j] /\ j # ops + 1
      BY <1>0, <1>4 DEF Send, TypeOK
    <2>2. \A j \in Ops : j # ops + 1 => op'[j] = op[j]
      BY <1>0, <1>4 DEF Send, TypeOK
    <2> QED BY <2>1, <2>2 DEF RunPlaces
  <1>5. CASE UNCHANGED vars
    BY <1>5 DEF vars, request, RunPlaces
  <1> QED BY <1>2, <1>3, <1>4, <1>5 DEF Next

-----------------------------------------------------------------------------
(* The state of the abstract service, as ServesAtomically maps it. *)
AbsDict == Live(mem[0], Adapters)
AbsWant == [i \in Ops |-> Wanted(i)]
AbsStage == [i \in Ops |-> Stage(i)]
AbsReply == [i \in Ops |-> IF Served(i) THEN outcome[i] ELSE NoReply]
StageAt(label) ==
  IF label \in {"queued", "act"} THEN "pending"
  ELSE IF label = "over" THEN "answered" ELSE "applied"

LEMMA AbstractStutters ==
  ASSUME UNCHANGED <<up, AbsDict, AbsWant, AbsStage, AbsReply>>
  PROVE  UNCHANGED Abstract!vars
  BY DEF AbsDict, AbsWant, AbsStage, AbsReply, Abstract!vars

LEMMA AbstractStarts ==
  ASSUME ~up, up', AbsDict' \in SUBSET Adapters, UNCHANGED <<AbsWant, AbsStage, AbsReply>>
  PROVE  Abstract!Start
  BY DEF AbsDict, AbsWant, AbsStage, AbsReply, Abstract!Start

LEMMA AbstractStops ==
  ASSUME up, ~up', up' \in BOOLEAN, AbsDict' = {}, UNCHANGED <<AbsWant, AbsReply>>,
         AbsStage' = [i \in Ops |-> IF AbsStage[i] = "new" THEN "new" ELSE "answered"]
  PROVE  Abstract!Stop
  BY DEF AbsDict, AbsWant, AbsStage, AbsReply, Abstract!Stop

LEMMA AbstractCalls ==
  ASSUME NEW i \in Ops, up, AbsStage[i] = "new", UNCHANGED <<up, AbsDict, AbsReply>>,
         AbsStage' = [AbsStage EXCEPT ![i] = "pending"],
         \/ \E kind \in {"register", "remove"}, name \in Adapters :
              AbsWant' = [AbsWant EXCEPT ![i] = [kind |-> kind, name |-> name]]
         \/ \E kind \in {"list", "other"} : AbsWant' = [AbsWant EXCEPT ![i] = [kind |-> kind]]
  PROVE  Abstract!Call(i)
  BY DEF AbsDict, AbsWant, AbsStage, AbsReply, Abstract!Call

LEMMA AbstractEffects ==
  ASSUME NEW i \in Ops, AbsStage[i] = "pending", UNCHANGED <<up, AbsWant, AbsReply>>,
         AbsStage' = [AbsStage EXCEPT ![i] = "applied"],
         \/ AbsWant[i].kind = "register" /\ AbsDict' = AbsDict \cup {AbsWant[i].name}
         \/ AbsWant[i].kind = "remove" /\ AbsWant[i].name \in AbsDict
            /\ AbsDict' = AbsDict \ {AbsWant[i].name}
         \/ AbsWant[i].kind = "other" /\ UNCHANGED AbsDict
  PROVE  Abstract!Effect(i)
  BY DEF AbsDict, AbsWant, AbsStage, AbsReply, Abstract!Effect

LEMMA AbstractReads ==
  ASSUME NEW i \in Ops, AbsStage[i] = "pending", UNCHANGED <<up, AbsDict, AbsWant>>,
         AbsStage' = [AbsStage EXCEPT ![i] = "answered"],
         NEW r, AbsReply' = [AbsReply EXCEPT ![i] = r],
         \/ r = Failed
         \/ AbsWant[i].kind = "list" /\ r = Reply("ok", AbsDict)
         \/ AbsWant[i].kind = "remove" /\ AbsWant[i].name \notin AbsDict /\ r = Reply("ok", {})
         \/ AbsWant[i].kind = "other" /\ r = Reply("ok", {})
  PROVE  Abstract!Read(i)
  BY DEF AbsDict, AbsWant, AbsStage, AbsReply, Abstract!Read, Abstract!Ok, Abstract!Error, Reply, Failed

LEMMA AbstractFinishes ==
  ASSUME NEW i \in Ops, AbsStage[i] = "applied", UNCHANGED <<up, AbsDict, AbsWant>>,
         AbsStage' = [AbsStage EXCEPT ![i] = "answered"],
         NEW r, AbsReply' = [AbsReply EXCEPT ![i] = r],
         \/ r = Failed
         \/ r = Reply("ok", IF AbsWant[i].kind = "remove" THEN {AbsWant[i].name} ELSE {})
  PROVE  Abstract!Finish(i)
  BY DEF AbsDict, AbsWant, AbsStage, AbsReply, Abstract!Finish, Abstract!Ok, Abstract!Error, Reply, Failed

(* What is served are the requests that were sent. *)
LEMMA ServedFacts ==
  ASSUME ServiceInv, NEW i \in Ops
  PROVE  /\ Served(i) <=> op[i].via = "http"
         /\ Served(i) => AbsStage[i] = StageAt(pc[i]) /\ AbsReply[i] = outcome[i]
         /\ ~Served(i) => AbsStage[i] = "new" /\ AbsReply[i] = NoReply
         /\ AbsWant[i] = Wanted(i)
  <1>1. i \notin 1 .. ops => op[i] = NoRequest
    BY BoundFacts DEF ServiceInv, SentInv, NotSent, TypeOK, Ops
  <1>2. Served(i) <=> op[i].via = "http"
    BY <1>1 DEF Served, NoRequest
  <1> QED BY <1>2 DEF AbsStage, AbsReply, AbsWant, Stage, StageAt

(* A step that asks for nothing new leaves what is wanted, and moves nothing *)
(* but the operation it is a step of.                                          *)
LEMMA WantFrame ==
  ASSUME ServiceInv, ServiceInv', UNCHANGED op
  PROVE  UNCHANGED AbsWant /\ \A i \in Ops : Served(i)' <=> Served(i)
  <1>1. ASSUME NEW i \in Ops PROVE Served(i)' <=> Served(i)
    <2>1. i \notin 1 .. ops' => op'[i] = NoRequest
      BY BoundFacts DEF ServiceInv, SentInv, NotSent, TypeOK, Ops
    <2>2. Served(i)' <=> op'[i].via = "http"
      BY <2>1 DEF Served, NoRequest
    <2> QED BY <2>2, ServedFacts
  <1>2. ASSUME NEW i \in Ops PROVE Wanted(i)' = Wanted(i)
    BY <1>1 DEF Wanted
  <1> QED BY <1>1, <1>2 DEF AbsWant

LEMMA MoveFrame ==
  ASSUME ServiceInv, ServiceInv', UNCHANGED op, NEW i \in Ops,
         \A j \in Ops \ {i} : pc'[j] = pc[j] /\ outcome'[j] = outcome[j]
  PROVE  /\ UNCHANGED AbsWant
         /\ ~Served(i) => UNCHANGED <<AbsStage, AbsReply>>
         /\ Served(i) => /\ AbsStage' = [AbsStage EXCEPT ![i] = StageAt(pc'[i])]
                         /\ AbsReply' = [AbsReply EXCEPT ![i] = outcome'[i]]
  <1>1. UNCHANGED AbsWant /\ \A j \in Ops : Served(j)' <=> Served(j)
    BY WantFrame
  <1>2. ASSUME NEW j \in Ops \ {i}
        PROVE  Stage(j)' = Stage(j)
               /\ (IF Served(j) THEN outcome[j] ELSE NoReply)' = IF Served(j) THEN outcome[j] ELSE NoReply
    BY <1>1 DEF Stage
  <1>3. CASE ~Served(i)
    <2>1. Stage(i)' = Stage(i)
          /\ (IF Served(i) THEN outcome[i] ELSE NoReply)' = IF Served(i) THEN outcome[i] ELSE NoReply
      BY <1>1, <1>3 DEF Stage
    <2> QED BY <1>1, <1>2, <1>3, <2>1 DEF AbsStage, AbsReply
  <1>4. CASE Served(i)
    <2>1. Stage(i)' = StageAt(pc'[i])
          /\ (IF Served(i) THEN outcome[i] ELSE NoReply)' = outcome'[i]
      BY <1>1, <1>4 DEF Stage, StageAt
    <2> QED BY <1>1, <1>2, <1>4, <2>1 DEF AbsStage, AbsReply
  <1> QED BY <1>1, <1>3, <1>4

LEMMA EndMoves ==
  ASSUME ServiceInv, NEW i \in Ops, NEW reply, End(i, reply)
  PROVE  /\ pc'[i] = "over" /\ outcome'[i] = reply
         /\ \A j \in Ops \ {i} : pc'[j] = pc[j] /\ outcome'[j] = outcome[j]
         /\ mem'[0] = mem[0] /\ UNCHANGED AbsDict
  <1>1. /\ pc'[i] = "over" /\ outcome'[i] = reply
        /\ \A j \in Ops \ {i} : pc'[j] = pc[j] /\ outcome'[j] = outcome[j]
    BY DEF End, Goto, ServiceInv, TypeOK
  <1>2. mem'[0] = mem[0]
    BY BoundFacts DEF End, ServiceInv, TypeOK, Ops
  <1> QED BY <1>1, <1>2 DEF AbsDict, Live

LEMMA GotoMoves ==
  ASSUME ServiceInv, NEW i \in Ops, NEW label, Goto(i, label), UNCHANGED outcome
  PROVE  /\ pc'[i] = label /\ outcome'[i] = outcome[i]
         /\ \A j \in Ops \ {i} : pc'[j] = pc[j] /\ outcome'[j] = outcome[j]
  BY DEF Goto, ServiceInv, TypeOK

(* The steps of a request, and those that nobody sees. *)
LEMMA ServeStutters ==
  ASSUME ServiceInv, ServiceInv', UNCHANGED <<up, op, AbsDict>>, NEW i \in Ops,
         \A j \in Ops \ {i} : pc'[j] = pc[j] /\ outcome'[j] = outcome[j],
         Served(i) => StageAt(pc'[i]) = StageAt(pc[i]) /\ outcome'[i] = outcome[i]
  PROVE  UNCHANGED Abstract!vars
  <1>1. /\ UNCHANGED AbsWant
        /\ ~Served(i) => UNCHANGED <<AbsStage, AbsReply>>
        /\ Served(i) => /\ AbsStage' = [AbsStage EXCEPT ![i] = StageAt(pc'[i])]
                        /\ AbsReply' = [AbsReply EXCEPT ![i] = outcome'[i]]
    BY MoveFrame
  <1>2. Served(i) => AbsStage[i] = StageAt(pc[i]) /\ AbsReply[i] = outcome[i]
    BY ServedFacts
  <1>3. AbsStage = [j \in Ops |-> AbsStage[j]] /\ AbsReply = [j \in Ops |-> AbsReply[j]]
    BY DEF AbsStage, AbsReply
  <1>4. UNCHANGED <<AbsStage, AbsReply>>
    BY <1>1, <1>2, <1>3
  <1> QED BY <1>1, <1>4, AbstractStutters

LEMMA ServeEffects ==
  ASSUME ServiceInv, ServiceInv', UNCHANGED <<up, op, outcome>>, NEW i \in Ops, Served(i), pc[i] = "act",
         NEW label \in {"save", "replace", "audit", "transfer"}, Goto(i, label),
         \/ Wanted(i).kind = "register" /\ AbsDict' = AbsDict \cup {Wanted(i).name}
         \/ Wanted(i).kind = "remove" /\ Wanted(i).name \in AbsDict
            /\ AbsDict' = AbsDict \ {Wanted(i).name}
         \/ Wanted(i).kind = "other" /\ UNCHANGED AbsDict
  PROVE  Abstract!Effect(i)
  <1>1. pc'[i] = label /\ outcome'[i] = outcome[i]
        /\ \A j \in Ops \ {i} : pc'[j] = pc[j] /\ outcome'[j] = outcome[j]
    BY GotoMoves
  <1>2. UNCHANGED AbsWant /\ AbsStage' = [AbsStage EXCEPT ![i] = StageAt(pc'[i])]
    BY <1>1, MoveFrame
  <1>3. AbsStage[i] = "pending" /\ AbsWant[i] = Wanted(i) /\ StageAt(pc'[i]) = "applied"
    BY <1>1, ServedFacts DEF StageAt
  <1>4. UNCHANGED AbsReply
    BY WantFrame DEF AbsReply
  <1> QED BY <1>2, <1>3, <1>4, AbstractEffects

LEMMA ServeReads ==
  ASSUME ServiceInv, ServiceInv', UNCHANGED <<up, op>>, NEW i \in Ops, Served(i), pc[i] = "act",
         NEW reply, End(i, reply),
         \/ reply = Failed
         \/ Wanted(i).kind = "list" /\ reply = Reply("ok", AbsDict)
         \/ Wanted(i).kind = "remove" /\ Wanted(i).name \notin AbsDict /\ reply = Reply("ok", {})
         \/ Wanted(i).kind = "other" /\ reply = Reply("ok", {})
  PROVE  Abstract!Read(i)
  <1>1. /\ pc'[i] = "over" /\ outcome'[i] = reply /\ UNCHANGED AbsDict
        /\ \A j \in Ops \ {i} : pc'[j] = pc[j] /\ outcome'[j] = outcome[j]
    BY EndMoves
  <1>2. /\ UNCHANGED AbsWant /\ AbsStage' = [AbsStage EXCEPT ![i] = StageAt(pc'[i])]
        /\ AbsReply' = [AbsReply EXCEPT ![i] = outcome'[i]]
    BY <1>1, MoveFrame
  <1>3. AbsStage[i] = "pending" /\ AbsWant[i] = Wanted(i) /\ StageAt(pc'[i]) = "answered"
    BY <1>1, ServedFacts DEF StageAt
  <1> QED BY <1>1, <1>2, <1>3, AbstractReads

LEMMA ServeFinishes ==
  ASSUME ServiceInv, ServiceInv', UNCHANGED <<up, op>>, NEW i \in Ops, Served(i),
         pc[i] \in {"replace", "save", "rename", "audit", "transfer", "note"}, NEW reply, End(i, reply),
         \/ reply = Failed
         \/ reply = Reply("ok", IF Wanted(i).kind = "remove" THEN {Wanted(i).name} ELSE {})
  PROVE  Abstract!Finish(i)
  <1>1. /\ pc'[i] = "over" /\ outcome'[i] = reply /\ UNCHANGED AbsDict
        /\ \A j \in Ops \ {i} : pc'[j] = pc[j] /\ outcome'[j] = outcome[j]
    BY EndMoves
  <1>2. /\ UNCHANGED AbsWant /\ AbsStage' = [AbsStage EXCEPT ![i] = StageAt(pc'[i])]
        /\ AbsReply' = [AbsReply EXCEPT ![i] = outcome'[i]]
    BY <1>1, MoveFrame
  <1>3. AbsStage[i] = "applied" /\ AbsWant[i] = Wanted(i) /\ StageAt(pc'[i]) = "answered"
    BY <1>1, ServedFacts DEF StageAt
  <1> QED BY <1>1, <1>2, <1>3, AbstractFinishes

(* Whatever ends an operation that the server does not serve, nobody sees it. *)
LEMMA CommandEnds ==
  ASSUME ServiceInv, ServiceInv', UNCHANGED <<up, op>>, NEW i \in Ops, ~Served(i), NEW reply, End(i, reply)
  PROVE  UNCHANGED Abstract!vars
  BY EndMoves, ServeStutters

(* What a request wants. *)
LEMMA WantedFacts ==
  ASSUME ServiceInv, NEW i \in Ops, Served(i)
  PROVE  /\ op[i].kind \in {"register", "remove"} =>
              /\ Wanted(i).kind = op[i].kind /\ Wanted(i).name = op[i].name
              /\ Wanted(i) = [kind |-> op[i].kind, name |-> op[i].name]
         /\ op[i].kind = "list" => Wanted(i) = [kind |-> "list"] /\ Wanted(i).kind = "list"
         /\ op[i].kind \notin {"register", "remove", "list"} =>
              Wanted(i) = [kind |-> "other"] /\ Wanted(i).kind = "other"
  BY DEF Wanted

(* What the server sends next is a call, a command is nothing to it. *)
LEMMA SendServes ==
  ASSUME ServiceInv, ServiceInv', NEW via \in {"http", "cli"}, NEW kind, NEW k, NEW live \in BOOLEAN,
         <<kind, k>> \in Remote \cup Local, Send(via, kind, k, live)
  PROVE  UNCHANGED Abstract!vars \/ \E i \in Ops : Abstract!Call(i)
  <1> DEFINE new == [via |-> via, kind |-> kind, name |-> k, live |-> live]
  <1>a. ops + 1 \in Ops
    BY BoundFacts DEF Send, ServiceInv, TypeOK, Ops
  <1>b. PICK n \in Ops : n = ops + 1
    BY <1>a
  <1>0. ops' = n /\ n \in Ops /\ n \notin 1 .. ops
    BY <1>b, BoundFacts DEF Send, ServiceInv, TypeOK, Ops
  <1>1. /\ op'[n] = new /\ pc'[n] = IF via = "http" THEN "queued" ELSE "load"
        /\ \A i \in Ops \ {n} : op'[i] = op[i] /\ pc'[i] = pc[i]
    BY <1>b DEF Send, ServiceInv, TypeOK
  <1>c. UNCHANGED up /\ UNCHANGED mem /\ UNCHANGED outcome
    BY DEF Send, process
  <1>d. via = "http" => up
    BY DEF Send
  <1>2. UNCHANGED AbsDict
    BY <1>c DEF AbsDict, Live
  <1>3. op[n].via # "http" /\ ~Served(n) /\ outcome[n] = NoReply
    <2>1. op[n] = NoRequest /\ outcome[n] = NoReply
      BY <1>0, <1>b, BoundFacts DEF ServiceInv, SentInv, NotSent, TypeOK, Ops
    <2> QED BY <1>0, <2>1 DEF Served, NoRequest
  <1>4. ASSUME NEW i \in Ops \ {n}
        PROVE  Served(i)' = Served(i) /\ Wanted(i)' = Wanted(i) /\ Stage(i)' = Stage(i)
    <2>1. i \in 1 .. ops' <=> i \in 1 .. ops
      BY <1>0, <1>b, BoundFacts DEF ServiceInv, TypeOK, Ops
    <2>2. Served(i)' = Served(i)
      BY <1>1, <2>1 DEF Served
    <2>3. Wanted(i)' = Wanted(i)
      BY <1>1, <2>2 DEF Wanted
    <2> QED BY <1>1, <2>2, <2>3 DEF Stage
  <1>5. n \in 1 .. ops' /\ (Served(n)' <=> via = "http")
    BY <1>0, <1>1, BoundFacts DEF ServiceInv, TypeOK, Ops, Served
  <1>e. outcome'[n] = NoReply
    BY <1>c, <1>3
  <1>6. UNCHANGED AbsReply
    BY <1>c, <1>3, <1>4, <1>e DEF AbsReply
  <1>7. CASE via # "http"
    <2>1. Wanted(n)' = Wanted(n) /\ Stage(n)' = Stage(n)
      BY <1>3, <1>5, <1>7 DEF Wanted, Stage
    <2>2. UNCHANGED <<AbsWant, AbsStage>>
      BY <1>4, <2>1 DEF AbsWant, AbsStage
    <2> QED BY <1>c, <1>2, <1>6, <2>2, AbstractStutters
  <1>8. CASE via = "http"
    <2>1. AbsStage[n] = "new"
      BY <1>0, <1>3 DEF AbsStage, Stage
    <2>2. Stage(n)' = "pending"
      BY <1>1, <1>5, <1>8 DEF Stage
    <2>3. AbsStage' = [AbsStage EXCEPT ![n] = "pending"]
      BY <1>0, <1>4, <2>2 DEF AbsStage
    <2>4. AbsWant' = [AbsWant EXCEPT ![n] = Wanted(n)']
      BY <1>0, <1>4 DEF AbsWant
    <2>5. \/ kind \in {"register", "remove"} /\ k \in Adapters /\ Wanted(n)' = [kind |-> kind, name |-> k]
          \/ \E other \in {"list", "other"} : Wanted(n)' = [kind |-> other]
      BY <1>1, <1>5, <1>8, TargetTypes DEF Wanted
    <2>6. Abstract!Call(n)
      BY <1>c, <1>d, <1>2, <1>6, <1>8, <2>1, <2>3, <2>4, <2>5, AbstractCalls
    <2> QED BY <2>6
  <1> QED BY <1>7, <1>8

(* One step per action: the change of a dictionary is where a request takes  *)
(* effect, the end is its reply.                                               *)
LEMMA ChangeServes ==
  ASSUME ServiceInv, ServiceInv', NEW i \in Ops, Change(i)
  PROVE  UNCHANGED Abstract!vars \/ Abstract!Effect(i) \/ Abstract!Read(i)
  <1> DEFINE k == op[i].name
  <1>0. TypeOK /\ SentInv /\ UNCHANGED <<up, op>> /\ pc[i] = "act"
    BY DEF ServiceInv, Change, At, disk
  <1>1. /\ i \in 1 .. ops /\ op[i] \in Requests /\ k \in Names /\ Proc(i) \in Procs /\ op[i].live \in BOOLEAN
        /\ op[i].kind \in {"register", "remove"} => k \in Adapters
        /\ op[i].via = "http" => op[i].kind \in {"register", "remove"}
    BY <1>0, AtWork DEF Change
  <1>2. CASE ~Served(i)
    <2>1. CASE End(i, Reply("ok", {}))
      BY <1>0, <1>2, <2>1, CommandEnds
    <2>2. CASE /\ mem' = [mem EXCEPT ![Proc(i)][k] = [n |-> i, live |-> op[i].live]]
               /\ Goto(i, "save") /\ UNCHANGED <<lock, outcome>>
      <3>1. Proc(i) # 0
        BY <1>2, ServedFacts, BoundFacts DEF Proc, Ops
      <3>2. mem'[0] = mem[0]
        BY <1>0, <2>2, <3>1, BoundFacts DEF TypeOK
      <3>3. UNCHANGED AbsDict
        BY <3>2 DEF AbsDict, Live
      <3> QED BY <1>0, <1>2, <2>2, <3>3, GotoMoves, ServeStutters
    <2> QED BY <2>1, <2>2 DEF Change
  <1>3. CASE Served(i)
    <2>0. /\ op[i].via = "http" /\ op[i].kind \in {"register", "remove"} /\ k \in Adapters /\ Proc(i) = 0
          /\ Wanted(i).kind = op[i].kind /\ Wanted(i).name = k
      BY <1>1, <1>3, ServedFacts, WantedFacts DEF Proc
    <2>1. CASE op[i].kind = "remove" /\ ~mem[0][k].live
      <3>1. End(i, Reply("ok", {}))
        BY <2>0, <2>1 DEF Change
      <3>2. k \notin AbsDict
        BY <2>1 DEF AbsDict, Live
      <3> QED BY <1>0, <1>3, <2>0, <2>1, <3>1, <3>2, ServeReads
    <2>2. CASE ~(op[i].kind = "remove" /\ ~mem[0][k].live)
      <3>1. /\ mem' = [mem EXCEPT ![0][k] = [n |-> i, live |-> op[i].live]]
            /\ Goto(i, "save") /\ UNCHANGED <<lock, outcome>>
        BY <2>0, <2>2 DEF Change
      <3>2. /\ mem'[0][k].live = op[i].live
            /\ \A a \in Adapters \ {k} : mem'[0][a].live = mem[0][a].live
        <4>1. mem'[0] = [mem[0] EXCEPT ![k] = [n |-> i, live |-> op[i].live]]
          BY <1>0, <3>1, BoundFacts DEF TypeOK
        <4>2. mem[0] \in Dicts
          BY <1>0, BoundFacts DEF TypeOK
        <4>3. mem'[0][k] = [n |-> i, live |-> op[i].live] /\ \A a \in Names \ {k} : mem'[0][a] = mem[0][a]
          BY <1>1, <4>1, <4>2 DEF Dicts
        <4> QED BY <4>3 DEF Names
      <3>3. op[i].live <=> op[i].kind = "register"
        <4>1. Means(i)
          BY <1>0, <1>1 DEF SentInv, IsSent, NotSent
        <4> QED BY <2>0, <4>1 DEF Means
      <3>4. \/ op[i].kind = "register" /\ AbsDict' = AbsDict \cup {k}
            \/ op[i].kind = "remove" /\ k \in AbsDict /\ AbsDict' = AbsDict \ {k}
        BY <2>0, <2>2, <3>2, <3>3 DEF AbsDict, Live
      <3> QED BY <1>0, <1>3, <2>0, <3>1, <3>4, ServeEffects
    <2> QED BY <2>1, <2>2
  <1> QED BY <1>2, <1>3

LEMMA GoesOnServes ==
  ASSUME ServiceInv, ServiceInv', UNCHANGED <<up, op>>, NEW i \in Ops, NEW label, GoesOn(i, label),
         Served(i) => StageAt(label) = StageAt(pc[i])
  PROVE  UNCHANGED Abstract!vars
  <1>1. UNCHANGED AbsDict
    BY DEF GoesOn, AbsDict, Live
  <1> QED BY <1>1, GotoMoves, ServeStutters DEF GoesOn

LEMMA StartServes ==
  ASSUME ServiceInv, ServiceInv', Boot
  PROVE  Abstract!Start
  <1>1. UNCHANGED op /\ UNCHANGED pc /\ UNCHANGED outcome /\ ~up /\ up'
    BY DEF Boot, request
  <1>2. UNCHANGED AbsWant /\ \A i \in Ops : Served(i)' <=> Served(i)
    BY <1>1, WantFrame
  <1>3. UNCHANGED AbsStage /\ UNCHANGED AbsReply
    BY <1>1, <1>2 DEF AbsStage, AbsReply, Stage
  <1>4. AbsDict' \in SUBSET Adapters
    BY DEF AbsDict, Live
  <1> QED BY <1>1, <1>2, <1>3, <1>4, AbstractStarts

LEMMA StopServes ==
  ASSUME ServiceInv, ServiceInv', KillServer
  PROVE  Abstract!Stop
  <1>1. UNCHANGED op /\ UNCHANGED outcome /\ up /\ ~up' /\ up' \in BOOLEAN
    BY DEF KillServer
  <1>2. UNCHANGED AbsWant /\ \A i \in Ops : Served(i)' <=> Served(i)
    BY <1>1, WantFrame
  <1>3. UNCHANGED AbsReply
    BY <1>1, <1>2 DEF AbsReply
  <1>4. AbsDict' = {}
    <2>1. mem'[0] = Nothing
      BY BoundFacts DEF KillServer, ServiceInv, TypeOK
    <2> QED BY <2>1 DEF AbsDict, Live, Nothing, Names
  <1>5. ASSUME NEW i \in Ops
        PROVE  Stage(i)' = IF AbsStage[i] = "new" THEN "new" ELSE "answered"
    <2>1. CASE Served(i)
      <3>1. pc'[i] = "over"
        BY <2>1 DEF KillServer, Die, Served
      <3>2. AbsStage[i] # "new"
        BY <2>1, ServedFacts DEF StageAt
      <3> QED BY <1>2, <2>1, <3>1, <3>2 DEF Stage
    <2>2. CASE ~Served(i)
      BY <1>2, <2>2, ServedFacts DEF Stage
    <2> QED BY <2>1, <2>2
  <1>6. AbsStage' = [i \in Ops |-> IF AbsStage[i] = "new" THEN "new" ELSE "answered"]
    BY <1>5 DEF AbsStage
  <1> QED BY <1>1, <1>2, <1>3, <1>4, <1>6, AbstractStops

LEMMA BadBodyServes ==
  ASSUME ServiceInv, ServiceInv', NEW i \in Ops, BadBody(i)
  PROVE  UNCHANGED Abstract!vars \/ Abstract!Read(i)
  <1>0. UNCHANGED up /\ UNCHANGED op /\ UNCHANGED mem /\ pc[i] = "queued"
    BY DEF BadBody, At, process
  <1>1. /\ pc'[i] = "over" /\ outcome'[i] = Failed
        /\ \A j \in Ops \ {i} : pc'[j] = pc[j] /\ outcome'[j] = outcome[j]
    BY DEF BadBody, Goto, ServiceInv, TypeOK
  <1>2. UNCHANGED AbsDict
    BY <1>0 DEF AbsDict, Live
  <1>3. CASE ~Served(i)
    BY <1>0, <1>1, <1>2, <1>3, ServeStutters
  <1>4. CASE Served(i)
    <2>1. /\ UNCHANGED AbsWant /\ AbsStage' = [AbsStage EXCEPT ![i] = StageAt(pc'[i])]
          /\ AbsReply' = [AbsReply EXCEPT ![i] = outcome'[i]]
      BY <1>0, <1>1, <1>4, MoveFrame
    <2>2. AbsStage[i] = "pending" /\ StageAt(pc'[i]) = "answered"
      BY <1>0, <1>1, <1>4, ServedFacts DEF StageAt
    <2> QED BY <1>0, <1>1, <1>2, <2>1, <2>2, AbstractReads
  <1> QED BY <1>3, <1>4

LEMMA NextServes ==
  ServiceInv /\ RunPlaces /\ ServiceInv' /\ [Next]_vars => [Abstract!Next]_(Abstract!vars)
  <1> SUFFICES ASSUME ServiceInv, RunPlaces, ServiceInv', [Next]_vars
               PROVE  Abstract!Next \/ UNCHANGED Abstract!vars
    OBVIOUS
  <1> DEFINE Serves == \/ UNCHANGED Abstract!vars
                       \/ \E j \in Ops : \/ Abstract!Call(j) \/ Abstract!Effect(j)
                                         \/ Abstract!Read(j) \/ Abstract!Finish(j)
  <1>0. TypeOK /\ SentInv
    BY DEF ServiceInv
  <1>1. CASE Boot
    BY <1>1, StartServes DEF Abstract!Next
  <1>2. CASE KillServer
    BY <1>2, StopServes DEF Abstract!Next
  <1>3. ASSUME NEW i \in Ops, KillCommand(i) PROVE Serves
    <2>1. ~Served(i) /\ mem'[0] = mem[0]
      BY <1>0, <1>3, BoundFacts DEF KillCommand, Working, Served, TypeOK, Ops
    <2>2. UNCHANGED up /\ UNCHANGED op /\ UNCHANGED outcome
      BY <1>3 DEF KillCommand
    <2>3. UNCHANGED AbsDict
      BY <2>1 DEF AbsDict, Live
    <2>4. \A j \in Ops \ {i} : pc'[j] = pc[j] /\ outcome'[j] = outcome[j]
      BY <1>3, <2>2 DEF KillCommand, Die
    <2> QED BY <2>1, <2>2, <2>3, <2>4, ServeStutters
  <1>4. ASSUME NEW o \in Remote \cup Local, NEW via \in {"http", "cli"}, NEW live \in BOOLEAN,
               Send(via, o[1], o[2], live)
        PROVE  Serves
    <2>1. <<o[1], o[2]>> \in Remote \cup Local
      BY <1>4 DEF Send
    <2> QED BY <1>4, <2>1, SendServes
  <1>5. ASSUME NEW i \in Ops, Acquire(i) PROVE Serves
    <2>1. UNCHANGED up /\ UNCHANGED op /\ UNCHANGED outcome /\ UNCHANGED mem
      BY <1>5 DEF Acquire, trace
    <2>2. pc[i] = "queued" /\ Goto(i, "act") /\ UNCHANGED AbsDict
      BY <1>5, <2>1 DEF Acquire, At, AbsDict, Live
    <2> QED BY <2>1, <2>2, GotoMoves, ServeStutters DEF StageAt
  <1>6. ASSUME NEW i \in Ops, Load(i) PROVE Serves
    <2>1. UNCHANGED up /\ UNCHANGED op /\ UNCHANGED outcome /\ Goto(i, "act")
      BY <1>6 DEF Load
    <2>2. ~Served(i)
      BY <1>0, <1>6, ServedFacts DEF Load, At, SentInv, IsSent, NotSent
    <2>3. mem'[0] = mem[0]
      BY <1>0, <1>6, BoundFacts DEF Load, TypeOK, Ops
    <2>4. UNCHANGED AbsDict
      BY <2>3 DEF AbsDict, Live
    <2> QED BY <2>1, <2>2, <2>4, GotoMoves, ServeStutters
  <1>7. ASSUME NEW i \in Ops, Change(i) PROVE Serves
    BY <1>7, ChangeServes
  <1>8. ASSUME NEW i \in Ops, ChangeShare(i) PROVE Serves
    <2>1. UNCHANGED up /\ UNCHANGED op /\ pc[i] = "act" /\ op[i].kind \in {"define", "delete"}
      BY <1>8 DEF ChangeShare, At
    <2>2. Served(i) => Wanted(i).kind = "other" /\ op[i].via = "http"
      BY <2>1, WantedFacts, ServedFacts
    <2>3. CASE GoesOn(i, "replace")
      <3>1. CASE ~Served(i)
        BY <2>1, <2>3, <3>1, GoesOnServes
      <3>2. CASE Served(i)
        <4>1. UNCHANGED outcome /\ Goto(i, "replace") /\ UNCHANGED AbsDict
          BY <2>3 DEF GoesOn, AbsDict, Live
        <4> QED BY <2>1, <2>2, <3>2, <4>1, ServeEffects
      <3> QED BY <3>1, <3>2
    <2>4. CASE End(i, Reply("ok", {})) \/ (End(i, Failed) /\ ~Served(i))
      <3>1. CASE ~Served(i)
        BY <2>1, <2>4, <3>1, CommandEnds
      <3>2. CASE Served(i)
        BY <2>1, <2>2, <2>4, <3>2, ServeReads
      <3> QED BY <3>1, <3>2
    <2>5. GoesOn(i, "replace") \/ End(i, Reply("ok", {})) \/ (End(i, Failed) /\ ~Served(i))
      BY <1>8, ServedFacts DEF ChangeShare, Failed
    <2> QED BY <2>3, <2>4, <2>5
  <1>9. ASSUME NEW i \in Ops, Refuse(i) PROVE Serves
    <2>1. UNCHANGED up /\ UNCHANGED op /\ pc[i] \in {"act", "replace"} /\ End(i, Failed)
      BY <1>9 DEF Refuse
    <2> QED BY <2>1, CommandEnds, ServeReads, ServeFinishes
  <1>20. ASSUME NEW i \in Ops, BadBody(i) PROVE Serves
    BY <1>20, BadBodyServes
  <1>21. ASSUME NEW i \in Ops, ReplaceShare(i) PROVE Serves
    <2>1. UNCHANGED up /\ UNCHANGED op /\ pc[i] = "replace" /\ GoesOn(i, "audit")
      BY <1>21 DEF ReplaceShare, At
    <2> QED BY <2>1, GoesOnServes DEF StageAt
  <1>10. ASSUME NEW i \in Ops, Look(i) PROVE Serves
    <2>1. UNCHANGED up /\ UNCHANGED op /\ pc[i] = "act" /\ op[i].kind = "list"
          /\ End(i, Reply("ok", Live(mem[Proc(i)], Adapters)))
      BY <1>10 DEF Look, At
    <2>2. Served(i) => Wanted(i).kind = "list" /\ End(i, Reply("ok", AbsDict))
      BY <2>1, WantedFacts, ServedFacts DEF Proc, AbsDict
    <2> QED BY <2>1, <2>2, CommandEnds, ServeReads
  <1>11. ASSUME NEW i \in Ops, StartRun(i) PROVE Serves
    <2>1. UNCHANGED up /\ UNCHANGED op /\ pc[i] = "act" /\ op[i].kind = "run"
      BY <1>11 DEF StartRun, At
    <2>2. CASE End(i, Failed)
      BY <2>1, <2>2, CommandEnds, ServeReads
    <2>3. ASSUME NEW label \in {"transfer", "audit"}, GoesOn(i, label) PROVE Serves
      <3>1. CASE ~Served(i)
        BY <2>1, <2>3, <3>1, GoesOnServes
      <3>2. CASE Served(i)
        <4>1. UNCHANGED outcome /\ Goto(i, label) /\ UNCHANGED AbsDict
          BY <2>3 DEF GoesOn, AbsDict, Live
        <4> QED BY <2>1, <3>2, <4>1, WantedFacts, ServeEffects
      <3> QED BY <3>1, <3>2
    <2> QED BY <1>11, <2>2, <2>3 DEF StartRun
  <1>12. ASSUME NEW i \in Ops, Write(i) PROVE Serves
    <2>1. UNCHANGED up /\ UNCHANGED op
      BY <1>12 DEF Write
    <2>2. pc[i] \in {"save", "print"} /\ (GoesOn(i, "rename") \/ GoesOn(i, "keep"))
      BY <1>12 DEF Write, Writing, AfterWrite
    <2> QED BY <2>1, <2>2, GoesOnServes DEF StageAt
  <1>13. ASSUME NEW i \in Ops, Transfer(i) \/ Note(i) PROVE Serves
    <2>1. UNCHANGED up /\ UNCHANGED op /\ pc[i] \in {"transfer", "note"}
      BY <1>13 DEF Transfer, Note, At
    <2>2. ASSUME NEW label \in {"note", "audit"}, GoesOn(i, label) PROVE Serves
      BY <2>1, <2>2, GoesOnServes DEF StageAt
    <2>3. ASSUME NEW label \in {"print", "save"}, ChangeAsset(i), Goto(i, label), UNCHANGED outcome PROVE Serves
      <3>1. \A k \in Adapters : k \in Names /\ k \notin Assets
        BY ServiceAssumption DEF Names
      <3>2. \A k \in Adapters : mem'[0][k] = mem[0][k]
        BY <1>0, <2>3, <3>1, BoundFacts DEF ChangeAsset, TypeOK
      <3>3. UNCHANGED AbsDict
        BY <3>2 DEF AbsDict, Live
      <3> QED BY <2>1, <2>3, <3>3, GotoMoves, ServeStutters DEF StageAt
    <2>4. CASE pc[i] = "note" /\ End(i, Reply("ok", {}))
      <3>1. Served(i) => op[i].kind = "run"
        BY <2>1 DEF RunPlaces
      <3>2. Served(i) => Wanted(i).kind # "remove"
        BY <3>1, WantedFacts
      <3> QED BY <2>1, <2>4, <3>2, CommandEnds, ServeFinishes
    <2> QED BY <1>13, <2>2, <2>3, <2>4 DEF Transfer, Note, At
  <1>14. ASSUME NEW i \in Ops, Rename(i) PROVE Serves
    <2>1. UNCHANGED up /\ UNCHANGED op /\ pc[i] \in {"rename", "keep"}
      BY <1>14 DEF Rename, Renaming
    <2>2. CASE GoesOn(i, "audit")
      BY <2>1, <2>2, GoesOnServes DEF StageAt
    <2>3. CASE pc[i] = "rename" /\ End(i, Reply("ok", {})) /\ ~Audited(i)
      <3>1. Served(i) => Wanted(i).kind # "remove"
        BY <2>3, WantedFacts DEF Audited
      <3> QED BY <2>1, <2>3, <3>1, CommandEnds, ServeFinishes
    <2> QED BY <1>14, <2>1, <2>2, <2>3 DEF Rename, At
  <1>15. ASSUME NEW i \in Ops, SaveFails(i) PROVE Serves
    <2>1. UNCHANGED up /\ UNCHANGED op /\ pc[i] \in {"save", "rename", "print", "keep"}
      BY <1>15 DEF SaveFails, Writing, Renaming
    <2>2. \/ GoesOn(i, "audit")
          \/ pc[i] \in {"save", "rename"} /\ End(i, Failed)
          \/ pc[i] \in {"save", "rename"} /\ op[i].kind = "run" /\ End(i, Reply("ok", {}))
      BY <1>15, <2>1 DEF SaveFails
    <2>3. Served(i) /\ op[i].kind = "run" => Wanted(i).kind # "remove"
      BY WantedFacts
    <2> QED BY <2>1, <2>2, <2>3, GoesOnServes, CommandEnds, ServeFinishes DEF StageAt
  <1>16. ASSUME NEW i \in Ops, Record(i) PROVE Serves
    <2>1. UNCHANGED up /\ UNCHANGED op /\ pc[i] = "audit"
      BY <1>16 DEF Record, At
    <2>2. CASE GoesOn(i, "note")
      BY <2>1, <2>2, GoesOnServes DEF StageAt
    <2>3. CASE End(i, Reply("ok", Named(i)))
      <3>1. Served(i) => Named(i) = IF Wanted(i).kind = "remove" THEN {Wanted(i).name} ELSE {}
        BY WantedFacts DEF Named
      <3> QED BY <2>1, <2>3, <3>1, CommandEnds, ServeFinishes
    <2> QED BY <1>16, <2>2, <2>3 DEF Record
  <1>17. ASSUME NEW i \in Ops, RecordFails(i) PROVE Serves
    <2>1. UNCHANGED up /\ UNCHANGED op /\ pc[i] \in {"audit", "transfer"} /\ End(i, Failed)
      BY <1>17 DEF RecordFails, At
    <2> QED BY <2>1, CommandEnds, ServeFinishes
  <1>18. CASE UNCHANGED vars
    <2>1. UNCHANGED up /\ UNCHANGED mem /\ UNCHANGED op /\ UNCHANGED pc /\ UNCHANGED outcome /\ UNCHANGED ops
      BY <1>18 DEF vars, process, request, bounds
    <2>2. UNCHANGED AbsDict /\ UNCHANGED AbsWant /\ UNCHANGED AbsStage /\ UNCHANGED AbsReply
      BY <2>1 DEF AbsDict, AbsWant, AbsStage, AbsReply, Live, Served, Wanted, Stage
    <2> QED BY <2>1, <2>2, AbstractStutters
  <1> HIDE DEF Serves
  <1>19. Serves => Abstract!Next \/ UNCHANGED Abstract!vars
    BY DEF Serves, Abstract!Next
  <1> QED
    BY <1>1, <1>2, <1>3, <1>4, <1>5, <1>6, <1>7, <1>8, <1>9, <1>10, <1>11, <1>12, <1>13, <1>14,
       <1>15, <1>16, <1>17, <1>18, <1>19, <1>20, <1>21
    DEF Next, Advance

LEMMA InitServes == Init => Abstract!Init
  <1> SUFFICES ASSUME Init PROVE Abstract!Init
    OBVIOUS
  <1>1. \A i \in Ops : ~Served(i)
    BY DEF Init, Served
  <1>2. Live(mem[0], Adapters) = {}
    BY BoundFacts DEF Init, Live, Nothing, Names
  <1>3. [i \in Ops |-> Wanted(i)] = [i \in Ops |-> [kind |-> "none"]]
        /\ [i \in Ops |-> Stage(i)] = [i \in Ops |-> "new"]
    BY <1>1 DEF Wanted, Stage
  <1>4. [i \in Ops |-> IF Served(i) THEN outcome[i] ELSE NoReply]
          = [i \in Ops |-> [status |-> "none", names |-> {}]]
    BY <1>1 DEF NoReply, Reply
  <1> QED BY <1>2, <1>3, <1>4 DEF Init, Abstract!Init, Abstract!Nothing

(* The server implements the abstract service: whatever fails, and whatever   *)
(* is killed, each request takes effect at most once, at one instant between   *)
(* its arrival and its reply, and commands do not show until a restart.         *)
THEOREM ServiceIsAtomic == Spec => ServesAtomically
  <1>1. ServiceInv /\ [Next]_vars => ServiceInv'
    BY NextService
  <1>2. Init => RunPlaces
    BY DEF Init, RunPlaces
  <1> QED
    BY <1>1, <1>2, InitService, InitServes, NextRunPlaces, NextServes, PTL
    DEF Spec, ServesAtomically, Abstract!Spec

-----------------------------------------------------------------------------
(* What a saved change is worth.  An entry is good if it is the last one that *)
(* was saved alone, or the one of an operation that was answered with an     *)
(* error; a process may hold one that it has not saved yet, or, in a run, has  *)
(* failed to save.  The share is noted in the memory of the server even if     *)
(* that is never saved.                                                         *)
Saves == {"save", "rename", "print", "keep"}
Err(n) == n \in Ops /\ outcome[n].status = "error"
Good(k, n) == n = last[k] \/ Err(n)
Holding(i) == pc[i] \in Saves \/ (op[i].kind = "run" /\ pc[i] \in {"audit", "note"})
Pend(p, n) == n \in Ops /\ Holding(n) /\ Proc(n) = p /\ (p = 0 => op[n].kind # "run")
OpenInv ==
  \A i \in Ops :
    /\ outcome[i] # NoReply => pc[i] = "over"
    /\ op[i].via = "http" /\ pc[i] # "over" => up
    /\ pc[i] \in {"save", "rename", "print", "keep"} =>
         /\ op[i].kind \in {"register", "remove", "user", "asset", "run"}
         /\ op[i].kind = "run" => \A k \in Assets : mem[Proc(i)][k].n = i
TmpInv ==
  \A i \in Ops : pc[i] \in {"rename", "keep"} =>
    /\ tmp[Store(i)] = [there |-> TRUE, whole |-> TRUE, data |-> mem[Proc(i)]]
    /\ \A j \in Ops : pc[j] \in {"rename", "keep"} /\ Store(j) = Store(i) => j = i
GoodInv ==
  \A k \in Names : last[k] # 0 =>
    /\ Good(k, file[k].n)
    /\ \A p \in Holders : p # 0 \/ k \notin Assets => Good(k, mem[p][k].n) \/ Pend(p, mem[p][k].n)
KeepInv == OpenInv /\ (~clash => (\A s \in Stores : whole[s]) /\ TmpInv /\ GoodInv)

(* A memory is at the service of one operation at a time. *)
LEMMA Exclusive ==
  ASSUME ServiceInv, NEW i \in Ops, NEW j \in Ops, pc[i] \notin {"new", "queued", "over"},
         pc[j] \notin {"new", "queued", "over"}, Proc(i) = Proc(j)
  PROVE  i = j
  <1>1. i \in 1 .. ops /\ j \in 1 .. ops /\ i # 0 /\ j # 0
    BY AtWork DEF ServiceInv, Ops
  <1>2. op[i].via = "http" => lock = i
    BY <1>1 DEF ServiceInv, TypeOK
  <1>3. op[j].via = "http" => lock = j
    BY <1>1 DEF ServiceInv, TypeOK
  <1> QED BY <1>1, <1>2, <1>3 DEF Proc

(* A process that saves has a memory. *)
LEMMA HolderFacts ==
  ASSUME ServiceInv
  PROVE  /\ Holders \subseteq Procs
         /\ OpenInv => \A i \in Ops : pc[i] \in {"save", "rename", "print", "keep"} => Proc(i) \in Holders
  <1>1. Holders \subseteq Procs
    BY BoundFacts DEF Holders
  <1>2. ASSUME OpenInv, NEW i \in Ops, pc[i] \in {"save", "rename", "print", "keep"} PROVE Proc(i) \in Holders
    <2>1. i \in 1 .. ops /\ op[i].via \in {"http", "cli"}
      BY <1>2, AtWork DEF ServiceInv
    <2>2. op[i].via = "http" => up
      BY <1>2 DEF OpenInv
    <2> QED BY <1>2, <2>1, <2>2 DEF Holders, Working, Proc
  <1> QED BY <1>1, <1>2


-----------------------------------------------------------------------------
(* What an entry is known by: an operation that was sent, on the file of the  *)
(* entry.                                                                      *)
Marks(k) == {0} \cup {n \in 1 .. ops : k \in Store(n)}
NumInv ==
  \A k \in Names :
    /\ file[k].n \in Marks(k)
    /\ \A s \in Stores : tmp[s].data[k].n \in Marks(k)
    /\ \A p \in Procs : mem[p][k].n \in Marks(k)

LEMMA NumFrame ==
  ASSUME NumInv,
         \A k \in Names :
           /\ Marks(k) \subseteq Marks(k)'
           /\ file'[k].n \in Marks(k)
           /\ \A s \in Stores : tmp'[s].data[k].n \in Marks(k)
           /\ \A p \in Procs : mem'[p][k].n \in Marks(k)
  PROVE  NumInv'
  BY DEF NumInv

LEMMA MarksStay == UNCHANGED op /\ UNCHANGED ops => \A k : Marks(k) \subseteq Marks(k)'
  BY DEF Marks, Store

LEMMA NothingMarks == \A k \in Names : Nothing[k].n = 0 /\ 0 \in Marks(k)
  BY DEF Nothing, Marks

LEMMA LoadedMarks ==
  ASSUME NumInv
  PROVE  \A k \in Names : Loaded[k].n \in Marks(k)
  BY NothingMarks DEF NumInv, Loaded

LEMMA OwnMark ==
  ASSUME ServiceInv, NEW i \in Ops, pc[i] # "new"
  PROVE  \A k \in Names : k \in Store(i) => i \in Marks(k)
  BY AtWork DEF ServiceInv, Marks

(* The end of an operation leaves a memory as it is or forgets it. *)
LEMMA NumEnd ==
  ASSUME ServiceInv, NumInv, NEW i \in Ops, NEW reply, End(i, reply), UNCHANGED op, UNCHANGED ops,
         \A k \in Names : /\ file'[k].n \in Marks(k)
                          /\ \A s \in Stores : tmp'[s].data[k].n \in Marks(k)
  PROVE  NumInv'
  <1>1. \A p \in Procs : mem'[p] = mem[p] \/ mem'[p] = Nothing
    BY BoundFacts DEF End, ServiceInv, TypeOK
  <1>2. \A k \in Names, p \in Procs : mem'[p][k].n \in Marks(k)
    BY <1>1, NothingMarks DEF NumInv
  <1> QED BY <1>2, MarksStay, NumFrame

(* A `.tmp` file that is left half-written. *)
LEMMA NumTorn ==
  ASSUME NumInv, NEW stores, Torn(stores)
  PROVE  \A k \in Names, s \in Stores : tmp'[s].data[k].n \in Marks(k)
  <1>1. PICK torn : tmp' = [s \in Stores |-> IF s \in torn THEN [NoTmp EXCEPT !.there = TRUE] ELSE tmp[s]]
    BY DEF Torn
  <1>2. [NoTmp EXCEPT !.there = TRUE].data = Nothing
    BY DEF NoTmp
  <1> QED BY <1>1, <1>2, NothingMarks DEF NumInv

LEMMA NextNum == ServiceInv /\ RunPlaces /\ NumInv /\ [Next]_vars => NumInv'
  <1> SUFFICES ASSUME ServiceInv, RunPlaces, NumInv, [Next]_vars PROVE NumInv'
    OBVIOUS
  <1>0. TypeOK /\ SentInv
    BY DEF ServiceInv
  <1>a. \A k \in Names : /\ file[k].n \in Marks(k)
                         /\ \A s \in Stores : tmp[s].data[k].n \in Marks(k)
                         /\ \A p \in Procs : mem[p][k].n \in Marks(k)
    BY DEF NumInv
  <1>1. CASE Boot
    <2>1. \A p \in Procs : mem'[p] = mem[p] \/ mem'[p] = Loaded
      BY <1>0, <1>1, BoundFacts DEF Boot, TypeOK
    <2>2. UNCHANGED file /\ UNCHANGED tmp /\ UNCHANGED op /\ UNCHANGED ops
      BY <1>1 DEF Boot, disk, request, bounds
    <2> QED BY <1>a, <2>1, <2>2, LoadedMarks, MarksStay, NumFrame
  <1>2. CASE KillServer
    <2>1. \A p \in Procs : mem'[p] = mem[p] \/ mem'[p] = Nothing
      BY <1>0, <1>2, BoundFacts DEF KillServer, TypeOK
    <2>2. \A k \in Names, s \in Stores : tmp'[s].data[k].n \in Marks(k)
      BY <1>2, NumTorn DEF KillServer, Die
    <2>3. UNCHANGED file /\ UNCHANGED op /\ UNCHANGED ops
      BY <1>2 DEF KillServer
    <2> QED BY <1>a, <2>1, <2>2, <2>3, NothingMarks, MarksStay, NumFrame
  <1>3. ASSUME NEW i \in Ops, KillCommand(i) PROVE NumInv'
    <2>1. \A p \in Procs : mem'[p] = mem[p] \/ mem'[p] = Nothing
      BY <1>0, <1>3, BoundFacts DEF KillCommand, TypeOK
    <2>2. \A k \in Names, s \in Stores : tmp'[s].data[k].n \in Marks(k)
      BY <1>3, NumTorn DEF KillCommand, Die
    <2>3. UNCHANGED file /\ UNCHANGED op /\ UNCHANGED ops
      BY <1>3 DEF KillCommand
    <2> QED BY <1>a, <2>1, <2>2, <2>3, NothingMarks, MarksStay, NumFrame
  <1>4. ASSUME NEW o, NEW via, NEW live, Send(via, o[1], o[2], live) PROVE NumInv'
    <2>1. UNCHANGED file /\ UNCHANGED tmp /\ UNCHANGED mem
      BY <1>4 DEF Send, disk, process
    <2>2. \A k \in Names : Marks(k) \subseteq Marks(k)'
      <3>1. ops \in Nat /\ ops' = ops + 1
        BY <1>0, <1>4, BoundFacts DEF Send, TypeOK
      <3>2. \A n \in 1 .. ops : op'[n] = op[n] /\ n \in 1 .. ops'
        <4>1. \A n \in 1 .. ops : n \in Ops /\ n # ops + 1
          BY <1>0, BoundFacts DEF TypeOK, Ops
        <4> QED BY <1>0, <1>4, <3>1, <4>1 DEF Send, TypeOK
      <3> QED BY <3>2 DEF Marks, Store
    <2> QED BY <1>a, <2>1, <2>2, NumFrame
  <1>5. ASSUME NEW i \in Ops, Acquire(i) \/ BadBody(i) \/ ReplaceShare(i) PROVE NumInv'
    BY <1>a, <1>5, MarksStay, NumFrame DEF Acquire, BadBody, ReplaceShare, GoesOn, disk, process, bounds
  <1>6. ASSUME NEW i \in Ops, Load(i) PROVE NumInv'
    <2>1. \A p \in Procs : mem'[p] = mem[p] \/ mem'[p] = Loaded
      BY <1>0, <1>6, BoundFacts DEF Load, TypeOK
    <2>2. UNCHANGED file /\ UNCHANGED tmp /\ UNCHANGED op /\ UNCHANGED ops
      BY <1>6 DEF Load, disk, bounds
    <2> QED BY <1>a, <2>1, <2>2, LoadedMarks, MarksStay, NumFrame
  <1>7. ASSUME NEW i \in Ops, Change(i) PROVE NumInv'
    <2>0. UNCHANGED file /\ UNCHANGED tmp /\ UNCHANGED op /\ UNCHANGED ops
      BY <1>7 DEF Change, disk, bounds
    <2>1. CASE End(i, Reply("ok", {}))
      BY <1>a, <2>0, <2>1, NumEnd
    <2>2. CASE /\ mem' = [mem EXCEPT ![Proc(i)][op[i].name] = [n |-> i, live |-> op[i].live]]
               /\ Goto(i, "save") /\ UNCHANGED <<lock, outcome>>
      <3>1. op[i].name \in Names /\ Proc(i) \in Procs /\ op[i].name \in Store(i)
        BY <1>0, <1>7, AtWork, StoreTypes DEF Change, At, Store
      <3>2. \A k \in Names, p \in Procs : mem'[p][k] = mem[p][k] \/ (k \in Store(i) /\ mem'[p][k].n = i)
        BY <1>0, <2>2, <3>1 DEF TypeOK, Dicts
      <3>3. \A k \in Names, p \in Procs : mem'[p][k].n \in Marks(k)
        BY <1>a, <1>7, <3>2, OwnMark DEF Change, At
      <3> QED BY <1>a, <2>0, <3>3, MarksStay, NumFrame
    <2> QED BY <1>7, <2>1, <2>2 DEF Change
  <1>8. ASSUME NEW i \in Ops, Refuse(i) \/ RecordFails(i) \/ Look(i) PROVE NumInv'
    <2>1. UNCHANGED file /\ UNCHANGED tmp /\ UNCHANGED op /\ UNCHANGED ops
      BY <1>8 DEF Refuse, RecordFails, Look, disk, bounds
    <2>2. PICK reply : End(i, reply)
      BY <1>8 DEF Refuse, RecordFails, Look
    <2> QED BY <1>a, <2>1, <2>2, NumEnd
  <1>9. ASSUME NEW i \in Ops, ChangeShare(i) \/ StartRun(i) \/ Record(i) PROVE NumInv'
    <2>1. UNCHANGED file /\ UNCHANGED tmp /\ UNCHANGED op /\ UNCHANGED ops
      BY <1>9 DEF ChangeShare, StartRun, Record, disk, bounds
    <2>2. CASE UNCHANGED mem
      BY <1>a, <2>1, <2>2, MarksStay, NumFrame
    <2>3. ASSUME NEW reply, End(i, reply) PROVE NumInv'
      BY <1>a, <2>1, <2>3, NumEnd
    <2>4. UNCHANGED mem \/ \E reply : End(i, reply)
      BY <1>9 DEF ChangeShare, StartRun, Record, GoesOn
    <2> QED BY <2>2, <2>3, <2>4
  <1>10. ASSUME NEW i \in Ops, Transfer(i) \/ Note(i) PROVE NumInv'
    <2>1. UNCHANGED file /\ UNCHANGED tmp /\ UNCHANGED op /\ UNCHANGED ops
      BY <1>10 DEF Transfer, Note, disk, bounds
    <2>2. op[i].kind = "run" /\ pc[i] # "new"
      BY <1>10 DEF Transfer, Note, At, RunPlaces
    <2>3. CASE UNCHANGED mem
      BY <1>a, <2>1, <2>3, MarksStay, NumFrame
    <2>4. CASE End(i, Reply("ok", {}))
      BY <1>a, <2>1, <2>4, NumEnd
    <2>5. CASE ChangeAsset(i)
      <3>1. Proc(i) \in Procs
        BY <1>0, <2>2, AtWork
      <3>2. \A k \in Names, p \in Procs : mem'[p][k] = mem[p][k] \/ (k \in Store(i) /\ mem'[p][k].n = i)
        BY <1>0, <2>2, <2>5, <3>1 DEF ChangeAsset, TypeOK, Dicts, Store
      <3>3. \A k \in Names, p \in Procs : mem'[p][k].n \in Marks(k)
        BY <1>a, <2>2, <3>2, OwnMark
      <3> QED BY <1>a, <2>1, <3>3, MarksStay, NumFrame
    <2> QED BY <1>10, <2>3, <2>4, <2>5 DEF Transfer, Note, GoesOn
  <1>11. ASSUME NEW i \in Ops, Write(i) PROVE NumInv'
    <2>1. UNCHANGED file /\ UNCHANGED mem /\ UNCHANGED op /\ UNCHANGED ops
      BY <1>11 DEF Write, GoesOn, bounds
    <2>2. Proc(i) \in Procs
      BY <1>0, <1>11, AtWork DEF Write, Writing
    <2>3. \A s \in Stores : tmp'[s].data = tmp[s].data \/ tmp'[s].data = mem[Proc(i)]
      BY <1>0, <1>11 DEF Write, TypeOK
    <2> QED BY <1>a, <2>1, <2>2, <2>3, MarksStay, NumFrame
  <1>12. ASSUME NEW i \in Ops, Rename(i) PROVE NumInv'
    <2>1. UNCHANGED op /\ UNCHANGED ops
      BY <1>12 DEF Rename, bounds
    <2>2. Store(i) \in Stores
      BY <1>0, <1>12, AtWork DEF Rename, Renaming
    <2>3. \A k \in Names : file'[k] = file[k] \/ file'[k] = tmp[Store(i)].data[k]
      BY <1>12 DEF Rename
    <2>4. \A s \in Stores : tmp'[s].data = tmp[s].data \/ tmp'[s].data = Nothing
      BY <1>0, <1>12 DEF Rename, TypeOK, NoTmp
    <2>5. \A k \in Names : /\ file'[k].n \in Marks(k)
                           /\ \A s \in Stores : tmp'[s].data[k].n \in Marks(k)
      BY <1>a, <2>2, <2>3, <2>4, NothingMarks
    <2>6. CASE UNCHANGED mem
      BY <1>a, <2>1, <2>5, <2>6, MarksStay, NumFrame
    <2>7. CASE End(i, Reply("ok", {}))
      BY <2>1, <2>5, <2>7, NumEnd
    <2> QED BY <1>12, <2>6, <2>7 DEF Rename, GoesOn
  <1>13. ASSUME NEW i \in Ops, SaveFails(i) PROVE NumInv'
    <2>1. UNCHANGED file /\ UNCHANGED op /\ UNCHANGED ops
      BY <1>13 DEF SaveFails
    <2>2. \A k \in Names, s \in Stores : tmp'[s].data[k].n \in Marks(k)
      <3>1. UNCHANGED tmp \/ \E stores : Torn(stores)
        BY <1>13 DEF SaveFails
      <3> QED BY <1>a, <3>1, NumTorn
    <2>3. CASE \E reply : End(i, reply)
      BY <1>a, <2>1, <2>2, <2>3, NumEnd
    <2>4. CASE UNCHANGED mem
      BY <1>a, <2>1, <2>2, <2>4, MarksStay, NumFrame
    <2> QED BY <1>13, <2>3, <2>4 DEF SaveFails, GoesOn
  <1>14. CASE UNCHANGED vars
    BY <1>a, <1>14, MarksStay, NumFrame DEF vars, disk, process, request, bounds
  <1> QED
    BY <1>1, <1>2, <1>3, <1>4, <1>5, <1>6, <1>7, <1>8, <1>9, <1>10, <1>11, <1>12, <1>13, <1>14
    DEF Next, Advance

(* A step of one operation that enters no save and changes no memory that is *)
(* kept.                                                                       *)
LEMMA OpenMove ==
  ASSUME ServiceInv, OpenInv, NEW i \in Ops,
         UNCHANGED op, UNCHANGED ops, UNCHANGED up,
         \A j \in Ops \ {i} : pc'[j] = pc[j] /\ outcome'[j] = outcome[j],
         pc[i] # "over", outcome'[i] # NoReply => pc'[i] = "over",
         \A p \in Holders' : p \in Holders /\ mem'[p] = mem[p],
         pc'[i] \in {"save", "rename", "print", "keep"} => pc[i] \in {"save", "rename", "print", "keep"}
  PROVE  OpenInv'
  <1> SUFFICES ASSUME NEW j \in Ops
               PROVE  /\ outcome'[j] # NoReply => pc'[j] = "over"
                      /\ op[j].via = "http" /\ pc'[j] # "over" => up
                      /\ pc'[j] \in {"save", "rename", "print", "keep"} =>
                           /\ op[j].kind \in {"register", "remove", "user", "asset", "run"}
                           /\ op[j].kind = "run" => \A k \in Assets : mem'[Proc(j)'][k].n = j
    BY DEF OpenInv
  <1>1. outcome'[j] # NoReply => pc'[j] = "over"
    BY DEF OpenInv
  <1>2. op[j].via = "http" /\ pc'[j] # "over" => up
    BY DEF OpenInv
  <1>3. ASSUME pc'[j] \in {"save", "rename", "print", "keep"}
        PROVE  /\ op[j].kind \in {"register", "remove", "user", "asset", "run"}
               /\ op[j].kind = "run" => \A k \in Assets : mem'[Proc(j)'][k].n = j
    <2>1. pc[j] \in {"save", "rename", "print", "keep"} /\ Proc(j)' = Proc(j)
      BY <1>3 DEF Proc
    <2>2. Proc(j) \in Holders'
      <3>1. j \in 1 .. ops /\ op[j].via \in {"http", "cli"}
        BY <2>1, AtWork DEF ServiceInv
      <3>2. op[j].via = "http" => up
        BY <2>1 DEF OpenInv
      <3> QED BY <1>3, <3>1, <3>2 DEF Holders, Working, Proc
    <2> QED BY <2>1, <2>2 DEF OpenInv
  <1> QED BY <1>1, <1>2, <1>3

(* The `.tmp` files of the saves under way are left alone. *)
LEMMA TmpFrame ==
  ASSUME TmpInv, UNCHANGED op,
         \A j \in Ops : pc'[j] \in {"rename", "keep"} =>
           pc[j] \in {"rename", "keep"} /\ tmp'[Store(j)] = tmp[Store(j)] /\ mem'[Proc(j)] = mem[Proc(j)]
  PROVE  TmpInv'
  BY DEF TmpInv, Store, Proc

(* Good entries stay good.  An operation that gives a save up ends with an     *)
(* error, or its memory is gone.                                                *)
LEMMA GoodMove ==
  ASSUME ServiceInv, OpenInv, GoodInv, NEW i \in Ops, pc[i] # "over",
         UNCHANGED file, UNCHANGED last, UNCHANGED op,
         \A j \in Ops \ {i} : pc'[j] = pc[j] /\ outcome'[j] = outcome[j],
         \A p \in Holders' : p \in Holders /\ mem'[p] = mem[p],
         Holding(i) /\ ~Holding(i)' =>
           Err(i)' \/ Proc(i) \notin Holders' \/ (op[i].kind = "run" /\ Proc(i) = 0)
  PROVE  GoodInv'
  <1>1. \A n \in Ops : Err(n) => Err(n)'
    <2>1. outcome[i] = NoReply
      BY DEF OpenInv
    <2>2. ~Err(i)
      BY <2>1 DEF Err, NoReply, Reply
    <2> QED BY <2>2 DEF Err
  <1>2. ASSUME NEW k \in Names, last'[k] # 0 PROVE Good(k, file[k].n)'
    BY <1>1, <1>2 DEF GoodInv, Good, Err
  <1>3. ASSUME NEW k \in Names, last'[k] # 0, NEW p \in Holders', p # 0 \/ k \notin Assets
        PROVE  (Good(k, mem[p][k].n) \/ Pend(p, mem[p][k].n))'
    <2> DEFINE n == mem[p][k].n
    <2>1. p \in Holders /\ mem'[p] = mem[p]
      OBVIOUS
    <2>2. Good(k, n) \/ Pend(p, n)
      BY <1>3, <2>1 DEF GoodInv
    <2>3. CASE Good(k, n)
      BY <1>1, <2>1, <2>3 DEF Good, Err
    <2>4. CASE Pend(p, n) /\ n # i
      BY <2>1, <2>4 DEF Pend, Holding, Proc
    <2>5. CASE Pend(p, n) /\ n = i
      <3>1. Holding(i) /\ Proc(i) = p /\ (p = 0 => op[i].kind # "run")
        BY <2>5 DEF Pend
      <3>2. CASE Holding(i)'
        BY <2>1, <2>5, <3>1, <3>2 DEF Pend, Proc
      <3>3. CASE Err(i)'
        BY <2>1, <2>5, <3>3 DEF Good, Err
      <3> QED BY <3>1, <3>2, <3>3
    <2> QED BY <2>2, <2>3, <2>4, <2>5
  <1> QED BY <1>2, <1>3 DEF GoodInv

(* The memories that are left when an operation ends. *)
LEMMA EndHolders ==
  ASSUME ServiceInv, NEW i \in Ops, NEW reply, End(i, reply), UNCHANGED op, UNCHANGED ops, UNCHANGED up
  PROVE  /\ \A p \in Holders' : p \in Holders /\ mem'[p] = mem[p]
         /\ op[i].via # "http" => i \notin Holders'
         /\ \A j \in Ops \ {i} : pc'[j] = pc[j] /\ outcome'[j] = outcome[j] /\ mem'[Proc(j)] = mem[Proc(j)]
         /\ pc'[i] = "over" /\ outcome'[i] = reply
  <1>0. TypeOK
    BY DEF ServiceInv
  <1>1. pc'[i] = "over" /\ outcome'[i] = reply /\ \A j \in Ops \ {i} : pc'[j] = pc[j] /\ outcome'[j] = outcome[j]
    BY <1>0 DEF End, Goto, TypeOK
  <1>2. \A j \in Ops : Working(j)' => Working(j) /\ j # i
    BY <1>1 DEF Working
  <1>3. 0 \notin Ops
    BY BoundFacts DEF Ops
  <1>4. \A p \in Procs : mem'[p] = mem[p] \/ (op[i].via # "http" /\ p = i)
    BY <1>0 DEF End, TypeOK
  <1>5. \A j \in Ops \ {i} : Proc(j) \in Procs /\ (Proc(j) = j \/ Proc(j) = 0)
    BY BoundFacts DEF Proc
  <1>6. \A p \in Holders' : p \in Holders /\ p \in Procs /\ p # i
    BY <1>2, <1>3, BoundFacts DEF Holders
  <1> QED BY <1>1, <1>3, <1>4, <1>5, <1>6

LEMMA KeepEnd ==
  ASSUME ServiceInv, KeepInv, NEW i \in Ops, NEW reply, End(i, reply), pc[i] # "over",
         UNCHANGED file, UNCHANGED whole, UNCHANGED last, UNCHANGED op, UNCHANGED ops, UNCHANGED up,
         clash => clash',
         Holding(i) => op[i].kind = "run" \/ reply = Failed,
         ~clash' => \A j \in Ops \ {i} : pc[j] \in {"rename", "keep"} => tmp'[Store(j)] = tmp[Store(j)]
  PROVE  KeepInv'
  <1>1. OpenInv'
    BY EndHolders, OpenMove DEF KeepInv
  <1>2. ASSUME ~clash' PROVE (\A s \in Stores : whole'[s]) /\ TmpInv' /\ GoodInv'
    <2>1. OpenInv /\ (\A s \in Stores : whole[s]) /\ TmpInv /\ GoodInv
      BY <1>2 DEF KeepInv
    <2>2. TmpInv'
      BY <1>2, <2>1, EndHolders, TmpFrame
    <2>3. Holding(i) =>
            Err(i)' \/ Proc(i) \notin Holders' \/ (op[i].kind = "run" /\ Proc(i) = 0)
      <3>1. CASE reply = Failed
        BY <3>1, EndHolders DEF Err, Failed, Reply
      <3>2. CASE op[i].via # "http"
        BY <3>2, EndHolders DEF Proc
      <3>3. CASE op[i].kind = "run" /\ op[i].via = "http"
        BY <3>3 DEF Proc
      <3> QED BY <3>1, <3>2, <3>3
    <2>4. GoodInv'
      BY <2>1, <2>3, EndHolders, GoodMove
    <2> QED BY <2>1, <2>2, <2>4
  <1> QED BY <1>1, <1>2 DEF KeepInv

LEMMA KeepGo ==
  ASSUME ServiceInv, KeepInv, NEW i \in Ops, NEW label, Goto(i, label), UNCHANGED mem, UNCHANGED outcome,
         pc[i] \notin {"new", "load", "over"} \cup Saves, label \notin {"load", "over"} \cup Saves,
         Holding(i) => label = "note",
         UNCHANGED file, UNCHANGED whole, UNCHANGED tmp, UNCHANGED last, UNCHANGED clash,
         UNCHANGED op, UNCHANGED ops, UNCHANGED up
  PROVE  KeepInv'
  <1>1. pc'[i] = label /\ \A j \in Ops \ {i} : pc'[j] = pc[j]
    BY DEF ServiceInv, TypeOK, Goto
  <1>2. Holders' = Holders
    BY <1>1 DEF Holders, Working
  <1>3. OpenInv
    BY DEF KeepInv
  <1>4. OpenInv'
    <2>1. outcome[i] = NoReply
      BY <1>3 DEF OpenInv
    <2> QED BY <1>1, <1>2, <1>3, <2>1, OpenMove DEF Saves
  <1>5. ASSUME ~clash PROVE TmpInv' /\ GoodInv'
    <2>1. TmpInv /\ GoodInv
      BY <1>5 DEF KeepInv
    <2>2. TmpInv'
      BY <1>1, <2>1, TmpFrame DEF Saves
    <2>3. Holding(i) => Holding(i)'
      BY <1>1 DEF Holding, Saves
    <2>4. GoodInv'
      BY <1>1, <1>2, <1>3, <2>1, <2>3, GoodMove
    <2> QED BY <2>2, <2>4
  <1> QED BY <1>4, <1>5 DEF KeepInv

LEMMA KeepWrite ==
  ASSUME ServiceInv, KeepInv, NEW i \in Ops, Write(i)
  PROVE  KeepInv'
  <1> DEFINE s == Store(i)
  <1>0. /\ UNCHANGED file /\ UNCHANGED whole /\ UNCHANGED last /\ UNCHANGED op /\ UNCHANGED ops
        /\ UNCHANGED up /\ UNCHANGED mem /\ UNCHANGED outcome /\ pc[i] \in {"save", "print"}
    BY DEF Write, Writing, GoesOn, bounds
  <1>1. pc'[i] \in {"rename", "keep"} /\ \A j \in Ops \ {i} : pc'[j] = pc[j]
    BY DEF Write, AfterWrite, GoesOn, ServiceInv, TypeOK, Goto
  <1>2. Holders' = Holders
    BY <1>0, <1>1 DEF Holders, Working
  <1>3. OpenInv
    BY DEF KeepInv
  <1>4. OpenInv'
    BY <1>0, <1>1, <1>2, <1>3, OpenMove DEF OpenInv
  <1>5. ASSUME ~clash' PROVE (\A t \in Stores : whole'[t]) /\ TmpInv' /\ GoodInv'
    <2>1. ~clash /\ Saving(s) = {}
      BY <1>5, Zenon DEF Write
    <2>2. (\A t \in Stores : whole[t]) /\ TmpInv /\ GoodInv
      BY <2>1 DEF KeepInv
    <2>3. GoodInv'
      <3>1. Holding(i)'
        BY <1>1 DEF Holding, Saves
      <3> QED BY <1>0, <1>1, <1>2, <1>3, <2>2, <3>1, GoodMove
    <2>4. s \in Stores /\ Proc(i) \in Procs
      BY <1>0, AtWork DEF ServiceInv
    <2>5. tmp' = [tmp EXCEPT ![s] = [there |-> TRUE, whole |-> TRUE, data |-> mem[Proc(i)]]]
      BY <2>1 DEF Write
    <2>6. ASSUME NEW j \in Ops \ {i}, pc[j] \in {"rename", "keep"} PROVE Store(j) # s
      <3>1. j \in 1 .. ops
        BY <2>6, AtWork DEF ServiceInv
      <3> QED BY <2>1, <2>6, <3>1 DEF Saving, Renaming
    <2>7. TmpInv'
      <3>1. \A j \in Ops : Store(j)' = Store(j) /\ Proc(j)' = Proc(j)
        BY <1>0 DEF Store, Proc
      <3>2. \A j \in Ops : pc'[j] \in {"rename", "keep"} => j = i \/ (pc[j] \in {"rename", "keep"} /\ Store(j) # s)
        BY <1>1, <2>6
      <3>3. tmp'[s] = [there |-> TRUE, whole |-> TRUE, data |-> mem[Proc(i)]]
        BY <2>4, <2>5 DEF ServiceInv, TypeOK
      <3>4. \A t : t # s => tmp'[t] = tmp[t]
        BY <2>4, <2>5 DEF ServiceInv, TypeOK
      <3> SUFFICES ASSUME NEW j \in Ops, pc'[j] \in {"rename", "keep"}
                   PROVE  /\ tmp'[Store(j)] = [there |-> TRUE, whole |-> TRUE, data |-> mem'[Proc(j)]]
                          /\ \A l \in Ops : pc'[l] \in {"rename", "keep"} /\ Store(l) = Store(j) => l = j
        BY <3>1 DEF TmpInv
      <3>5. CASE j = i
        BY <1>0, <3>2, <3>3, <3>5
      <3>6. CASE j # i
        BY <1>0, <2>2, <3>2, <3>4, <3>6 DEF TmpInv
      <3> QED BY <3>5, <3>6
    <2> QED BY <1>0, <2>2, <2>3, <2>7
  <1> QED BY <1>4, <1>5 DEF KeepInv

(* Files that are loaded.  Nothing is being saved from the memory they go to. *)
LEMMA KeepLoad ==
  ASSUME ServiceInv, KeepInv, NEW q \in Procs, mem' = [mem EXCEPT ![q] = Loaded],
         UNCHANGED file, UNCHANGED whole, UNCHANGED tmp, UNCHANGED last, UNCHANGED clash,
         UNCHANGED op, UNCHANGED ops, UNCHANGED outcome,
         Holders' \subseteq Holders \cup {q}, up => up',
         \A j \in Ops : pc'[j] = pc[j] \/ (pc[j] = "load" /\ pc'[j] = "act"),
         \A j \in Ops : pc[j] \in {"save", "rename", "print", "keep"} => Proc(j) # q
  PROVE  KeepInv'
  <1>1. \A p \in Procs : mem'[p] = IF p = q THEN Loaded ELSE mem[p]
    BY DEF ServiceInv, TypeOK
  <1>2. \A j \in Ops : pc'[j] \in {"save", "rename", "print", "keep"} <=> pc[j] \in {"save", "rename", "print", "keep"}
    OBVIOUS
  <1>3. \A j \in Ops : Proc(j)' = Proc(j) /\ Proc(j) \in Procs
    BY BoundFacts DEF Proc
  <1>4. \A j \in Ops : pc[j] \in {"save", "rename", "print", "keep"} => mem'[Proc(j)] = mem[Proc(j)]
    BY <1>1, <1>3
  <1>5. OpenInv'
    BY <1>3, <1>4 DEF KeepInv, OpenInv
  <1>6. ASSUME ~clash PROVE TmpInv' /\ GoodInv'
    <2>1. (\A s \in Stores : whole[s]) /\ TmpInv /\ GoodInv
      BY <1>6 DEF KeepInv
    <2>2. TmpInv'
      BY <1>4, <2>1, TmpFrame
    <2>3. \A k \in Names : Loaded[k] = file[k]
      BY <2>1, StoreTypes DEF Loaded
    <2>4. \A k, n : Good(k, n)' <=> Good(k, n)
      BY DEF Good, Err
    <2>5. ASSUME NEW k \in Names, last'[k] # 0, NEW p \in Holders', p # 0 \/ k \notin Assets
          PROVE  (Good(k, mem[p][k].n) \/ Pend(p, mem[p][k].n))'
      <3>1. p \in Procs
        BY HolderFacts
      <3>2. CASE p = q
        BY <1>1, <2>1, <2>3, <2>5, <3>1, <3>2 DEF GoodInv, Good, Err
      <3>3. CASE p # q
        <4>1. mem'[p] = mem[p] /\ p \in Holders
          BY <1>1, <3>1, <3>3
        <4>2. Good(k, mem[p][k].n) \/ Pend(p, mem[p][k].n)
          BY <2>1, <2>5, <4>1 DEF GoodInv
        <4> QED BY <4>1, <4>2 DEF Good, Err, Pend, Holding, Saves, Proc
      <3> QED BY <3>2, <3>3
    <2>6. ASSUME NEW k \in Names, last'[k] # 0 PROVE Good(k, file[k].n)'
      BY <2>1, <2>6 DEF GoodInv, Good, Err
    <2>7. GoodInv'
      BY <2>5, <2>6 DEF GoodInv
    <2> QED BY <2>2, <2>7
  <1> QED BY <1>5, <1>6 DEF KeepInv

(* A change in the memory of a process that is about to save it. *)
LEMMA KeepChange ==
  ASSUME ServiceInv, KeepInv, NEW i \in Ops, pc[i] \in {"act", "transfer", "note"},
         NEW label \in {"save", "print"}, Goto(i, label),
         NEW q \in Procs, q = Proc(i), mem' \in [Procs -> Dicts],
         \A p \in Procs \ {q} : mem'[p] = mem[p],
         \A k \in Names : mem'[q][k] = mem[q][k] \/ mem'[q][k].n = i,
         op[i].kind \in {"register", "remove", "user", "asset", "run"},
         op[i].kind = "run" => \A k \in Names : IF k \in Assets THEN mem'[q][k].n = i
                                                ELSE mem'[q][k] = mem[q][k],
         UNCHANGED file, UNCHANGED whole, UNCHANGED tmp, UNCHANGED last, UNCHANGED clash,
         UNCHANGED op, UNCHANGED ops, UNCHANGED outcome, UNCHANGED up
  PROVE  KeepInv'
  <1>1. pc'[i] \in {"save", "print"} /\ \A j \in Ops \ {i} : pc'[j] = pc[j]
    BY DEF Goto, ServiceInv, TypeOK
  <1>2. Holders' = Holders
    BY <1>1 DEF Holders, Working
  <1>3. \A j \in Ops : Proc(j)' = Proc(j) /\ Proc(j) \in Procs
    BY BoundFacts DEF Proc
  <1>4. \A j \in Ops : pc[j] \in {"save", "rename", "print", "keep"} => Proc(j) # q /\ j # i
    BY Exclusive
  <1>5. \A j \in Ops : pc[j] \in {"save", "rename", "print", "keep"} => mem'[Proc(j)] = mem[Proc(j)]
    BY <1>3, <1>4
  <1>6. OpenInv
    BY DEF KeepInv
  <1>7. OpenInv'
    <2>1. i \in Ops /\ outcome[i] = NoReply /\ (op[i].via = "http" => up)
      BY <1>6 DEF OpenInv
    <2>2. op[i].kind = "run" => \A k \in Assets : mem'[Proc(i)'][k].n = i
      BY <1>3 DEF Names
    <2> QED BY <1>1, <1>3, <1>5, <1>6, <2>1, <2>2 DEF OpenInv
  <1>8. ASSUME ~clash PROVE TmpInv' /\ GoodInv'
    <2>1. TmpInv /\ GoodInv
      BY <1>8 DEF KeepInv
    <2>2. TmpInv'
      BY <1>1, <1>5, <2>1, TmpFrame
    <2>3. ASSUME NEW k \in Names, last'[k] # 0 PROVE Good(k, file[k].n)'
      BY <2>1, <2>3 DEF GoodInv, Good, Err
    <2>4. ASSUME NEW k \in Names, last'[k] # 0, NEW p \in Holders', p # 0 \/ k \notin Assets
          PROVE  (Good(k, mem[p][k].n) \/ Pend(p, mem[p][k].n))'
      <3>1. p \in Procs /\ p \in Holders
        BY <1>2, HolderFacts
      <3>2. Good(k, mem[p][k].n) \/ Pend(p, mem[p][k].n)
        BY <2>1, <2>4, <3>1 DEF GoodInv
      <3>3. CASE mem'[p][k] = mem[p][k]
        <4>1. CASE Good(k, mem[p][k].n)
          BY <3>3, <4>1 DEF Good, Err
        <4>2. CASE Pend(p, mem[p][k].n)
          BY <1>1, <1>3, <3>3, <4>2 DEF Pend, Holding, Saves
        <4> QED BY <3>2, <4>1, <4>2
      <3>4. CASE mem'[p][k] # mem[p][k]
        <4>1. p = q /\ mem'[p][k].n = i /\ (op[i].kind = "run" => k \in Assets)
          BY <3>1, <3>4
        <4>2. Pend(p, i)'
          BY <1>1, <1>3, <2>4, <4>1 DEF Pend, Holding, Saves
        <4> QED BY <4>1, <4>2
      <3> QED BY <3>3, <3>4
    <2>5. GoodInv'
      BY <2>3, <2>4 DEF GoodInv
    <2> QED BY <2>2, <2>5
  <1> QED BY <1>7, <1>8 DEF KeepInv

LEMMA KeepSend ==
  ASSUME ServiceInv, KeepInv, NEW via \in {"http", "cli"}, NEW kind, NEW k0, NEW live, Send(via, kind, k0, live)
  PROVE  KeepInv'
  <1>0. /\ UNCHANGED file /\ UNCHANGED whole /\ UNCHANGED tmp /\ UNCHANGED mem /\ UNCHANGED up
        /\ UNCHANGED outcome /\ UNCHANGED last /\ UNCHANGED clash
        /\ (via = "http" => up)
    BY DEF Send, disk, process, trace
  <1>1. ops \in Nat /\ ops' = ops + 1
    BY BoundFacts DEF ServiceInv, TypeOK, Send
  <1>2. PICK n \in Nat : n = ops + 1
    BY <1>1
  <1>3. \A j \in Ops \ {n} : op'[j] = op[j] /\ pc'[j] = pc[j] /\ Proc(j)' = Proc(j) /\ Store(j)' = Store(j)
    BY <1>2 DEF Send, ServiceInv, TypeOK, Proc, Store
  <1>4. n \in Ops => pc'[n] \in {"queued", "load"} /\ op'[n].via = via /\ outcome[n] = NoReply /\ pc[n] = "new"
    <2>1. ~(n <= ops)
      BY <1>1, <1>2
    <2> QED BY <1>2, <2>1 DEF Send, ServiceInv, TypeOK, SentInv, NotSent
  <1>5. \A p \in Holders' : p \in Holders
    <2>1. ASSUME NEW j \in Ops, Working(j)' PROVE Working(j)
      <3>1. j # n
        <4>1. CASE j = n
          <5>1. pc'[n] = "load" \/ op'[n].via = "http"
            BY <1>4, <4>1 DEF Send, ServiceInv, TypeOK
          <5>2. pc'[n] # "queued" \/ op'[n].via # "cli"
            <6>1. n \in Ops /\ pc'[n] = IF via = "http" THEN "queued" ELSE "load"
              BY <1>2, <4>1 DEF Send, ServiceInv, TypeOK
            <6> QED BY <1>4, <6>1
          <5> QED BY <1>4, <2>1, <4>1, <5>1, <5>2 DEF Working
        <4> QED BY <4>1
      <3> QED BY <1>1, <1>2, <1>3, <2>1, <3>1 DEF Working
    <2> QED BY <1>0, <2>1 DEF Holders
  <1>6. OpenInv'
    <2> SUFFICES ASSUME NEW j \in Ops
                 PROVE  /\ outcome'[j] # NoReply => pc'[j] = "over"
                        /\ op'[j].via = "http" /\ pc'[j] # "over" => up'
                        /\ pc'[j] \in {"save", "rename", "print", "keep"} =>
                             /\ op'[j].kind \in {"register", "remove", "user", "asset", "run"}
                             /\ op'[j].kind = "run" => \A k \in Assets : mem'[Proc(j)'][k].n = j
      BY DEF OpenInv
    <2>1. CASE j = n
      BY <1>0, <1>4, <2>1
    <2>2. CASE j # n
      BY <1>0, <1>3, <2>2 DEF KeepInv, OpenInv
    <2> QED BY <2>1, <2>2
  <1>7. ASSUME ~clash PROVE TmpInv' /\ GoodInv'
    <2>1. TmpInv /\ GoodInv
      BY <1>7 DEF KeepInv
    <2>2. \A j \in Ops : pc'[j] \in {"rename", "keep"} => j # n /\ pc[j] \in {"rename", "keep"}
      BY <1>3, <1>4
    <2>3. TmpInv'
      BY <1>0, <1>3, <2>1, <2>2 DEF TmpInv
    <2>4. \A k, m : Good(k, m)' <=> Good(k, m)
      BY <1>0 DEF Good, Err
    <2>5. \A p, m : Pend(p, m) => Pend(p, m)'
      BY <1>3, <1>4 DEF Pend, Holding, Saves
    <2>6. GoodInv'
      BY <1>0, <1>5, <2>1, <2>4, <2>5 DEF GoodInv
    <2> QED BY <2>3, <2>6
  <1> QED BY <1>0, <1>6, <1>7 DEF KeepInv

(* A write that stops half-way hits no save under way, or it is a clash. *)
LEMMA TornTmp ==
  ASSUME ServiceInv, NEW stores, Torn(stores), ~clash'
  PROVE  ~clash /\ \A j \in Ops : pc[j] \in {"rename", "keep"} => tmp'[Store(j)] = tmp[Store(j)]
  <1>1. PICK torn : /\ tmp' = [s \in Stores |-> IF s \in torn THEN [NoTmp EXCEPT !.there = TRUE] ELSE tmp[s]]
                    /\ clash' = (clash \/ \E s \in torn : Saving(s) # {})
    BY DEF Torn
  <1>2. ~clash /\ ~(\E s \in torn : Saving(s) # {})
    BY <1>1, Zenon
  <1>3. ASSUME NEW j \in Ops, pc[j] \in {"rename", "keep"} PROVE tmp'[Store(j)] = tmp[Store(j)]
    <2>1. j \in Saving(Store(j)) /\ Store(j) \in Stores
      BY <1>3, AtWork DEF ServiceInv, Saving, Renaming
    <2> QED BY <1>1, <1>2, <2>1
  <1> QED BY <1>2, <1>3

LEMMA TornClash == ASSUME NEW stores, Torn(stores), clash PROVE clash'
  BY Zenon DEF Torn

LEMMA KeepKillServer == ServiceInv /\ KeepInv /\ KillServer => KeepInv'
  <1> SUFFICES ASSUME ServiceInv, KeepInv, KillServer PROVE KeepInv'
    OBVIOUS
  <1>0. /\ UNCHANGED file /\ UNCHANGED whole /\ UNCHANGED op /\ UNCHANGED ops /\ UNCHANGED outcome
        /\ UNCHANGED last /\ ~up'
    BY DEF KillServer
  <1>1. \A j \in Ops : /\ j \in 1 .. ops /\ op[j].via = "http" => pc'[j] = "over"
                       /\ ~(j \in 1 .. ops /\ op[j].via = "http") => pc'[j] = pc[j]
    BY DEF KillServer, Die
  <1>2. \A p \in Procs \ {0} : mem'[p] = mem[p]
    BY DEF KillServer, ServiceInv, TypeOK
  <1>3. \A p \in Holders' : p \in Holders /\ p \in Procs /\ p # 0
    BY <1>0, <1>1, BoundFacts DEF Holders, Working, Ops
  <1>4. ASSUME NEW j \in Ops, pc'[j] \in {"save", "rename", "print", "keep"}
        PROVE  pc'[j] = pc[j] /\ op[j].via = "cli" /\ Proc(j) = j /\ mem'[Proc(j)] = mem[Proc(j)]
    <2>1. pc'[j] = pc[j]
      BY <1>1, <1>4
    <2>2. j \in 1 .. ops /\ op[j].via \in {"http", "cli"} /\ j \in Procs /\ j # 0
      BY <1>4, <2>1, AtWork, BoundFacts DEF ServiceInv, Ops
    <2> QED BY <1>1, <1>2, <1>4, <2>1, <2>2 DEF Proc
  <1>5. \A j \in Ops : Proc(j)' = Proc(j)
    BY <1>0 DEF Proc
  <1>6. OpenInv'
    <2>1. OpenInv
      BY DEF KeepInv
    <2>2. ASSUME NEW j \in Ops PROVE /\ outcome'[j] # NoReply => pc'[j] = "over"
                                     /\ op[j].via = "http" => pc'[j] = "over" \/ up
      BY <1>0, <1>1, <2>1 DEF OpenInv
    <2>3. ASSUME NEW j \in Ops, op[j].via = "http" PROVE pc'[j] = "over"
      <3>1. j \in 1 .. ops
        <4>1. NoRequest.via # "http"
          BY DEF NoRequest
        <4>2. j <= ops
          BY <2>3, <4>1 DEF ServiceInv, SentInv, NotSent
        <4> QED BY <4>2, BoundFacts DEF ServiceInv, TypeOK, Ops
      <3> QED BY <1>1, <2>3, <3>1
    <2> QED BY <1>0, <1>4, <1>5, <2>1, <2>2, <2>3 DEF OpenInv
  <1>7. ASSUME ~clash' PROVE (\A s \in Stores : whole'[s]) /\ TmpInv' /\ GoodInv'
    <2>1. ~clash /\ \A j \in Ops : pc[j] \in {"rename", "keep"} => tmp'[Store(j)] = tmp[Store(j)]
      BY <1>7, TornTmp DEF KillServer, Die
    <2>2. (\A s \in Stores : whole[s]) /\ TmpInv /\ GoodInv
      BY <2>1 DEF KeepInv
    <2>3. TmpInv'
      BY <1>0, <1>4, <2>1, <2>2, TmpFrame
    <2>4. \A k, n : Good(k, n)' <=> Good(k, n)
      BY <1>0 DEF Good, Err
    <2>5. \A p, n : p # 0 /\ Pend(p, n) => Pend(p, n)'
      BY <1>0, <1>1, <1>5 DEF Pend, Holding, Proc
    <2>6. GoodInv'
      BY <1>0, <1>2, <1>3, <2>2, <2>4, <2>5 DEF GoodInv
    <2> QED BY <1>0, <2>2, <2>3, <2>6
  <1> QED BY <1>6, <1>7 DEF KeepInv

LEMMA KeepKillCommand ==
  ASSUME ServiceInv, KeepInv, NEW i \in Ops, KillCommand(i)
  PROVE  KeepInv'
  <1>0. /\ UNCHANGED file /\ UNCHANGED whole /\ UNCHANGED op /\ UNCHANGED ops /\ UNCHANGED outcome
        /\ UNCHANGED last /\ UNCHANGED up
        /\ i \in 1 .. ops /\ op[i].via = "cli" /\ pc[i] # "over" /\ Proc(i) = i /\ i # 0
    BY DEF KillCommand, Working, Ops, Proc
  <1>1. pc'[i] = "over" /\ \A j \in Ops \ {i} : pc'[j] = pc[j]
    BY DEF KillCommand, Die
  <1>2. \A p \in Procs \ {i} : mem'[p] = mem[p]
    BY DEF KillCommand, ServiceInv, TypeOK
  <1>3. \A p \in Holders' : p \in Holders /\ p \in Procs /\ p # i
    BY <1>0, <1>1, BoundFacts DEF Holders, Working, Ops
  <1>4. OpenInv
    BY DEF KeepInv
  <1>5. OpenInv'
    BY <1>0, <1>1, <1>2, <1>3, <1>4, OpenMove
  <1>6. ASSUME ~clash' PROVE (\A s \in Stores : whole'[s]) /\ TmpInv' /\ GoodInv'
    <2>1. ~clash /\ \A j \in Ops : pc[j] \in {"rename", "keep"} => tmp'[Store(j)] = tmp[Store(j)]
      BY <1>6, TornTmp DEF KillCommand, Die
    <2>2. (\A s \in Stores : whole[s]) /\ TmpInv /\ GoodInv
      BY <2>1 DEF KeepInv
    <2>3. \A j \in Ops \ {i} : Proc(j) \in Procs /\ Proc(j) # i
      BY <1>0, BoundFacts DEF Proc
    <2>4. TmpInv'
      BY <1>0, <1>1, <1>2, <2>1, <2>2, <2>3, TmpFrame
    <2>5. GoodInv'
      BY <1>0, <1>1, <1>2, <1>3, <1>4, <2>2, GoodMove
    <2> QED BY <1>0, <2>2, <2>4, <2>5
  <1> QED BY <1>5, <1>6 DEF KeepInv

(* A file that is replaced.  What the renaming process has in memory is good  *)
(* or is its own change; its own change is kept by all, or is not claimed.     *)
LEMMA KeepRename ==
  ASSUME ServiceInv, NumInv, KeepInv, NEW i \in Ops, Rename(i)
  PROVE  KeepInv'
  <1> DEFINE s == Store(i)
             p == Proc(i)
  <1>0. /\ UNCHANGED op /\ UNCHANGED ops /\ UNCHANGED up /\ UNCHANGED clash /\ pc[i] \in {"rename", "keep"}
        /\ OpenInv /\ i # 0
    BY DEF Rename, Renaming, bounds, KeepInv, Ops
  <1>1. s \in Stores /\ p \in Procs /\ i \in 1 .. ops
    BY <1>0, AtWork DEF ServiceInv
  <1>2. /\ \A q \in Holders' : q \in Holders /\ mem'[q] = mem[q]
        /\ \A j \in Ops \ {i} : pc'[j] = pc[j] /\ outcome'[j] = outcome[j] /\ mem'[Proc(j)] = mem[Proc(j)]
        /\ pc'[i] \in {"audit", "over"} /\ (outcome'[i] # NoReply => pc'[i] = "over")
    <2>1. CASE End(i, Reply("ok", {}))
      BY <1>0, <2>1, EndHolders
    <2>2. CASE GoesOn(i, "audit")
      <3>1. /\ pc'[i] = "audit" /\ (\A j \in Ops \ {i} : pc'[j] = pc[j])
            /\ UNCHANGED mem /\ UNCHANGED outcome
        BY <2>2 DEF GoesOn, Goto, ServiceInv, TypeOK
      <3>2. Holders' = Holders
        BY <1>0, <3>1 DEF Holders, Working
      <3> QED BY <1>0, <3>1, <3>2 DEF OpenInv
    <2> QED BY <2>1, <2>2 DEF Rename
  <1>3. OpenInv'
    BY <1>0, <1>2, OpenMove
  <1>4. ASSUME ~clash PROVE (\A t \in Stores : whole'[t]) /\ TmpInv' /\ GoodInv'
    <2>1. (\A t \in Stores : whole[t]) /\ TmpInv /\ GoodInv
      BY <1>4 DEF KeepInv
    <2>2. tmp[s] = [there |-> TRUE, whole |-> TRUE, data |-> mem[p]]
      BY <1>0, <2>1 DEF TmpInv
    <2>3. \A t \in Stores : whole'[t]
      BY <2>1, <2>2 DEF Rename, ServiceInv, TypeOK
    <2>4. TmpInv'
      <3>1. \A j \in Ops : pc'[j] \in {"rename", "keep"} => j # i /\ pc[j] \in {"rename", "keep"} /\ Store(j) # s
        BY <1>0, <1>2, <2>1 DEF TmpInv
      <3>2. \A t : t # s => tmp'[t] = tmp[t]
        BY <1>1 DEF Rename, ServiceInv, TypeOK
      <3> QED BY <1>0, <1>2, <2>1, <3>1, <3>2, TmpFrame
    <2>5. p \in Holders
      BY <1>0, HolderFacts
    <2>6. \A n \in Ops : Err(n) => Err(n)'
      <3>1. outcome[i] = NoReply
        BY <1>0 DEF OpenInv
      <3>2. ~Err(i)
        BY <3>1 DEF Err, NoReply, Reply
      <3> QED BY <1>2, <3>2 DEF Err
    <2>7. \A n : Pend(p, n) => n = i
      BY <1>0, Exclusive DEF Pend, Holding, Saves
    <2> SUFFICES ASSUME NEW k \in Names, last'[k] # 0
                 PROVE  /\ Good(k, file[k].n)'
                        /\ \A q \in Holders' : q # 0 \/ k \notin Assets =>
                             (Good(k, mem[q][k].n) \/ Pend(q, mem[q][k].n))'
      BY <2>3, <2>4 DEF GoodInv
    <2>8. /\ file'[k] = IF k \in s THEN mem[p][k] ELSE file[k]
          /\ last'[k] = IF mem[p][k].n = i THEN Alone(i) ELSE last[k]
      BY <2>2 DEF Rename
    <2>9. CASE mem[p][k].n = i
      <3>1. Holders \subseteq {p} /\ last'[k] = i
        BY <2>8, <2>9 DEF Alone
      <3>2. k \in s
        BY <1>0, <1>1, <2>9 DEF NumInv, Marks
      <3>3. file'[k].n = i
        BY <2>8, <2>9, <3>2
      <3>4. \A q \in Holders' : mem'[q][k].n = i
        BY <1>2, <2>9, <3>1
      <3> QED BY <3>1, <3>3, <3>4 DEF Good
    <2>10. CASE mem[p][k].n # i
      <3>1. last'[k] = last[k] /\ last[k] # 0
        BY <2>8, <2>10
      <3>2. \A n : Good(k, n) => Good(k, n)'
        BY <2>6, <3>1 DEF Good, Err
      <3>3. Good(k, file[k].n)'
        <4>1. CASE k \notin s
          BY <2>1, <2>8, <3>1, <3>2, <4>1 DEF GoodInv
        <4>2. CASE k \in s
          <5>1. p # 0 \/ k \notin Assets
            <6> SUFFICES ASSUME p = 0, k \in Assets PROVE FALSE
              OBVIOUS
            <6>1. op[i].via = "http"
              BY <1>0 DEF Proc
            <6>2. s = Assets
              BY <1>1, <4>2, StoreOfName DEF Stores
            <6>3. op[i].kind # "run"
              BY <1>0, <2>10 DEF OpenInv
            <6>4. op[i].kind \in {"register", "remove"} /\ op[i].name \in Adapters
              BY <1>0, <6>1, <6>3, AtWork DEF OpenInv, ServiceInv
            <6>5. s = Adapters
              BY <6>3, <6>4, StoreOfName DEF Store, Stores, Names
            <6> QED BY <6>2, <6>4, <6>5, ServiceAssumption
          <5>2. Good(k, mem[p][k].n) \/ Pend(p, mem[p][k].n)
            BY <2>1, <2>5, <3>1, <5>1 DEF GoodInv
          <5> QED BY <2>7, <2>8, <2>10, <3>2, <4>2, <5>2
        <4> QED BY <4>1, <4>2
      <3>4. ASSUME NEW q \in Holders', q # 0 \/ k \notin Assets
            PROVE  (Good(k, mem[q][k].n) \/ Pend(q, mem[q][k].n))'
        <4>1. q \in Holders /\ mem'[q] = mem[q]
          BY <1>2
        <4>2. Good(k, mem[q][k].n) \/ Pend(q, mem[q][k].n)
          BY <2>1, <3>1, <3>4, <4>1 DEF GoodInv
        <4>3. CASE Good(k, mem[q][k].n)
          BY <3>2, <4>1, <4>3 DEF Good, Err
        <4>4. CASE Pend(q, mem[q][k].n)
          <5>1. mem[q][k].n # i
            BY <2>10, <4>4 DEF Pend
          <5> QED BY <1>0, <1>2, <4>1, <4>4, <5>1 DEF Pend, Holding, Proc
        <4> QED BY <4>2, <4>3, <4>4
      <3> QED BY <3>3, <3>4
    <2> QED BY <2>9, <2>10
  <1> QED BY <1>0, <1>3, <1>4 DEF KeepInv

LEMMA KeepSaveFails ==
  ASSUME ServiceInv, RunPlaces, KeepInv, NEW i \in Ops, SaveFails(i)
  PROVE  KeepInv'
  <1>0. /\ UNCHANGED file /\ UNCHANGED whole /\ UNCHANGED last /\ UNCHANGED op /\ UNCHANGED ops
        /\ UNCHANGED up /\ pc[i] \in Saves
    BY DEF SaveFails, Writing, Renaming, Saves
  <1>1. (UNCHANGED tmp /\ UNCHANGED clash) \/ \E stores : Torn(stores)
    BY DEF SaveFails
  <1>2. clash => clash'
    BY <1>1, TornClash
  <1>3. ~clash' => \A j \in Ops : pc[j] \in {"rename", "keep"} => tmp'[Store(j)] = tmp[Store(j)]
    BY <1>1, TornTmp
  <1>4. ASSUME NEW reply, End(i, reply), op[i].kind = "run" \/ reply = Failed PROVE KeepInv'
    BY <1>0, <1>2, <1>3, <1>4, KeepEnd DEF Saves
  <1>5. CASE GoesOn(i, "audit") /\ pc[i] \in {"print", "keep"}
    <2>1. /\ pc'[i] = "audit" /\ (\A j \in Ops \ {i} : pc'[j] = pc[j])
          /\ UNCHANGED mem /\ UNCHANGED outcome
      BY <1>5 DEF GoesOn, Goto, ServiceInv, TypeOK
    <2>2. Holders' = Holders /\ OpenInv /\ pc[i] # "over"
      BY <1>0, <1>5, <2>1 DEF Holders, Working, KeepInv
    <2>3. outcome[i] = NoReply
      BY <2>2 DEF OpenInv
    <2>4. OpenInv'
      BY <1>0, <2>1, <2>2, <2>3, OpenMove
    <2>5. ASSUME ~clash' PROVE (\A t \in Stores : whole'[t]) /\ TmpInv' /\ GoodInv'
      <3>1. (\A t \in Stores : whole[t]) /\ TmpInv /\ GoodInv
        BY <1>2, <2>5 DEF KeepInv
      <3>2. TmpInv'
        BY <1>0, <1>3, <2>1, <2>5, <3>1, TmpFrame
      <3>3. Holding(i)'
        BY <1>0, <1>5, <2>1 DEF Holding, RunPlaces
      <3>4. GoodInv'
        BY <1>0, <2>1, <2>2, <3>1, <3>3, GoodMove
      <3> QED BY <1>0, <3>1, <3>2, <3>4
    <2> QED BY <2>4, <2>5 DEF KeepInv
  <1> QED BY <1>4, <1>5 DEF SaveFails

LEMMA NextKeeps == ServiceInv /\ ServiceInv' /\ RunPlaces /\ NumInv /\ KeepInv /\ [Next]_vars => KeepInv'
  <1> SUFFICES ASSUME ServiceInv, ServiceInv', RunPlaces, NumInv, KeepInv, [Next]_vars PROVE KeepInv'
    OBVIOUS
  <1>0. TypeOK /\ TypeOK'
    BY DEF ServiceInv
  <1>1. CASE Boot
    <2>1. /\ UNCHANGED file /\ UNCHANGED whole /\ UNCHANGED tmp /\ UNCHANGED last /\ UNCHANGED clash
          /\ UNCHANGED op /\ UNCHANGED ops /\ UNCHANGED outcome /\ UNCHANGED pc
          /\ mem' = [mem EXCEPT ![0] = Loaded] /\ ~up /\ up'
      BY <1>1 DEF Boot, disk, request, trace, bounds
    <2>2. Holders' \subseteq Holders \cup {0}
      BY <2>1 DEF Holders, Working
    <2>3. \A j \in Ops : pc[j] \in {"save", "rename", "print", "keep"} => Proc(j) # 0
      BY <2>1 DEF KeepInv, OpenInv, Proc, Ops
    <2> QED BY <2>1, <2>2, <2>3, KeepLoad, BoundFacts
  <1>2. CASE KillServer
    BY <1>2, KeepKillServer
  <1>3. ASSUME NEW i \in Ops, KillCommand(i) PROVE KeepInv'
    BY <1>3, KeepKillCommand
  <1>4. ASSUME NEW o, NEW via \in {"http", "cli"}, NEW live, Send(via, o[1], o[2], live) PROVE KeepInv'
    BY <1>4, KeepSend
  <1>5. ASSUME NEW i \in Ops, Acquire(i) PROVE KeepInv'
    <2>1. /\ UNCHANGED file /\ UNCHANGED whole /\ UNCHANGED tmp /\ UNCHANGED last /\ UNCHANGED clash
          /\ UNCHANGED op /\ UNCHANGED ops /\ UNCHANGED outcome /\ UNCHANGED mem /\ UNCHANGED up
          /\ pc[i] = "queued" /\ Goto(i, "act")
      BY <1>5 DEF Acquire, At, disk, trace, bounds
    <2> QED BY <2>1, KeepGo DEF Holding, Saves
  <1>6. ASSUME NEW i \in Ops, Load(i) PROVE KeepInv'
    <2>1. /\ UNCHANGED file /\ UNCHANGED whole /\ UNCHANGED tmp /\ UNCHANGED last /\ UNCHANGED clash
          /\ UNCHANGED op /\ UNCHANGED ops /\ UNCHANGED outcome /\ UNCHANGED up
          /\ mem' = [mem EXCEPT ![i] = Loaded] /\ pc[i] = "load" /\ Goto(i, "act")
      BY <1>6 DEF Load, At, disk, trace, bounds
    <2>2. pc'[i] = "act" /\ \A j \in Ops \ {i} : pc'[j] = pc[j]
      BY <1>0, <2>1 DEF Goto, TypeOK
    <2>3. Holders' \subseteq Holders \cup {i}
      BY <2>1, <2>2 DEF Holders, Working
    <2>4. \A j \in Ops : pc[j] \in {"save", "rename", "print", "keep"} => Proc(j) # i
      BY <2>1 DEF Proc, Ops
    <2> QED BY <2>1, <2>2, <2>3, <2>4, KeepLoad, BoundFacts
  <1>7. ASSUME NEW i \in Ops, Change(i) PROVE KeepInv'
    <2>1. /\ UNCHANGED file /\ UNCHANGED whole /\ UNCHANGED tmp /\ UNCHANGED last /\ UNCHANGED clash
          /\ UNCHANGED op /\ UNCHANGED ops /\ UNCHANGED up
          /\ pc[i] = "act" /\ op[i].kind \in {"register", "remove", "user", "asset"}
      BY <1>7 DEF Change, At, disk, trace, bounds
    <2>2. CASE End(i, Reply("ok", {}))
      BY <2>1, <2>2, KeepEnd DEF Holding, Saves
    <2>3. CASE /\ mem' = [mem EXCEPT ![Proc(i)][op[i].name] = [n |-> i, live |-> op[i].live]]
               /\ Goto(i, "save") /\ UNCHANGED <<lock, outcome>>
      <3>1. op[i].name \in Names /\ Proc(i) \in Procs
        BY <2>1, AtWork DEF ServiceInv
      <3>2. PICK q \in Procs : q = Proc(i)
        BY <3>1
      <3>3. /\ mem' \in [Procs -> Dicts] /\ (\A p \in Procs \ {q} : mem'[p] = mem[p])
            /\ \A k \in Names : mem'[q][k] = mem[q][k] \/ mem'[q][k].n = i
        BY <1>0, <2>3, <3>1, <3>2 DEF TypeOK, Dicts
      <3>4. Goto(i, "save") /\ UNCHANGED outcome
        BY <2>3
      <3>5. op[i].kind \in {"register", "remove", "user", "asset", "run"} /\ op[i].kind # "run"
        BY <2>1
      <3> QED BY <2>1, <3>2, <3>3, <3>4, <3>5, KeepChange
    <2> QED BY <1>7, <2>2, <2>3 DEF Change
  <1>8. ASSUME NEW i \in Ops, Refuse(i) \/ RecordFails(i) \/ Look(i) PROVE KeepInv'
    <2>1. /\ UNCHANGED file /\ UNCHANGED whole /\ UNCHANGED tmp /\ UNCHANGED last /\ UNCHANGED clash
          /\ UNCHANGED op /\ UNCHANGED ops /\ UNCHANGED up
          /\ pc[i] \in {"act", "replace", "audit", "transfer"}
      BY <1>8 DEF Refuse, RecordFails, Look, At, disk, trace, bounds
    <2>2. PICK reply : End(i, reply) /\ (pc[i] = "audit" => reply = Failed)
      BY <1>8 DEF Refuse, RecordFails, Look, At
    <2> QED BY <2>1, <2>2, KeepEnd DEF Holding, Saves
  <1>9. ASSUME NEW i \in Ops, ChangeShare(i) \/ ReplaceShare(i) \/ StartRun(i) PROVE KeepInv'
    <2>1. /\ UNCHANGED file /\ UNCHANGED whole /\ UNCHANGED tmp /\ UNCHANGED last /\ UNCHANGED clash
          /\ UNCHANGED op /\ UNCHANGED ops /\ UNCHANGED up
          /\ pc[i] \in {"act", "replace"}
      BY <1>9 DEF ChangeShare, ReplaceShare, StartRun, At, disk, trace, bounds
    <2>2. ASSUME NEW reply, End(i, reply) PROVE KeepInv'
      BY <2>1, <2>2, KeepEnd DEF Holding, Saves
    <2>3. ASSUME NEW label \in {"replace", "audit", "transfer"}, GoesOn(i, label) PROVE KeepInv'
      BY <2>1, <2>3, KeepGo DEF GoesOn, Holding, Saves
    <2> QED BY <1>9, <2>2, <2>3 DEF ChangeShare, ReplaceShare, StartRun
  <1>10. ASSUME NEW i \in Ops, Transfer(i) \/ Note(i) PROVE KeepInv'
    <2>1. /\ UNCHANGED file /\ UNCHANGED whole /\ UNCHANGED tmp /\ UNCHANGED last /\ UNCHANGED clash
          /\ UNCHANGED op /\ UNCHANGED ops /\ UNCHANGED up
          /\ pc[i] \in {"transfer", "note"} /\ op[i].kind = "run"
      BY <1>10 DEF Transfer, Note, At, disk, trace, bounds, RunPlaces
    <2>2. CASE End(i, Reply("ok", {}))
      BY <2>1, <2>2, KeepEnd
    <2>3. ASSUME pc[i] = "transfer", NEW label \in {"note", "audit"}, GoesOn(i, label) PROVE KeepInv'
      BY <2>1, <2>3, KeepGo DEF GoesOn, Holding, Saves
    <2>4. ASSUME NEW label \in {"print", "save"}, ChangeAsset(i), Goto(i, label), UNCHANGED outcome
          PROVE  KeepInv'
      <3>1. PICK q \in Procs : q = Proc(i)
        BY <2>1, AtWork DEF ServiceInv
      <3>2. mem' \in [Procs -> Dicts]
        BY <1>0 DEF TypeOK
      <3>3. /\ \A p \in Procs \ {q} : mem'[p] = mem[p]
            /\ \A k \in Names : IF k \in Assets THEN mem'[q][k].n = i ELSE mem'[q][k] = mem[q][k]
        BY <1>0, <2>4, <3>1 DEF ChangeAsset, TypeOK
      <3> QED BY <2>1, <2>4, <3>1, <3>2, <3>3, KeepChange
    <2> QED BY <1>10, <2>2, <2>3, <2>4 DEF Transfer, Note, At
  <1>11. ASSUME NEW i \in Ops, Write(i) PROVE KeepInv'
    BY <1>11, KeepWrite
  <1>12. ASSUME NEW i \in Ops, Rename(i) PROVE KeepInv'
    BY <1>12, KeepRename
  <1>13. ASSUME NEW i \in Ops, SaveFails(i) PROVE KeepInv'
    BY <1>13, KeepSaveFails
  <1>15. ASSUME NEW i \in Ops, Record(i) PROVE KeepInv'
    <2>1. /\ UNCHANGED file /\ UNCHANGED whole /\ UNCHANGED tmp /\ UNCHANGED last /\ UNCHANGED clash
          /\ UNCHANGED op /\ UNCHANGED ops /\ UNCHANGED up /\ pc[i] = "audit"
      BY <1>15 DEF Record, At, disk, trace, bounds
    <2>2. CASE op[i].kind = "run" /\ GoesOn(i, "note")
      BY <2>1, <2>2, KeepGo DEF GoesOn, Saves
    <2>3. CASE op[i].kind # "run" /\ End(i, Reply("ok", Named(i)))
      BY <2>1, <2>3, KeepEnd DEF Holding, Saves
    <2> QED BY <1>15, <2>2, <2>3 DEF Record
  <1>16. ASSUME NEW i \in Ops, BadBody(i) PROVE KeepInv'
    <2>1. /\ UNCHANGED file /\ UNCHANGED whole /\ UNCHANGED tmp /\ UNCHANGED last /\ UNCHANGED clash
          /\ UNCHANGED op /\ UNCHANGED ops /\ UNCHANGED mem /\ UNCHANGED up
          /\ pc[i] = "queued" /\ OpenInv
      BY <1>16 DEF BadBody, At, disk, process, trace, KeepInv
    <2>2. /\ pc'[i] = "over" /\ (\A j \in Ops \ {i} : pc'[j] = pc[j] /\ outcome'[j] = outcome[j])
      BY <1>0, <1>16 DEF BadBody, Goto, TypeOK
    <2>3. \A p \in Holders' : p \in Holders /\ mem'[p] = mem[p]
      BY <2>1, <2>2 DEF Holders, Working
    <2>4. OpenInv'
      BY <2>1, <2>2, <2>3, OpenMove
    <2>5. ASSUME ~clash PROVE TmpInv' /\ GoodInv'
      <3>1. TmpInv /\ GoodInv
        BY <2>5 DEF KeepInv
      <3>2. TmpInv'
        BY <2>1, <2>2, <3>1, TmpFrame
      <3>3. ~Holding(i)
        BY <2>1 DEF Holding, Saves
      <3> QED BY <2>1, <2>2, <2>3, <3>1, <3>2, <3>3, GoodMove
    <2> QED BY <2>1, <2>4, <2>5 DEF KeepInv
  <1>14. CASE UNCHANGED vars
    <2>1. /\ UNCHANGED file /\ UNCHANGED whole /\ UNCHANGED tmp /\ UNCHANGED last /\ UNCHANGED clash
          /\ UNCHANGED op /\ UNCHANGED ops /\ UNCHANGED outcome /\ UNCHANGED up /\ UNCHANGED mem
          /\ UNCHANGED pc
      BY <1>14 DEF vars, disk, process, request, trace, bounds
    <2>2. OpenInv' <=> OpenInv
      BY <2>1 DEF OpenInv, Proc
    <2>3. TmpInv' <=> TmpInv
      BY <2>1 DEF TmpInv, Store, Proc
    <2>4. Holders' = Holders
      BY <2>1 DEF Holders, Working
    <2>5. GoodInv' <=> GoodInv
      BY <2>1, <2>4 DEF GoodInv, Good, Err, Pend, Holding, Proc
    <2> QED BY <2>1, <2>2, <2>3, <2>5 DEF KeepInv
  <1> QED
    BY <1>1, <1>2, <1>3, <1>4, <1>5, <1>6, <1>7, <1>8, <1>9, <1>10, <1>11, <1>12, <1>13, <1>14,
       <1>15, <1>16
    DEF Next, Advance

LEMMA InitKeeps == Init => RunPlaces /\ NumInv /\ KeepInv
  <1> SUFFICES ASSUME Init PROVE RunPlaces /\ NumInv /\ KeepInv
    OBVIOUS
  <1>1. RunPlaces
    BY DEF Init, RunPlaces
  <1>2. NumInv
    BY NothingMarks DEF Init, NumInv, NoTmp, Marks
  <1>3. KeepInv
    BY DEF Init, KeepInv, OpenInv, TmpInv, GoodInv, NoRequest
  <1> QED BY <1>1, <1>2, <1>3

(* A change that was saved by a process that worked alone stays in its file  *)
(* until an operation on the same name replaces it, or one that ended with an *)
(* error has: for every number of processes, faults and restarts.              *)
THEOREM OnlyOverlapLoses == Spec => []LostOnlyToOverlap
  <1> DEFINE Inv == ServiceInv /\ RunPlaces /\ NumInv /\ KeepInv
  <1>1. Init => Inv
    BY InitService, InitKeeps
  <1>2. Inv /\ [Next]_vars => Inv'
    BY NextService, NextRunPlaces, NextNum, NextKeeps
  <1>3. Inv => LostOnlyToOverlap
    <2> SUFFICES ASSUME Inv, ~clash
                 PROVE  /\ \A s \in Stores : whole[s]
                        /\ \A k \in Names : last[k] \notin {0, file[k].n} =>
                             file[k].n # 0 /\ outcome[file[k].n].status = "error"
      BY DEF LostOnlyToOverlap
    <2>1. (\A s \in Stores : whole[s]) /\ GoodInv
      BY DEF KeepInv
    <2> QED BY <2>1 DEF GoodInv, Good, Err, Ops
  <1> QED BY <1>1, <1>2, <1>3, PTL DEF Spec
=============================================================================
