--------------------------- MODULE RunBatch_proofs ---------------------------
(***************************************************************************)
(* What run_batch reports and what it leaves running, for every number of   *)
(* callers, shares, workers and executors.                                   *)
(***************************************************************************)
EXTENDS RunBatch, FiniteSetTheorems, TLAPS

States == {"new", "unknown", "queued", "running", "cancelled"} \cup Over
Labels == {"idle", "look", "create", "take", "submit", "collect", "returned", "raised"}
Numbers == [total : 0 .. Size, succeeded : 0 .. Size, failed : 0 .. Size]

(* The loop submits the shares one after the other, collects afterwards, and *)
(* what it has collected does not change any more.                            *)
CallInv(c) ==
  /\ pc[c] \in {"idle", "look", "create", "take", "submit"} => next[c] <= Size
  /\ pc[c] \notin {"collect", "returned"} => items[c] = {}
  /\ \A k \in items[c] : task[<<c, k>>] \in Over \cup {"unknown"}
  /\ pc[c] = "returned" => \A k \in Indices : task[<<c, k>>] # "queued"
  /\ pc[c] = "returned" =>
       /\ counts[c].succeeded + counts[c].failed = Cardinality(items[c])
       /\ counts[c].failed = Cardinality(items[c] \cap InState(c, {"errors", "raised", "unknown"}))
       /\ InState(c, {"unknown"}) \subseteq items[c]
       /\ items[c] # Indices => c \in FailFast /\ items[c] \cap InState(c, {"raised"}) # {}

BatchInv == TypeOK /\ \A c \in Callers : CallInv(c)

(* The shares of a batch can be counted. *)
LEMMA Counting ==
  ASSUME NEW S \in SUBSET Indices
  PROVE  IsFiniteSet(S) /\ Cardinality(S) \in 0 .. Size
  <1>1. IsFiniteSet(Indices) /\ Cardinality(Indices) = Size
    BY FS_Interval, BatchAssumption DEF Indices
  <1>2. IsFiniteSet(S) /\ Cardinality(S) <= Size
    BY <1>1, FS_Subset
  <1> QED
    BY <1>2, FS_CardinalityType, BatchAssumption

LEMMA CountingBoth ==
  ASSUME NEW S \in SUBSET Indices, NEW T \in SUBSET Indices, S \cap T = {}
  PROVE  Cardinality(S) + Cardinality(T) = Cardinality(S \cup T)
  <1>1. IsFiniteSet(S) /\ IsFiniteSet(T)
    BY Counting
  <1>2. Cardinality(S \cup T) = Cardinality(S) + Cardinality(T) - Cardinality(S \cap T)
    BY <1>1, FS_Union
  <1>3. Cardinality(S \cap T) = 0
    BY FS_EmptySet
  <1>5. Cardinality(S) \in Nat /\ Cardinality(T) \in Nat
    BY <1>1, FS_CardinalityType
  <1> QED
    BY <1>2, <1>3, <1>5

(* What a report counts, when all that it reports is over. *)
LEMMA ReportCounts ==
  ASSUME NEW c \in Callers, NEW collected \in SUBSET Indices,
         \A i \in collected : task[<<c, i>>] \in Over \cup {"unknown"}
  PROVE  LET reported == collected \cup InState(c, {"unknown"})
             report == Report(c, collected)
         IN  /\ report.succeeded + report.failed = Cardinality(reported)
             /\ report.failed = Cardinality(reported \cap InState(c, {"errors", "raised", "unknown"}))
  <1> DEFINE reported == collected \cup InState(c, {"unknown"})
             good == InState(c, {"ok"}) \cap reported
             bad == InState(c, {"errors", "raised", "unknown"}) \cap reported
  <1>1. good \in SUBSET Indices /\ bad \in SUBSET Indices /\ good \cap bad = {}
    BY DEF InState
  <1>2. \A i \in reported : i \in Indices /\ task[<<c, i>>] \in Over \cup {"unknown"}
    BY DEF InState
  <1>3. good \cup bad = reported
    BY <1>2 DEF InState, Over
  <1>4. Cardinality(good) + Cardinality(bad) = Cardinality(good \cup bad)
    BY <1>1, CountingBoth
  <1>5. bad = reported \cap InState(c, {"errors", "raised", "unknown"})
    OBVIOUS
  <1>6. Report(c, collected).succeeded = Cardinality(good) /\ Report(c, collected).failed = Cardinality(bad)
    BY DEF Report
  <1> HIDE DEF good, bad, reported
  <1>7. /\ Report(c, collected).succeeded + Report(c, collected).failed = Cardinality(reported)
        /\ Report(c, collected).failed = Cardinality(reported \cap InState(c, {"errors", "raised", "unknown"}))
    BY <1>3, <1>4, <1>5, <1>6
  <1> QED BY <1>7 DEF reported

LEMMA ReportType ==
  ASSUME NEW c \in Callers, NEW collected \in SUBSET Indices
  PROVE  Report(c, collected) \in Numbers
  <1> DEFINE reported == collected \cup InState(c, {"unknown"})
             good == InState(c, {"ok"}) \cap reported
             bad == InState(c, {"errors", "raised", "unknown"}) \cap reported
  <1>1. good \in SUBSET Indices /\ bad \in SUBSET Indices
    BY DEF InState
  <1>2. Cardinality(good) \in 0 .. Size /\ Cardinality(bad) \in 0 .. Size /\ Size \in 0 .. Size
    BY <1>1, Counting, BatchAssumption
  <1> HIDE DEF good, bad
  <1>3. [total |-> Size, succeeded |-> Cardinality(good), failed |-> Cardinality(bad)] \in Numbers
    BY <1>2 DEF Numbers
  <1> QED
    BY <1>3 DEF Report, good, bad

LEMMA InitBatchInv == Init => BatchInv
  <1> SUFFICES ASSUME Init PROVE BatchInv
    OBVIOUS
  <1>1. TypeOK
    BY BatchAssumption DEF Init, TypeOK, NoCounts, Pools, Indices
  <1>2. \A c \in Callers : CallInv(c)
    BY BatchAssumption DEF Init, CallInv
  <1> QED BY <1>1, <1>2 DEF BatchInv

(* The parts of the type that a step of a caller can leave alone. *)
PoolOK ==
  /\ exec \in 0 .. created /\ created \in 0 .. MaxPools /\ closed \subseteq 1 .. created
  /\ queue \in [Pools -> Seq(Tasks)] /\ on \in [Tasks -> 0 .. created]
  /\ hand \in [Callers -> 0 .. created] /\ closing \in 0 .. created
  /\ shutdowns \in 0 .. MaxShutdowns
CallOK ==
  /\ task \in [Tasks -> States] /\ pc \in [Callers -> Labels]
  /\ next \in [Callers -> 1 .. Size + 1] /\ items \in [Callers -> SUBSET Indices]
  /\ counts \in [Callers -> Numbers]

LEMMA TypeParts == (TypeOK <=> PoolOK /\ CallOK) /\ (TypeOK' <=> PoolOK' /\ CallOK')
  BY DEF TypeOK, PoolOK, CallOK, States, Labels, Numbers

LEMMA PoolFrame ==
  ASSUME PoolOK, UNCHANGED <<pool, on, hand, closing, shutdowns>>
  PROVE  PoolOK'
  BY DEF PoolOK, pool

LEMMA CallFrame ==
  ASSUME CallOK, UNCHANGED <<task, pc, next, items, counts>>
  PROVE  CallOK'
  BY DEF CallOK

(* What no step of another caller does to the invariant of a call: it only   *)
(* reads the shares of its batch, and those that are over stay so.            *)
LEMMA OtherCall ==
  ASSUME TypeOK, NEW c \in Callers, CallInv(c), UNCHANGED <<pc[c], next[c], items[c], counts[c]>>,
         \A k \in Indices :
           \/ task'[<<c, k>>] = task[<<c, k>>]
           \/ task[<<c, k>>] \in {"queued", "running"} /\ task'[<<c, k>>] \notin {"queued", "unknown"}
  PROVE  CallInv(c)'
  <1>1. \A k \in items[c] : k \in Indices /\ task'[<<c, k>>] = task[<<c, k>>]
    BY DEF TypeOK, CallInv, Over
  <1>2. \A S \in {{"errors", "raised", "unknown"}, {"raised"}} :
          (items[c] \cap InState(c, S))' = items[c] \cap InState(c, S)
    BY <1>1 DEF InState
  <1>3. InState(c, {"unknown"})' \subseteq InState(c, {"unknown"})
    BY DEF InState
  <1> QED
    BY <1>1, <1>2, <1>3 DEF CallInv, TypeOK

LEMMA NextBatchInv == BatchInv /\ [Next]_vars => BatchInv'
  <1> SUFFICES ASSUME BatchInv, [Next]_vars PROVE BatchInv'
    OBVIOUS
  <1>0. TypeOK /\ PoolOK /\ CallOK /\ \A c \in Callers : CallInv(c)
    BY TypeParts DEF BatchInv
  <1>a. ASSUME TypeOK', NEW c \in Callers, CallInv(c)',
               UNCHANGED task \/ (\A t \in Tasks \ Batch(c) : task'[t] = task[t]),
               \A d \in Callers \ {c} : UNCHANGED <<pc[d], next[d], items[d], counts[d]>>
        PROVE  BatchInv'
    <2>1. ASSUME NEW d \in Callers \ {c} PROVE CallInv(d)'
      <3>1. \A k \in Indices : <<d, k>> \in Tasks \ Batch(c)
        BY DEF Tasks, Batch
      <3> QED BY <1>0, <1>a, <3>1, OtherCall
    <2> QED BY <1>a, <2>1 DEF BatchInv
  <1> USE <1>0, TypeParts
  <1>1. ASSUME NEW c \in Callers, Resolve(c) PROVE BatchInv'
    <2>1. PoolOK'
      BY <1>1, PoolFrame DEF Resolve, call
    <2>2. CallOK'
      BY <1>1 DEF Resolve, Goto, call, CallOK, States, Labels
    <2>3. CallInv(c)'
      BY <1>1 DEF Resolve, At, Goto, call, CallInv, CallOK
    <2>4. \A t \in Tasks \ Batch(c) : task'[t] = task[t]
      BY <1>1 DEF Resolve
    <2>5. \A d \in Callers \ {c} : UNCHANGED <<pc[d], next[d], items[d], counts[d]>>
      BY <1>1 DEF Resolve, Goto, call, CallOK
    <2> QED BY <1>a, <2>1, <2>2, <2>3, <2>4, <2>5
  <1>2. ASSUME NEW c \in Callers, Look(c) \/ Create(c) \/ Take(c) PROVE BatchInv'
    <2>1. PoolOK'
      <3>1. CASE Look(c)
        BY <3>1, PoolFrame DEF Look
      <3>2. CASE Create(c)
        <4>1. created' = created + 1 /\ exec' = created' /\ created \in Nat /\ created' \in 0 .. MaxPools
          BY <3>2, BatchAssumption DEF Create, PoolOK
        <4>2. 0 .. created \subseteq 0 .. created' /\ 1 .. created \subseteq 1 .. created' /\ created' \in 0 .. created'
          BY <4>1
        <4> QED
          BY <3>2, <4>1, <4>2 DEF Create, call, PoolOK
      <3>3. CASE Take(c)
        BY <3>3 DEF Take, pool, PoolOK
      <3> QED BY <1>2, <3>1, <3>2, <3>3
    <2>2. /\ UNCHANGED <<task, items, counts>> /\ pc[c] \in {"look", "create", "take"}
          /\ \/ next' = next /\ \E l \in {"create", "take", "submit", "raised"} : Goto(c, l)
             \/ /\ next' = [next EXCEPT ![c] = @ + 1]
                /\ Goto(c, IF next[c] + 1 > Size THEN "collect" ELSE "look")
      BY <1>2 DEF Look, Create, Take, At, Loop, call
    <2>3. next[c] \in 1 .. Size /\ items[c] = {}
      <3>1. next[c] <= Size /\ items[c] = {}
        BY <2>2 DEF CallInv
      <3>2. next[c] \in 1 .. Size + 1
        BY DEF CallOK
      <3> QED BY <3>1, <3>2, BatchAssumption
    <2>4. CallOK'
      BY <2>2, <2>3, BatchAssumption DEF Goto, CallOK, Labels
    <2>5. CallInv(c)'
      BY <2>2, <2>3, BatchAssumption DEF Goto, CallInv, CallOK
    <2>6. \A d \in Callers \ {c} : UNCHANGED <<pc[d], next[d], items[d], counts[d]>>
      BY <2>2 DEF Goto, CallOK
    <2> QED BY <1>a, <2>1, <2>2, <2>4, <2>5, <2>6
  <1>3. ASSUME NEW c \in Callers, Submit(c) PROVE BatchInv'
    <2> DEFINE k == next[c]
               p == hand[c]
    <2>1. pc[c] = "submit" /\ k \in 1 .. Size /\ items[c] = {} /\ <<c, k>> \in Tasks
      <3>1. pc[c] = "submit"
        BY <1>3 DEF Submit, At
      <3>2. k \in 1 .. Size + 1 /\ k <= Size /\ items[c] = {}
        BY <3>1 DEF CallInv, CallOK
      <3>3. k \in 1 .. Size
        BY <3>2, BatchAssumption
      <3> QED BY <3>1, <3>2, <3>3 DEF Tasks, Indices
    <2>2. CASE p \in closed
      <3>1. UNCHANGED <<task, on, pool, hand, closing, shutdowns, next, items, counts>> /\ Goto(c, "raised")
        BY <1>3, <2>2 DEF Submit, pool
      <3>2. PoolOK' /\ CallOK'
        BY <3>1, PoolFrame DEF Goto, CallOK, Labels
      <3>3. CallInv(c)'
        BY <2>1, <3>1 DEF Goto, CallInv, CallOK
      <3>4. \A d \in Callers \ {c} : UNCHANGED <<pc[d], next[d], items[d], counts[d]>>
        BY <3>1 DEF Goto, CallOK
      <3> QED BY <1>a, <3>1, <3>2, <3>3, <3>4
    <2>3. CASE p \notin closed
      <3>1. /\ queue' = [queue EXCEPT ![p] = Append(@, <<c, k>>)]
            /\ task' = [task EXCEPT ![<<c, k>>] = "queued"] /\ on' = [on EXCEPT ![<<c, k>>] = p]
            /\ next' = [next EXCEPT ![c] = k + 1]
            /\ Goto(c, IF k + 1 > Size THEN "collect" ELSE "look")
            /\ UNCHANGED <<exec, created, closed, hand, items, counts, closing, shutdowns>>
        BY <1>3, <2>3 DEF Submit, Loop
      <3>2. queue' \in [Pools -> Seq(Tasks)]
        <4>1. \A q \in Seq(Tasks) : Append(q, <<c, k>>) \in Seq(Tasks)
          BY <2>1
        <4>2. queue \in [Pools -> Seq(Tasks)]
          BY DEF PoolOK
        <4> QED BY <3>1, <4>1, <4>2
      <3>3. PoolOK'
        BY <2>1, <3>1, <3>2 DEF PoolOK
      <3>4. CallOK'
        BY <2>1, <3>1, BatchAssumption DEF Goto, CallOK, States, Labels
      <3>5. CallInv(c)'
        BY <2>1, <3>1, BatchAssumption DEF Goto, CallInv, CallOK
      <3>6. \A t \in Tasks \ Batch(c) : task'[t] = task[t]
        BY <2>1, <3>1 DEF CallOK, Batch, Indices
      <3>7. \A d \in Callers \ {c} : UNCHANGED <<pc[d], next[d], items[d], counts[d]>>
        BY <3>1 DEF Goto, CallOK
      <3> QED BY <1>a, <3>3, <3>4, <3>5, <3>6, <3>7
    <2> QED BY <2>2, <2>3
  <1>4. ASSUME NEW p \in Pools, StartTask(p) PROVE BatchInv'
    <2> DEFINE t == Head(queue[p])
    <2>1. queue[p] \in Seq(Tasks) /\ queue[p] # <<>> /\ t \in Tasks /\ Tail(queue[p]) \in Seq(Tasks)
      BY <1>4 DEF StartTask, PoolOK
    <2>2. /\ queue' = [queue EXCEPT ![p] = Tail(@)]
          /\ task' = task \/ (task[t] = "queued" /\ task' = [task EXCEPT ![t] = "running"])
          /\ UNCHANGED <<exec, created, closed, on, pc, next, hand, items, counts, closing, shutdowns>>
      BY <1>4 DEF StartTask, call
    <2>3. PoolOK'
      BY <2>1, <2>2 DEF PoolOK
    <2>4. CallOK'
      BY <2>1, <2>2 DEF CallOK, States
    <2>5. ASSUME NEW c \in Callers PROVE CallInv(c)'
      <3>1. \A k \in Indices : <<c, k>> \in Tasks
        BY DEF Tasks
      <3> QED BY <2>1, <2>2, <3>1, OtherCall DEF CallOK
    <2> QED BY <2>3, <2>4, <2>5 DEF BatchInv
  <1>5. ASSUME NEW t \in Tasks, NEW outcome \in Over, FinishTask(t, outcome) PROVE BatchInv'
    <2>1. PoolOK'
      BY <1>5, PoolFrame DEF FinishTask, call
    <2>2. CallOK'
      BY <1>5 DEF FinishTask, call, CallOK, States
    <2>3. ASSUME NEW c \in Callers PROVE CallInv(c)'
      <3>1. \A k \in Indices : <<c, k>> \in Tasks
        BY DEF Tasks
      <3> QED BY <1>5, <3>1, OtherCall DEF FinishTask, call, CallOK, Over
    <2> QED BY <2>1, <2>2, <2>3 DEF BatchInv
  <1>6. ASSUME NEW c \in Callers, NEW k \in Indices, Collect(c, k) PROVE BatchInv'
    <2>1. /\ pc[c] = "collect" /\ task[<<c, k>>] \in Over /\ <<c, k>> \in Tasks
          /\ UNCHANGED <<pool, on, next, hand, closing, shutdowns>>
      BY <1>6 DEF Collect, At, Tasks
    <2>2. PoolOK'
      BY <2>1, PoolFrame
    <2>3. CASE task[<<c, k>>] = "raised" /\ c \in FailFast
      <3> DEFINE all == items[c] \cup {k}
      <3>1. /\ task' = [t \in Tasks |-> IF t \in Batch(c) /\ task[t] = "queued" THEN "cancelled" ELSE task[t]]
            /\ pc' = [pc EXCEPT ![c] = "returned"]
            /\ items' = [items EXCEPT ![c] = all \cup InState(c, {"unknown"})]
            /\ counts' = [counts EXCEPT ![c] = Report(c, all)]
        BY <1>6, <2>3 DEF Collect, Return, Goto
      <3>2. all \in SUBSET Indices /\ InState(c, {"unknown"}) \subseteq Indices /\ Report(c, all) \in Numbers
        BY ReportType DEF CallOK, InState
      <3>3. CallOK'
        BY <2>1, <3>1, <3>2 DEF CallOK, States, Labels
      <3>4. \A i \in Indices : <<c, i>> \in Batch(c) /\ <<c, i>> \in Tasks
        BY DEF Batch, Tasks
      <3>5. CallInv(c)'
        <4> DEFINE reported == all \cup InState(c, {"unknown"})
                   bad == {"errors", "raised", "unknown"}
        <4>1. \A i \in Indices : task'[<<c, i>>] = IF task[<<c, i>>] = "queued" THEN "cancelled" ELSE task[<<c, i>>]
          BY <3>1, <3>4
        <4>2. \A i \in reported : i \in Indices /\ task[<<c, i>>] \in Over \cup {"unknown"}
          BY <2>1, <3>2 DEF CallInv, InState
        <4>3. \A i \in reported : task'[<<c, i>>] = task[<<c, i>>]
          BY <4>1, <4>2 DEF Over
        <4>4. items'[c] = reported /\ pc'[c] = "returned" /\ counts'[c] = Report(c, all)
          BY <3>1 DEF CallOK
        <4>5. /\ counts'[c].succeeded + counts'[c].failed = Cardinality(reported)
              /\ counts'[c].failed = Cardinality(reported \cap InState(c, bad))
          BY <3>2, <4>2, <4>4, ReportCounts
        <4>6. (InState(c, {"unknown"}))' \subseteq reported
          BY <4>1 DEF InState
        <4>7. reported \cap InState(c, bad)' = reported \cap InState(c, bad)
          BY <4>3 DEF InState
        <4>8. k \in reported \cap InState(c, {"raised"})'
          BY <2>3, <4>3 DEF InState
        <4>9. \A i \in Indices : task'[<<c, i>>] # "queued"
          BY <4>1
        <4> HIDE DEF reported
        <4> QED
          BY <2>3, <4>2, <4>3, <4>4, <4>5, <4>6, <4>7, <4>8, <4>9 DEF CallInv
      <3>6. \A t \in Tasks \ Batch(c) : task'[t] = task[t]
        BY <3>1
      <3>7. \A d \in Callers \ {c} : UNCHANGED <<pc[d], next[d], items[d], counts[d]>>
        BY <2>1, <3>1 DEF CallOK
      <3> QED BY <1>a, <2>2, <3>3, <3>5, <3>6, <3>7
    <2>4. CASE ~(task[<<c, k>>] = "raised" /\ c \in FailFast)
      <3>1. items' = [items EXCEPT ![c] = @ \cup {k}] /\ UNCHANGED <<task, pc, counts>>
        BY <1>6, <2>4 DEF Collect
      <3>2. CallOK'
        BY <2>1, <3>1 DEF CallOK
      <3>3. CallInv(c)'
        BY <2>1, <3>1 DEF CallInv, CallOK
      <3>4. \A d \in Callers \ {c} : UNCHANGED <<pc[d], next[d], items[d], counts[d]>>
        BY <2>1, <3>1 DEF CallOK
      <3> QED BY <1>a, <2>2, <3>1, <3>2, <3>3, <3>4
    <2> QED BY <2>3, <2>4
  <1>7. ASSUME NEW c \in Callers, CollectedAll(c) PROVE BatchInv'
    <2> DEFINE bad == {"errors", "raised", "unknown"}
    <2>1. /\ pc[c] = "collect" /\ items[c] \cup InState(c, {"unknown"}) = Indices
          /\ pc' = [pc EXCEPT ![c] = "returned"]
          /\ items' = [items EXCEPT ![c] = Indices]
          /\ counts' = [counts EXCEPT ![c] = Report(c, items[c])]
          /\ UNCHANGED <<pool, task, on, next, hand, closing, shutdowns>>
      BY <1>7 DEF CollectedAll, Return, At, Goto
    <2>2. PoolOK'
      BY <2>1, PoolFrame
    <2>3. Report(c, items[c]) \in Numbers
      BY ReportType DEF CallOK
    <2>4. CallOK'
      BY <2>1, <2>3 DEF CallOK, Labels
    <2>5. \A i \in Indices : task[<<c, i>>] \in Over \cup {"unknown"}
      BY <2>1 DEF CallInv, InState
    <2>6. items'[c] = Indices /\ counts'[c] = Report(c, items[c]) /\ pc'[c] = "returned"
      BY <2>1 DEF CallOK
    <2>7. /\ counts'[c].succeeded + counts'[c].failed = Cardinality(Indices)
          /\ counts'[c].failed = Cardinality(Indices \cap InState(c, bad))
      BY <2>1, <2>5, <2>6, ReportCounts DEF CallOK
    <2>8. \A S : InState(c, S)' = InState(c, S) /\ InState(c, S) \subseteq Indices
      BY <2>1 DEF InState
    <2>12. CallInv(c)'
      BY <2>1, <2>5, <2>6, <2>7, <2>8 DEF CallInv, Over
    <2>13. \A d \in Callers \ {c} : UNCHANGED <<pc[d], next[d], items[d], counts[d]>>
      BY <2>1 DEF CallOK
    <2> QED BY <1>a, <2>1, <2>2, <2>4, <2>12, <2>13
  <1>8. CASE Shutdown \/ ShutdownReturns \/ UNCHANGED vars
    <2>1. UNCHANGED <<task, pc, next, items, counts>>
      BY <1>8 DEF Shutdown, ShutdownReturns, vars, call
    <2>2. PoolOK'
      <3>1. CASE Shutdown
        BY <3>1, BatchAssumption DEF Shutdown, call, PoolOK
      <3>2. CASE ShutdownReturns
        BY <3>2 DEF ShutdownReturns, call, PoolOK
      <3>3. CASE UNCHANGED vars
        BY <3>3, PoolFrame DEF vars, call
      <3> QED BY <1>8, <3>1, <3>2, <3>3
    <2>3. \A c \in Callers : CallInv(c)'
      BY <2>1, OtherCall
    <2> QED BY <2>1, <2>2, <2>3, CallFrame DEF BatchInv
  <1> QED
    BY <1>1, <1>2, <1>3, <1>4, <1>5, <1>6, <1>7, <1>8 DEF Next, Advance

THEOREM BatchSafety == Spec => []BatchInv
  BY InitBatchInv, NextBatchInv, PTL DEF Spec

(* The types, among them that the loop never goes beyond the last share. *)
THEOREM BatchTypes == Spec => []TypeOK
  BY BatchSafety, PTL DEF BatchInv

(* What is reported is counted once, and a batch that returns leaves a share  *)
(* unreported only with fail_fast, after another one raised.                  *)
THEOREM BatchIsReported == Spec => []EveryShareIsReported
  <1>1. BatchInv => EveryShareIsReported
    BY DEF BatchInv, CallInv, EveryShareIsReported, At
  <1> QED BY <1>1, BatchSafety, PTL

(* After run_batch has returned, fail_fast or not, none of its shares starts. *)
THEOREM ReturnedBatchIsQuiet == Spec => NothingStartsAfterReturn
  <1>1. BatchInv => \A t \in Tasks : task[t] = "queued" => pc[t[1]] # "returned"
    <2> SUFFICES ASSUME BatchInv, NEW c \in Callers, NEW k \in Indices, task[<<c, k>>] = "queued"
                 PROVE  pc[c] # "returned"
      BY DEF Tasks
    <2> QED BY DEF BatchInv, CallInv
  <1>2. BatchInv /\ [Next]_vars =>
          [\A t \in Tasks : task[t] = "queued" /\ task'[t] = "running" => pc[t[1]] # "returned"]_vars
    BY <1>1
  <1> QED BY <1>2, BatchSafety, PTL DEF Spec, NothingStartsAfterReturn
=============================================================================
