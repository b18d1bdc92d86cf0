------------------------------ MODULE RunBatch ------------------------------
(***************************************************************************)
(* TransferEngine.run_batch, _executor and shutdown                        *)
(* (cdeh/core/transfer.py): batches of shares, submitted from several      *)
(* threads to an executor that is created on first use.                    *)
(*                                                                         *)
(* A run of a share is one task with an outcome: "ok", "errors" (a         *)
(* TransferResult that lists errors) or "raised" (an exception).           *)
(* ThreadPoolExecutor and Future are modelled from how they are used here: *)
(* first in, first out, a bound on the running tasks, a cancel that only   *)
(* works before the start.  Each thread calls run_batch once.              *)
(***************************************************************************)
EXTENDS Naturals, Sequences, FiniteSets

CONSTANTS
  Callers,       \* threads that call run_batch
  Size,          \* shares of a batch
  Unknown,       \* <<caller, k>>: the k-th share names an adapter not registered
  FailFast,      \* callers that pass fail_fast=True
  Workers,       \* max_workers of an executor (8 in the code)
  MaxPools,      \* bound on the executors ever created
  MaxShutdowns   \* bound on the calls of shutdown

ASSUME BatchAssumption ==
  /\ Size \in Nat \ {0} /\ Unknown \subseteq Callers \X (1 .. Size) /\ FailFast \subseteq Callers
  /\ Workers \in Nat \ {0} /\ MaxPools \in Nat \ {0} /\ MaxShutdowns \in Nat

VARIABLES
  exec,      \* _exec: the executor of the engine (0: no such attribute)
  created,   \* number of executors created
  closed,    \* executors on which shutdown was called
  queue,     \* tasks waiting in each executor
  task,      \* state of each share of each batch
  on,        \* executor it was submitted to (0: none)
  pc,        \* where each call of run_batch is
  next,      \* the share it submits next
  hand,      \* the executor it has taken
  items,     \* shares whose outcome it has collected
  counts,    \* the numbers of its BatchResult
  closing,   \* executor that the thread in shutdown waits for (0: none)
  shutdowns

pool == <<exec, created, closed, queue>>
call == <<next, hand, items, counts>>
vars == <<pool, task, on, pc, call, closing, shutdowns>>

Indices == 1 .. Size
Tasks == Callers \X Indices
Pools == 1 .. MaxPools
Over == {"ok", "errors", "raised"}
NoCounts == [total |-> 0, succeeded |-> 0, failed |-> 0]

TypeOK ==
  /\ exec \in 0 .. created /\ created \in 0 .. MaxPools /\ closed \subseteq 1 .. created
  /\ queue \in [Pools -> Seq(Tasks)]
  /\ task \in [Tasks -> {"new", "unknown", "queued", "running", "cancelled"} \cup Over]
  /\ on \in [Tasks -> 0 .. created]
  /\ pc \in [Callers -> {"idle", "look", "create", "take", "submit", "collect",
                         "returned", "raised"}]
  /\ next \in [Callers -> 1 .. Size + 1] /\ hand \in [Callers -> 0 .. created]
  /\ items \in [Callers -> SUBSET Indices]
  /\ counts \in [Callers -> [total : 0 .. Size, succeeded : 0 .. Size, failed : 0 .. Size]]
  /\ closing \in 0 .. created /\ shutdowns \in 0 .. MaxShutdowns

Init ==
  /\ exec = 0 /\ created = 0 /\ closed = {} /\ queue = [p \in Pools |-> <<>>]
  /\ task = [t \in Tasks |-> "new"] /\ on = [t \in Tasks |-> 0]
  /\ pc = [c \in Callers |-> "idle"] /\ next = [c \in Callers |-> 1]
  /\ hand = [c \in Callers |-> 0] /\ items = [c \in Callers |-> {}]
  /\ counts = [c \in Callers |-> NoCounts] /\ closing = 0 /\ shutdowns = 0

-----------------------------------------------------------------------------
At(c, label) == pc[c] = label
Goto(c, label) == pc' = [pc EXCEPT ![c] = label]
Running == {t \in Tasks : task[t] = "running"}
Batch(c) == {c} \X Indices
InState(c, states) == {k \in Indices : task[<<c, k>>] \in states}

(* A loop that goes one share too far (a defect for TypeOK). *)
Loop_OneMore(c, k) == IF k > Size + 1 THEN "collect" ELSE "look"

(* Where the loop goes that submits the shares, once k - 1 are dealt with. *)
Loop(c, k) == IF k > Size THEN "collect" ELSE "look"

(* Resolve the adapters of every share before any is submitted. *)
Resolve(c) ==
  /\ At(c, "idle")
  /\ task' = [t \in Tasks |-> IF t \in Batch(c) \cap Unknown THEN "unknown" ELSE task[t]]
  /\ Goto(c, "look")
  /\ UNCHANGED <<pool, on, call, closing, shutdowns>>

(* The property _executor: look for the attribute, create it, read it. *)
Look(c) ==
  /\ At(c, "look")
  /\ IF <<c, next[c]>> \in Unknown
     THEN next' = [next EXCEPT ![c] = @ + 1] /\ Goto(c, Loop(c, next[c] + 1))
     ELSE UNCHANGED next /\ Goto(c, IF exec = 0 THEN "create" ELSE "take")
  /\ UNCHANGED <<pool, task, on, hand, items, counts, closing, shutdowns>>

Create(c) ==
  /\ At(c, "create") /\ created < MaxPools
  /\ created' = created + 1 /\ exec' = created + 1
  /\ Goto(c, "take")
  /\ UNCHANGED <<closed, queue, task, on, call, closing, shutdowns>>

Take(c) ==
  /\ At(c, "take")
  /\ hand' = [hand EXCEPT ![c] = exec]
  /\ Goto(c, IF exec = 0 THEN "raised" ELSE "submit")
  /\ UNCHANGED <<pool, task, on, next, items, counts, closing, shutdowns>>

(* An executor that was shut down refuses the task, and run_batch raises. *)
Submit(c) ==
  LET k == next[c]  p == hand[c] IN
  /\ At(c, "submit")
  /\ IF p \in closed
     THEN UNCHANGED <<queue, task, on, next>> /\ Goto(c, "raised")
     ELSE /\ queue' = [queue EXCEPT ![p] = Append(@, <<c, k>>)]
          /\ task' = [task EXCEPT ![<<c, k>>] = "queued"]
          /\ on' = [on EXCEPT ![<<c, k>>] = p]
          /\ next' = [next EXCEPT ![c] = k + 1]
          /\ Goto(c, Loop(c, k + 1))
  /\ UNCHANGED <<exec, created, closed, hand, items, counts, closing, shutdowns>>

-----------------------------------------------------------------------------
(* Workers that stop once their executor is closed (a defect for BatchReturns). *)
StartTask_UnlessClosed(p) ==
  /\ queue[p] # <<>> /\ p \notin closed
  /\ LET t == Head(queue[p]) IN
       \/ task[t] = "cancelled" /\ UNCHANGED task
       \/ /\ task[t] = "queued" /\ Cardinality({u \in Running : on[u] = p}) < Workers
          /\ task' = [task EXCEPT ![t] = "running"]
  /\ queue' = [queue EXCEPT ![p] = Tail(@)]
  /\ UNCHANGED <<exec, created, closed, on, pc, call, closing, shutdowns>>

(* A worker of the ThreadPoolExecutor takes the head of the queue; a         *)
(* cancelled future is dropped there.                                         *)
StartTask(p) ==
  /\ queue[p] # <<>>
  /\ LET t == Head(queue[p]) IN
       \/ task[t] = "cancelled" /\ UNCHANGED task
       \/ /\ task[t] = "queued" /\ Cardinality({u \in Running : on[u] = p}) < Workers
          /\ task' = [task EXCEPT ![t] = "running"]
  /\ queue' = [queue EXCEPT ![p] = Tail(@)]
  /\ UNCHANGED <<exec, created, closed, on, pc, call, closing, shutdowns>>

FinishTask(t, outcome) ==
  /\ task[t] = "running"
  /\ task' = [task EXCEPT ![t] = outcome]
  /\ UNCHANGED <<pool, on, pc, call, closing, shutdowns>>

(* A result with errors counted on both sides (a defect for EveryShareIsReported). *)
Report_ErrorsSucceed(c, collected) ==
  LET reported == collected \cup InState(c, {"unknown"})
      good == InState(c, {"ok", "errors"}) \cap reported
      bad == InState(c, {"errors", "raised", "unknown"}) \cap reported
  IN [total |-> Size, succeeded |-> Cardinality(good), failed |-> Cardinality(bad)]

(* The numbers of the BatchResult, from the outcomes that were collected. *)
Report(c, collected) ==
  LET reported == collected \cup InState(c, {"unknown"})
      good == InState(c, {"ok"}) \cap reported
      bad == InState(c, {"errors", "raised", "unknown"}) \cap reported
  IN [total |-> Size, succeeded |-> Cardinality(good), failed |-> Cardinality(bad)]

Return(c, collected) ==
  /\ Goto(c, "returned")
  /\ items' = [items EXCEPT ![c] = collected \cup InState(c, {"unknown"})]
  /\ counts' = [counts EXCEPT ![c] = Report(c, collected)]

(* fail_fast leaves the loop and cancels nothing (a defect for               *)
(* NothingStartsAfterReturn).                                                *)
Collect_LeavesPending(c, k) ==
  /\ At(c, "collect") /\ k \notin items[c]
  /\ task[<<c, k>>] \in Over
  /\ IF task[<<c, k>>] = "raised" /\ c \in FailFast
     THEN UNCHANGED task /\ Return(c, items[c] \cup {k})
     ELSE /\ items' = [items EXCEPT ![c] = @ \cup {k}]
          /\ UNCHANGED <<task, pc, counts>>
  /\ UNCHANGED <<pool, on, next, hand, closing, shutdowns>>

(* as_completed yields a finished future; on an exception fail_fast cancels *)
(* the futures that have not started, and leaves the loop.                  *)
Collect(c, k) ==
  /\ At(c, "collect") /\ k \notin items[c]
  /\ task[<<c, k>>] \in Over
  /\ IF task[<<c, k>>] = "raised" /\ c \in FailFast
     THEN /\ task' = [t \in Tasks |-> IF t \in Batch(c) /\ task[t] = "queued"
                                     THEN "cancelled" ELSE task[t]]
          /\ Return(c, items[c] \cup {k})
     ELSE /\ items' = [items EXCEPT ![c] = @ \cup {k}]
          /\ UNCHANGED <<task, pc, counts>>
  /\ UNCHANGED <<pool, on, next, hand, closing, shutdowns>>

CollectedAll(c) ==
  /\ At(c, "collect") /\ items[c] \cup InState(c, {"unknown"}) = Indices
  /\ Return(c, items[c])
  /\ UNCHANGED <<pool, task, on, next, hand, closing, shutdowns>>

-----------------------------------------------------------------------------
(* shutdown(wait=True): what is queued still runs, then the attribute goes. *)
Shutdown ==
  /\ exec # 0 /\ closing = 0 /\ shutdowns < MaxShutdowns
  /\ closed' = closed \cup {exec} /\ closing' = exec /\ shutdowns' = shutdowns + 1
  /\ UNCHANGED <<exec, created, queue, task, on, pc, call>>

ShutdownReturns ==
  /\ closing # 0
  /\ queue[closing] = <<>> /\ {t \in Running : on[t] = closing} = {}
  /\ exec' = 0 /\ closing' = 0
  /\ UNCHANGED <<created, closed, queue, task, on, pc, call, shutdowns>>

Advance(c) ==
  \/ Resolve(c) \/ Look(c) \/ Create(c) \/ Take(c) \/ Submit(c) \/ CollectedAll(c)
  \/ \E k \in Indices : Collect(c, k)

Next ==
  \/ \E c \in Callers : Advance(c)
  \/ \E p \in Pools : StartTask(p)
  \/ \E t \in Tasks, outcome \in Over : FinishTask(t, outcome)
  \/ Shutdown \/ ShutdownReturns

Spec == Init /\ [][Next]_vars

(* Threads go on, and a run of a share ends (ChunkedTransfer: Terminates). *)
FairSpec ==
  /\ Spec
  /\ \A c \in Callers : WF_vars(Advance(c))
  /\ \A p \in Pools : WF_vars(StartTask(p))
  /\ \A t \in Tasks : WF_vars(\E outcome \in Over : FinishTask(t, outcome))
  /\ WF_vars(ShutdownReturns)

-----------------------------------------------------------------------------
(* "the batch result reports each share's status": what has an item is       *)
(* counted once, as succeeded or as failed, and goes on having that outcome.  *)
(* A share without an item there is only with fail_fast, and only after       *)
(* another share of the batch raised; one with an unknown adapter has its     *)
(* item even then.                                                            *)
EveryShareIsReported ==
  \A c \in Callers : At(c, "returned") =>
    /\ counts[c].succeeded + counts[c].failed = Cardinality(items[c])
    /\ counts[c].failed = Cardinality(items[c] \cap InState(c, {"errors", "raised", "unknown"}))
    /\ InState(c, {"unknown"}) \subseteq items[c]
    /\ items[c] # Indices => c \in FailFast /\ items[c] \cap InState(c, {"raised"}) # {}

(* Once run_batch has returned, no share of its batch starts any more.      *)
NothingStartsAfterReturn ==
  [][\A t \in Tasks : task[t] = "queued" /\ task'[t] = "running" => pc[t[1]] # "returned"]_vars

(* A call of run_batch that has submitted its shares comes to an end,        *)
(* whatever these do and although the executor is shut down meanwhile.       *)
(* (Before that, it may raise: Submit, Take.)                                 *)
BatchReturns == \A c \in Callers : At(c, "collect") ~> At(c, "returned")
=============================================================================
