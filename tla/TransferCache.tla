---------------------------- MODULE TransferCache ----------------------------
(***************************************************************************)
(* TransferCache (cdeh/core/cache.py): an LRU map with a time to live,     *)
(* used by threads that read the clock before they wait for its lock.      *)
(***************************************************************************)
EXTENDS Integers, FiniteSets

CONSTANTS
  Threads,
  Keys,       \* <<adapter, path>> pairs
  Values,
  Nothing,    \* None
  MaxItems,   \* max_items (256 by default)
  Ttl,        \* ttl_seconds (300 by default)
  MaxTime     \* bound on the clock

ASSUME CacheAssumption ==
  /\ Nothing \notin Values /\ MaxItems \in Nat \ {0} /\ Ttl \in Nat /\ MaxTime \in Nat

VARIABLES
  entry,      \* time stamp and bytes of the keys of the OrderedDict
  order,      \* its order: <<k, j>> when k stands before j
  now,        \* the clock
  call,       \* the call each thread is in
  at,         \* the time its call read from the clock
  reply,      \* what its last call returned
  usedAfter   \* history: <<k, j>> when j was used after the last use of k

vars == <<entry, order, now, call, at, reply, usedAfter>>

Idle == [op |-> "none"]
Calls == {Idle} \cup [op : {"get"}, key : Keys] \cup [op : {"put"}, key : Keys, value : Values]

IsStrictOrder(before, keys) ==
  /\ before \subseteq keys \X keys
  /\ \A k, j \in keys : k # j => (<<k, j>> \in before <=> <<j, k>> \notin before)
  /\ \A k \in keys : <<k, k>> \notin before
  /\ \A i, j, k \in keys : <<i, j>> \in before /\ <<j, k>> \in before => <<i, k>> \in before

TypeOK ==
  /\ DOMAIN entry \subseteq Keys /\ IsFiniteSet(DOMAIN entry)
  /\ Cardinality(DOMAIN entry) <= MaxItems
  /\ entry \in [DOMAIN entry -> [at : 0 .. MaxTime, value : Values]]
  /\ IsStrictOrder(order, DOMAIN entry)
  /\ now \in 0 .. MaxTime /\ call \in [Threads -> Calls] /\ at \in [Threads -> 0 .. MaxTime]
  /\ reply \in [Threads -> Values \cup {Nothing}] /\ usedAfter \subseteq Keys \X Keys

Init ==
  /\ entry = [k \in {} |-> Nothing] /\ order = {} /\ now = 0
  /\ call = [t \in Threads |-> Idle] /\ at = [t \in Threads |-> 0]
  /\ reply = [t \in Threads |-> Nothing] /\ usedAfter = {}

-----------------------------------------------------------------------------
(* The head of get and put: time.time(), then the wait for the lock. *)
Call(t, request) ==
  /\ call[t] = Idle
  /\ call' = [call EXCEPT ![t] = request] /\ at' = [at EXCEPT ![t] = now]
  /\ UNCHANGED <<entry, order, now, reply, usedAfter>>

CallGet(t, k) == Call(t, [op |-> "get", key |-> k])
CallPut(t, k, v) == Call(t, [op |-> "put", key |-> k, value |-> v])

Return(t, value) ==
  /\ call' = [call EXCEPT ![t] = Idle] /\ at' = [at EXCEPT ![t] = 0]
  /\ reply' = [reply EXCEPT ![t] = value]
  /\ UNCHANGED now

Without(keys) ==
  LET left == DOMAIN entry \ keys IN
  /\ entry' = [k \in left |-> entry[k]]
  /\ order' = order \cap (left \X left)

(* A use that does not move the key (a defect for LeastRecentlyUsedGoes). *)
MoveToEnd_OnlyNew(k) ==
  IF k \in DOMAIN entry THEN order ELSE order \cup ((DOMAIN entry \ {k}) \X {k})

(* move_to_end: k stands before no key, and every other key before k. *)
MoveToEnd(k) == {p \in order : p[1] # k} \cup ((DOMAIN entry \ {k}) \X {k})

Use(k) == usedAfter' = {p \in usedAfter : p[1] # k} \cup ((Keys \ {k}) \X {k})

Get(t) ==
  /\ call[t].op = "get"
  /\ LET k == call[t].key IN
       \/ /\ k \notin DOMAIN entry
          /\ Return(t, Nothing) /\ UNCHANGED <<entry, order, usedAfter>>
       \/ /\ k \in DOMAIN entry /\ at[t] - entry[k].at > Ttl
          /\ Without({k})
          /\ Return(t, Nothing) /\ UNCHANGED usedAfter
       \/ /\ k \in DOMAIN entry /\ at[t] - entry[k].at <= Ttl
          /\ order' = MoveToEnd(k) /\ UNCHANGED entry
          /\ Return(t, entry[k].value) /\ Use(k)

(* A cache without its bound (a defect for TypeOK). *)
Kept_All(keys, before) == keys

(* What popitem(last=False) leaves: while there are too many, the first key goes. *)
Kept(keys, before) ==
  IF Cardinality(keys) > MaxItems
    THEN {k \in keys : \E j \in keys : <<j, k>> \in before}
    ELSE keys

(* A put that keeps what is there already (a defect for ImplementsLossyMap). *)
Put_KeepsOld(t) ==
  /\ call[t].op = "put"
  /\ LET k == call[t].key
         kept == Kept(DOMAIN entry \cup {k}, MoveToEnd(k)) IN
       /\ entry' = [j \in kept |-> IF j \in DOMAIN entry THEN entry[j]
                                  ELSE [at |-> at[t], value |-> call[t].value]]
       /\ order' = MoveToEnd(k) \cap (kept \X kept)
       /\ Return(t, Nothing) /\ Use(k)

Put(t) ==
  /\ call[t].op = "put"
  /\ LET k == call[t].key
         kept == Kept(DOMAIN entry \cup {k}, MoveToEnd(k)) IN
       /\ entry' = [j \in kept |-> IF j = k THEN [at |-> at[t], value |-> call[t].value]
                                  ELSE entry[j]]
       /\ order' = MoveToEnd(k) \cap (kept \X kept)
       /\ Return(t, Nothing) /\ Use(k)

(* One key, the keys of one adapter, those of one path, or all of them. *)
Invalidate(keys) ==
  /\ Without(keys)
  /\ UNCHANGED <<now, call, at, reply, usedAfter>>

Tick ==
  /\ now < MaxTime /\ now' = now + 1
  /\ UNCHANGED <<entry, order, call, at, reply, usedAfter>>

Selections ==
  {{k} : k \in Keys} \cup {{k \in Keys : k[1] = a} : a \in {k[1] : k \in Keys}}
  \cup {{k \in Keys : k[2] = p} : p \in {k[2] : k \in Keys}} \cup {Keys}

Next ==
  \/ \E t \in Threads :
       \/ Get(t) \/ Put(t)
       \/ \E k \in Keys : CallGet(t, k) \/ \E v \in Values : CallPut(t, k, v)
  \/ \E keys \in Selections : Invalidate(keys)
  \/ Tick

Spec == Init /\ [][Next]_vars

-----------------------------------------------------------------------------
(* The entry that a put pushes out is the least recently used one: every     *)
(* entry that stays was used after it, by a put or by a hit.                 *)
LeastRecentlyUsedGoes ==
  [][\A t \in Threads : call[t].op = "put" /\ call'[t] = Idle =>
       \A k \in DOMAIN entry \ DOMAIN entry', j \in DOMAIN entry' : <<k, j>> \in usedAfter']_vars

(* The cache is a map that forgets: a hit returns what was last put for the  *)
(* key, even when threads put and get it in any order.                       *)
Map == INSTANCE LossyMap WITH
         map <- [k \in Keys |-> IF k \in DOMAIN entry THEN entry[k].value ELSE Nothing]
ImplementsLossyMap == Map!Spec
=============================================================================
