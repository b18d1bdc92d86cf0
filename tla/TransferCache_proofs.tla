------------------------ MODULE TransferCache_proofs ------------------------
(***************************************************************************)
(* The transfer cache for every number of threads, keys and items: the      *)
(* bound holds, the least recently used entry is the one that goes, and the *)
(* cache implements a map that forgets.                                     *)
(***************************************************************************)
EXTENDS TransferCache, FiniteSetTheorems, TLAPS

(* The order of the OrderedDict is the order of the last uses. *)
CacheInv == TypeOK /\ order \subseteq usedAfter

LEMMA RestrictedOrder ==
  ASSUME NEW before, NEW keys, NEW left, IsStrictOrder(before, keys), left \subseteq keys
  PROVE  IsStrictOrder(before \cap (left \X left), left)
  BY DEF IsStrictOrder

LEMMA MovedOrder ==
  ASSUME IsStrictOrder(order, DOMAIN entry), NEW k
  PROVE  IsStrictOrder(MoveToEnd(k), DOMAIN entry \cup {k})
  BY DEF IsStrictOrder, MoveToEnd

LEMMA CallTypes ==
  ASSUME TypeOK, NEW t \in Threads
  PROVE  /\ call[t] \in Calls
         /\ call[t].op = "get" => call[t].key \in Keys
         /\ call[t].op = "put" => call[t].key \in Keys /\ call[t].value \in Values
  BY DEF TypeOK, Calls, Idle

(* A finite set in a strict order has a first member.  Otherwise the numbers *)
(* of members before each one are at least 1 and less than the size of the   *)
(* set, so two members have the same number before them; but the ones before *)
(* the earlier of the two are before the later one, and so is that one.      *)
LEMMA FirstExists ==
  ASSUME NEW before, NEW keys, IsStrictOrder(before, keys),
         IsFiniteSet(keys), keys # {}
  PROVE  \E k \in keys : \A j \in keys : <<j, k>> \notin before
<1> DEFINE Below(k) == {j \in keys : <<j, k>> \in before}
           n == Cardinality(keys)
           rank == [k \in keys |-> Cardinality(Below(k))]
<1>1. SUFFICES ASSUME \A k \in keys : Below(k) # {} PROVE FALSE
  OBVIOUS
<1>2. n \in Nat /\ n > 0
  BY FS_CardinalityType, FS_EmptySet
<1>3. ASSUME NEW k \in keys
      PROVE  IsFiniteSet(Below(k)) /\ Cardinality(Below(k)) \in 1 .. n - 1
  <2>1. Below(k) \in SUBSET keys /\ k \notin Below(k) /\ Below(k) # {}
    BY <1>1 DEF IsStrictOrder
  <2>2. /\ IsFiniteSet(Below(k)) /\ Cardinality(Below(k)) <= n
        /\ Cardinality(Below(k)) # n
    BY <2>1, FS_Subset
  <2>3. Cardinality(Below(k)) \in Nat /\ Cardinality(Below(k)) # 0
    BY <2>1, <2>2, FS_CardinalityType, FS_EmptySet
  <2> QED BY <1>2, <2>2, <2>3
<1>4. rank \in [keys -> 1 .. n - 1]
  BY <1>3
<1>5. IsFiniteSet(1 .. n - 1) /\ Cardinality(1 .. n - 1) < n
  <2>1. n - 1 \in Int
    BY <1>2
  <2>2. /\ IsFiniteSet(1 .. n - 1)
        /\ Cardinality(1 .. n - 1) = IF 1 > n - 1 THEN 0 ELSE n - 1 - 1 + 1
    BY <2>1, FS_Interval
  <2> QED BY <1>2, <2>2
<1>6. PICK k \in keys, j \in keys : k # j /\ rank[k] = rank[j]
  <2> HIDE DEF rank, n
  <2>1. IsFiniteSet(1 .. n - 1) /\ Cardinality(1 .. n - 1) < Cardinality(keys)
    BY <1>5 DEF n
  <2> QED BY <1>4, <2>1, FS_PigeonHole
<1>7. ASSUME NEW x \in keys, NEW y \in keys, <<x, y>> \in before, rank[x] = rank[y]
      PROVE  FALSE
  <2>1. Below(x) \in SUBSET Below(y) /\ x \in Below(y) /\ x \notin Below(x)
    BY <1>7 DEF IsStrictOrder
  <2>2. IsFiniteSet(Below(y)) /\ Cardinality(Below(x)) = Cardinality(Below(y))
    BY <1>3, <1>7
  <2>3. Below(x) = Below(y)
    BY <2>1, <2>2, FS_Subset
  <2> QED BY <2>1, <2>3
<1> QED BY <1>6, <1>7 DEF IsStrictOrder

(* What popitem takes is the first key, and only that one: what stays has    *)
(* room, and stood behind everything that went.                              *)
LEMMA KeptProperties ==
  ASSUME NEW before, NEW keys, IsStrictOrder(before, keys), IsFiniteSet(keys),
         Cardinality(keys) <= MaxItems + 1
  PROVE  /\ Kept(keys, before) \subseteq keys /\ IsFiniteSet(Kept(keys, before))
         /\ Cardinality(Kept(keys, before)) <= MaxItems
         /\ \A k \in keys \ Kept(keys, before), j \in Kept(keys, before) : <<k, j>> \in before
<1> DEFINE kept == Kept(keys, before)
<1>1. kept \in SUBSET keys
  BY DEF Kept
<1>2. IsFiniteSet(kept) /\ Cardinality(kept) \in Nat /\ Cardinality(keys) \in Nat
  BY <1>1, FS_Subset, FS_CardinalityType
<1>3. Cardinality(kept) <= MaxItems
  <2>1. CASE Cardinality(keys) > MaxItems
    <3>1. keys # {}
      BY <2>1, CacheAssumption, FS_EmptySet
    <3>2. PICK k \in keys : \A j \in keys : <<j, k>> \notin before
      BY <3>1, FirstExists
    <3>3. kept \in SUBSET (keys \ {k})
      BY <2>1, <3>2 DEF Kept
    <3>4. IsFiniteSet(keys \ {k}) /\ Cardinality(keys \ {k}) = Cardinality(keys) - 1
      BY FS_RemoveElement
    <3>5. Cardinality(kept) <= Cardinality(keys \ {k})
      BY <3>3, <3>4, FS_Subset
    <3> QED BY <1>2, <3>4, <3>5, CacheAssumption
  <2>2. CASE ~(Cardinality(keys) > MaxItems)
    BY <1>2, <2>2, CacheAssumption DEF Kept
  <2> QED BY <2>1, <2>2
<1>4. ASSUME NEW k \in keys \ kept, NEW j \in kept
      PROVE  <<k, j>> \in before
  BY <1>1, <1>4 DEF Kept, IsStrictOrder
<1> QED BY <1>1, <1>2, <1>3, <1>4

(* The key that is put stays: the bound leaves room for one. *)
LEMMA PutStays ==
  ASSUME TypeOK, NEW k \in Keys
  PROVE  /\ k \in Kept(DOMAIN entry \cup {k}, MoveToEnd(k))
         /\ IsStrictOrder(MoveToEnd(k), DOMAIN entry \cup {k})
         /\ IsFiniteSet(DOMAIN entry \cup {k})
         /\ Cardinality(DOMAIN entry \cup {k}) <= MaxItems + 1
<1> DEFINE keys == DOMAIN entry \cup {k}
<1>1. IsStrictOrder(MoveToEnd(k), keys)
  BY MovedOrder DEF TypeOK
<1>2. /\ IsFiniteSet(DOMAIN entry) /\ Cardinality(DOMAIN entry) \in Nat
      /\ Cardinality(DOMAIN entry) <= MaxItems
  BY FS_CardinalityType DEF TypeOK
<1>3. /\ IsFiniteSet(keys)
      /\ Cardinality(keys) = IF k \in DOMAIN entry THEN Cardinality(DOMAIN entry)
                             ELSE Cardinality(DOMAIN entry) + 1
  BY <1>2, FS_AddElement
<1>4. IsFiniteSet(keys) /\ Cardinality(keys) <= MaxItems + 1
  BY <1>2, <1>3, CacheAssumption
<1>5. k \in Kept(keys, MoveToEnd(k))
  <2>1. CASE Cardinality(keys) > MaxItems
    <3>1. DOMAIN entry \ {k} # {}
      <4>1. SUFFICES ASSUME DOMAIN entry \ {k} = {} PROVE FALSE
        OBVIOUS
      <4>2. keys = {k}
        BY <4>1
      <4>3. Cardinality({k}) = 1
        BY FS_Singleton
      <4> QED BY <2>1, <4>2, <4>3, CacheAssumption
    <3>2. PICK j \in DOMAIN entry : j # k
      BY <3>1
    <3> QED BY <2>1, <3>2 DEF Kept, MoveToEnd
  <2>2. CASE ~(Cardinality(keys) > MaxItems)
    BY <2>2 DEF Kept
  <2> QED BY <2>1, <2>2
<1> QED BY <1>1, <1>4, <1>5
-----------------------------------------------------------------------------
LEMMA InitCache == Init => CacheInv
  BY CacheAssumption, FS_EmptySet DEF Init, CacheInv, TypeOK, IsStrictOrder, Calls

(* Entries may go at any time, the others keep their order. *)
LEMMA WithoutOK ==
  ASSUME CacheInv, NEW keys, Without(keys)
  PROVE  /\ DOMAIN entry' \subseteq DOMAIN entry /\ IsFiniteSet(DOMAIN entry')
         /\ \A k \in DOMAIN entry' : entry'[k] = entry[k]
         /\ Cardinality(DOMAIN entry') <= MaxItems
         /\ entry' \in [DOMAIN entry' -> [at : 0 .. MaxTime, value : Values]]
         /\ IsStrictOrder(order', DOMAIN entry') /\ order' \subseteq order
<1> DEFINE left == DOMAIN entry \ keys
<1>1. /\ entry' = [k \in left |-> entry[k]] /\ order' = order \cap (left \X left)
      /\ left \in SUBSET DOMAIN entry
  BY DEF Without
<1>2. IsFiniteSet(left) /\ Cardinality(left) <= Cardinality(DOMAIN entry)
  BY <1>1, FS_Subset DEF CacheInv, TypeOK
<1>3. Cardinality(left) \in Nat /\ Cardinality(DOMAIN entry) \in Nat
  BY <1>2, FS_CardinalityType DEF CacheInv, TypeOK
<1>4. Cardinality(left) <= MaxItems
  BY <1>2, <1>3, CacheAssumption DEF CacheInv, TypeOK
<1>5. IsStrictOrder(order', left)
  BY <1>1, RestrictedOrder DEF CacheInv, TypeOK
<1>6. DOMAIN entry' = left
  BY <1>1
<1>7. entry' \in [left -> [at : 0 .. MaxTime, value : Values]]
  BY <1>1 DEF CacheInv, TypeOK
<1> QED BY <1>1, <1>2, <1>4, <1>5, <1>6, <1>7

(* A use puts the key last in both orders. *)
LEMMA MovedIsUsed ==
  ASSUME CacheInv, NEW k \in Keys, Use(k)
  PROVE  /\ MoveToEnd(k) \subseteq usedAfter' /\ usedAfter' \subseteq Keys \X Keys
         /\ k \in DOMAIN entry => IsStrictOrder(MoveToEnd(k), DOMAIN entry)
<1>1. MoveToEnd(k) \subseteq usedAfter' /\ usedAfter' \subseteq Keys \X Keys
  BY DEF CacheInv, TypeOK, MoveToEnd, Use
<1>2. ASSUME k \in DOMAIN entry PROVE IsStrictOrder(MoveToEnd(k), DOMAIN entry)
  <2>1. DOMAIN entry \cup {k} = DOMAIN entry
    BY <1>2
  <2> QED BY <2>1, MovedOrder DEF CacheInv, TypeOK
<1> QED BY <1>1, <1>2

LEMMA ReturnOK ==
  ASSUME TypeOK, NEW t \in Threads, NEW value \in Values \cup {Nothing}, Return(t, value)
  PROVE  /\ now' \in 0 .. MaxTime /\ call' \in [Threads -> Calls]
         /\ at' \in [Threads -> 0 .. MaxTime]
         /\ reply' \in [Threads -> Values \cup {Nothing}]
  BY CacheAssumption DEF TypeOK, Return, Calls

LEMMA GetOK ==
  ASSUME CacheInv, NEW t \in Threads, Get(t)
  PROVE  CacheInv'
<1> DEFINE k == call[t].key
<1>1. k \in Keys
  BY CallTypes DEF CacheInv, Get
<1>2. CASE /\ k \notin DOMAIN entry
           /\ Return(t, Nothing) /\ UNCHANGED <<entry, order, usedAfter>>
  BY <1>2, ReturnOK DEF CacheInv, TypeOK
<1>3. CASE /\ Without({k})
           /\ Return(t, Nothing) /\ UNCHANGED usedAfter
  <2>1. DOMAIN entry' \subseteq Keys /\ order' \subseteq usedAfter'
    BY <1>3, WithoutOK DEF CacheInv, TypeOK
  <2>2. usedAfter' \subseteq Keys \X Keys
    BY <1>3 DEF CacheInv, TypeOK
  <2> QED BY <1>3, <2>1, <2>2, WithoutOK, ReturnOK DEF CacheInv, TypeOK
<1>4. CASE /\ k \in DOMAIN entry
           /\ order' = MoveToEnd(k) /\ UNCHANGED entry
           /\ Return(t, entry[k].value) /\ Use(k)
  <2>1. entry[k].value \in Values
    BY <1>4 DEF CacheInv, TypeOK
  <2>2. IsStrictOrder(order', DOMAIN entry) /\ order' \subseteq usedAfter'
    BY <1>1, <1>4, MovedIsUsed
  <2> QED BY <1>1, <1>4, <2>1, <2>2, MovedIsUsed, ReturnOK DEF CacheInv, TypeOK
<1> QED BY <1>2, <1>3, <1>4 DEF Get

(* What a put leaves in the cache. *)
LEMMA PutEffect ==
  ASSUME CacheInv, NEW t \in Threads, Put(t)
  PROVE  /\ call[t].key \in DOMAIN entry'
         /\ DOMAIN entry' \subseteq DOMAIN entry \cup {call[t].key}
         /\ IsFiniteSet(DOMAIN entry') /\ Cardinality(DOMAIN entry') <= MaxItems
         /\ \A j \in DOMAIN entry' :
              entry'[j] = IF j = call[t].key THEN [at |-> at[t], value |-> call[t].value]
                          ELSE entry[j]
         /\ entry' \in [DOMAIN entry' -> [at : 0 .. MaxTime, value : Values]]
         /\ IsStrictOrder(order', DOMAIN entry') /\ order' \subseteq MoveToEnd(call[t].key)
         /\ \A i \in DOMAIN entry \ DOMAIN entry', j \in DOMAIN entry' :
              <<i, j>> \in MoveToEnd(call[t].key)
<1> DEFINE k == call[t].key
           keys == DOMAIN entry \cup {k}
           kept == Kept(keys, MoveToEnd(k))
<1>1. k \in Keys /\ call[t].value \in Values /\ at[t] \in 0 .. MaxTime
  BY CallTypes DEF CacheInv, TypeOK, Put
<1>2. /\ entry' = [j \in kept |-> IF j = k THEN [at |-> at[t], value |-> call[t].value]
                                  ELSE entry[j]]
      /\ order' = MoveToEnd(k) \cap (kept \X kept)
  BY DEF Put
<1>3. /\ k \in kept /\ IsStrictOrder(MoveToEnd(k), keys) /\ IsFiniteSet(keys)
      /\ Cardinality(keys) <= MaxItems + 1
  BY <1>1, PutStays DEF CacheInv
<1>4. /\ kept \subseteq keys /\ IsFiniteSet(kept) /\ Cardinality(kept) <= MaxItems
      /\ \A i \in keys \ kept, j \in kept : <<i, j>> \in MoveToEnd(k)
  <2> HIDE DEF keys
  <2> QED BY <1>3, KeptProperties
<1> HIDE DEF k, kept
<1>5. DOMAIN entry' = kept
  BY <1>2
<1>6. IsStrictOrder(order', kept)
  BY <1>2, <1>3, <1>4, RestrictedOrder
<1>7. entry' \in [kept -> [at : 0 .. MaxTime, value : Values]]
  BY <1>1, <1>2, <1>4 DEF CacheInv, TypeOK
<1>8. \A j \in kept : entry'[j] = IF j = k THEN [at |-> at[t], value |-> call[t].value]
                                  ELSE entry[j]
  BY <1>2
<1> QED BY <1>2, <1>3, <1>4, <1>5, <1>6, <1>7, <1>8 DEF k

LEMMA PutOK ==
  ASSUME CacheInv, NEW t \in Threads, Put(t)
  PROVE  CacheInv'
<1> DEFINE k == call[t].key
<1>1. k \in Keys /\ Return(t, Nothing) /\ Use(k)
  BY CallTypes DEF CacheInv, Put
<1>2. order' \subseteq usedAfter' /\ usedAfter' \subseteq Keys \X Keys
  BY <1>1, PutEffect, MovedIsUsed
<1>3. DOMAIN entry' \subseteq Keys
  BY <1>1, PutEffect DEF CacheInv, TypeOK
<1> QED BY <1>1, <1>2, <1>3, PutEffect, ReturnOK DEF CacheInv, TypeOK

LEMMA CallOK ==
  ASSUME CacheInv, NEW t \in Threads, NEW request \in Calls, Call(t, request)
  PROVE  CacheInv'
  BY DEF CacheInv, TypeOK, Call

LEMMA NextCache == CacheInv /\ [Next]_vars => CacheInv'
<1> SUFFICES ASSUME CacheInv, [Next]_vars PROVE CacheInv'
  OBVIOUS
<1>1. ASSUME NEW t \in Threads, Get(t) PROVE CacheInv'
  BY <1>1, GetOK
<1>2. ASSUME NEW t \in Threads, Put(t) PROVE CacheInv'
  BY <1>2, PutOK
<1>3. ASSUME NEW t \in Threads, NEW k \in Keys, CallGet(t, k) PROVE CacheInv'
  <2>1. [op |-> "get", key |-> k] \in Calls
    BY DEF Calls
  <2> QED BY <1>3, <2>1, CallOK DEF CallGet
<1>4. ASSUME NEW t \in Threads, NEW k \in Keys, NEW v \in Values, CallPut(t, k, v) PROVE CacheInv'
  <2>1. [op |-> "put", key |-> k, value |-> v] \in Calls
    BY DEF Calls
  <2> QED BY <1>4, <2>1, CallOK DEF CallPut
<1>5. ASSUME NEW keys, Invalidate(keys) PROVE CacheInv'
  <2>1. Without(keys) /\ UNCHANGED <<now, call, at, reply, usedAfter>>
    BY <1>5 DEF Invalidate
  <2>2. DOMAIN entry' \subseteq Keys /\ order' \subseteq usedAfter'
    BY <2>1, WithoutOK DEF CacheInv, TypeOK
  <2> QED BY <2>1, <2>2, WithoutOK DEF CacheInv, TypeOK
<1>6. CASE Tick
  BY <1>6, CacheAssumption DEF CacheInv, TypeOK, Tick
<1>7. CASE UNCHANGED vars
  BY <1>7 DEF CacheInv, TypeOK, vars
<1> QED BY <1>1, <1>2, <1>3, <1>4, <1>5, <1>6, <1>7 DEF Next

(* The bound, the order and the types hold (get, put and invalidate). *)
THEOREM CacheSafety == Spec => []CacheInv
  BY InitCache, NextCache, PTL DEF Spec

(* The cache never holds more entries than max_items, and the order of the   *)
(* OrderedDict stays a strict order of its keys (put, get, invalidate).      *)
THEOREM CacheTypes == Spec => []TypeOK
  BY CacheSafety, PTL DEF CacheInv

-----------------------------------------------------------------------------
(* A put of thread t is the only step that ends a put of t. *)
LEMMA PutEndsCall ==
  ASSUME CacheInv, Next, NEW t \in Threads, call[t].op = "put", call'[t] = Idle
  PROVE  Put(t)
<1>1. call[t] # Idle /\ call \in [Threads -> Calls]
  BY DEF Idle, CacheInv, TypeOK
<1>2. ASSUME NEW u \in Threads, Get(u) PROVE FALSE
  <2>1. u # t /\ call' = [call EXCEPT ![u] = Idle]
    BY <1>2 DEF Get, Return
  <2> QED BY <1>1, <2>1
<1>3. ASSUME NEW u \in Threads, Put(u) PROVE Put(t)
  <2>1. call' = [call EXCEPT ![u] = Idle]
    BY <1>3 DEF Put, Return
  <2> QED BY <1>1, <1>3, <2>1
<1>4. ASSUME NEW u \in Threads, NEW request, Call(u, request) PROVE FALSE
  BY <1>1, <1>4 DEF Call
<1>5. CASE UNCHANGED call
  BY <1>1, <1>5
<1> QED BY <1>2, <1>3, <1>4, <1>5 DEF Next, CallGet, CallPut, Invalidate, Tick

(* popitem(last=False) takes the least recently used entry, whatever threads *)
(* read the clock, hit, miss and invalidate before.                          *)
THEOREM LeastRecentlyUsedIsEvicted == Spec => LeastRecentlyUsedGoes
<1>1. CacheInv /\ [Next]_vars =>
        [\A t \in Threads : call[t].op = "put" /\ call'[t] = Idle =>
           \A k \in DOMAIN entry \ DOMAIN entry', j \in DOMAIN entry' :
             <<k, j>> \in usedAfter']_vars
  <2> SUFFICES ASSUME CacheInv, Next, NEW t \in Threads, call[t].op = "put", call'[t] = Idle,
                      NEW i \in DOMAIN entry \ DOMAIN entry', NEW j \in DOMAIN entry'
               PROVE  <<i, j>> \in usedAfter'
    OBVIOUS
  <2>1. Put(t)
    BY PutEndsCall
  <2>2. call[t].key \in Keys /\ Use(call[t].key)
    BY <2>1, CallTypes DEF CacheInv, Put
  <2> QED BY <2>1, <2>2, PutEffect, MovedIsUsed
<1> QED BY <1>1, CacheSafety, PTL DEF Spec, LeastRecentlyUsedGoes

-----------------------------------------------------------------------------
Contents == [k \in Keys |-> IF k \in DOMAIN entry THEN entry[k].value ELSE Nothing]

LEMMA ContentsType == CacheInv => Contents \in [Keys -> Values \cup {Nothing}]
  BY DEF CacheInv, TypeOK, Contents

LEMMA GetReads ==
  ASSUME CacheInv, NEW t \in Threads, Get(t)
  PROVE  Map!Read(t)
<1> DEFINE k == call[t].key
<1>1. k \in Keys /\ call[t].op = "get"
  BY CallTypes DEF CacheInv, Get
<1>2. CASE /\ k \notin DOMAIN entry
           /\ Return(t, Nothing) /\ UNCHANGED <<entry, order, usedAfter>>
  <2>1. Map!Forgets(Contents, Contents') /\ Contents'[k] = Nothing
    BY <1>1, <1>2 DEF Map!Forgets, Contents
  <2> QED BY <1>1, <1>2, <2>1 DEF Map!Read, Map!Reply, Map!Idle, Idle, Return, Contents
<1>3. CASE /\ Without({k})
           /\ Return(t, Nothing) /\ UNCHANGED usedAfter
  <2>1. k \notin DOMAIN entry' /\ DOMAIN entry' \subseteq DOMAIN entry
        /\ \A j \in DOMAIN entry' : entry'[j] = entry[j]
    BY <1>3 DEF Without
  <2>2. Map!Forgets(Contents, Contents') /\ Contents'[k] = Nothing
    BY <1>1, <2>1 DEF Map!Forgets, Contents
  <2> QED BY <1>1, <1>3, <2>2 DEF Map!Read, Map!Reply, Map!Idle, Idle, Return, Contents
<1>4. CASE /\ k \in DOMAIN entry
           /\ order' = MoveToEnd(k) /\ UNCHANGED entry
           /\ Return(t, entry[k].value) /\ Use(k)
  <2>1. Map!Forgets(Contents, Contents') /\ Contents'[k] = entry[k].value
    BY <1>1, <1>4 DEF Map!Forgets, Contents
  <2> QED BY <1>1, <1>4, <2>1 DEF Map!Read, Map!Reply, Map!Idle, Idle, Return, Contents
<1> QED BY <1>2, <1>3, <1>4 DEF Get

LEMMA PutWrites ==
  ASSUME CacheInv, NEW t \in Threads, Put(t)
  PROVE  Map!Write(t)
<1> DEFINE k == call[t].key
           v == call[t].value
<1>1. k \in Keys /\ call[t].op = "put" /\ Return(t, Nothing)
  BY CallTypes DEF CacheInv, Put
<1>2. Contents'[k] = v
  BY <1>1, PutEffect DEF Contents
<1>3. ASSUME NEW j \in Keys, j # k
      PROVE  Contents'[j] \in {Contents[j], Nothing}
  BY <1>3, PutEffect DEF Contents
<1>4. Contents \in [Keys -> Values \cup {Nothing}]
  BY ContentsType
<1>5. Map!Forgets([Contents EXCEPT ![k] = v], Contents')
  BY <1>1, <1>2, <1>3, <1>4 DEF Map!Forgets
<1> QED BY <1>1, <1>2, <1>5 DEF Map!Write, Map!Reply, Map!Idle, Idle, Return, Contents

LEMMA CallInvokes ==
  ASSUME NEW t \in Threads, NEW request \in Map!Requests, Call(t, request)
  PROVE  Map!Invoke(t, request)
  BY DEF Call, Map!Invoke, Map!Idle, Idle

LEMMA NextMaps == CacheInv /\ CacheInv' /\ [Next]_vars =>
    [Contents' \in [Keys -> Values \cup {Nothing}] /\ Map!Next]_<<Contents, call, reply>>
<1> SUFFICES ASSUME CacheInv, CacheInv', Next
             PROVE  Map!Next
  BY DEF vars, Contents, CacheInv, TypeOK
<1>1. ASSUME NEW t \in Threads, Get(t) PROVE Map!Next
  BY <1>1, GetReads DEF Map!Next
<1>2. ASSUME NEW t \in Threads, Put(t) PROVE Map!Next
  BY <1>2, PutWrites DEF Map!Next
<1>3. ASSUME NEW t \in Threads, NEW k \in Keys, CallGet(t, k) PROVE Map!Next
  <2>1. [op |-> "get", key |-> k] \in Map!Requests
    BY DEF Map!Requests
  <2> QED BY <1>3, <2>1, CallInvokes DEF CallGet, Map!Next
<1>4. ASSUME NEW t \in Threads, NEW k \in Keys, NEW v \in Values, CallPut(t, k, v) PROVE Map!Next
  <2>1. [op |-> "put", key |-> k, value |-> v] \in Map!Requests
    BY DEF Map!Requests
  <2> QED BY <1>4, <2>1, CallInvokes DEF CallPut, Map!Next
<1>5. ASSUME NEW keys, Invalidate(keys) PROVE Map!Next
  <2>1. Map!Forgets(Contents, Contents')
    BY <1>5 DEF Map!Forgets, Contents, Invalidate, Without
  <2> QED BY <1>5, <2>1 DEF Map!Next, Map!Forget, Invalidate, Contents
<1>6. CASE Tick
  BY <1>6 DEF Tick, Contents, Map!Next, Map!Forget, Map!Forgets
<1> QED BY <1>1, <1>2, <1>3, <1>4, <1>5, <1>6 DEF Next

(* The cache is a map that forgets: a hit returns what was last put for the  *)
(* key (get, put, mark_present and invalidate).                              *)
THEOREM CacheImplementsMap == Spec => ImplementsLossyMap
<1>1. Init => Map!Init
  BY DEF Init, Map!Init, Map!Idle, Idle
<1>2. CacheInv /\ CacheInv' /\ [Next]_vars =>
        [Contents' \in [Keys -> Values \cup {Nothing}] /\ Map!Next]_<<Contents, call, reply>>
  BY NextMaps
<1>3. Map!Init /\ [][Contents' \in [Keys -> Values \cup {Nothing}] /\ Map!Next]_<<Contents, call, reply>>
        => Map!Spec
  BY PTL DEF Map!Spec, Map!vars, Contents
<1> QED BY <1>1, <1>2, <1>3, CacheSafety, PTL DEF Spec, ImplementsLossyMap
=============================================================================
