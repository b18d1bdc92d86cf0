------------------------- MODULE PolicyEngine_proofs -------------------------
(***************************************************************************)
(* The rate limit of PolicyEngine holds for every number of threads, users *)
(* and policies, and every length of the window.                           *)
(***************************************************************************)
EXTENDS PolicyEngine, FiniteSetTheorems, TLAPS

(* The list of a user holds every grant of this user that still counts, and *)
(* nothing but grants of this user; grants are numbered in their order.     *)
WindowInv ==
  /\ IsFiniteSet(granted)
  /\ \A g \in granted : g.n < count /\ g.at <= now
  /\ \A u \in Users : \A g \in windows[u] : g.user = u
  /\ \A g \in granted : g.at > now - Window => g \in windows[g.user]

RateInv == TypeOK /\ WindowInv /\ RateRespected

(* The policies in use have a rate. *)
LEMMA RatesAreNumbers == \A policy \in InUse : policy.rate \in Nat
  <1>1. \A r \in Nat : Lenient(r).rate \in Nat /\ Gdpr(r).rate \in Nat
    BY DEF Lenient, Gdpr
  <1>2. ASSUME NEW name \in BuiltinNames PROVE Builtins[name].rate \in Nat
    <2>1. Rate[name] \in Nat
      BY PolicyAssumption
    <2>2. CASE name = "default"
      BY <1>1, <2>1, <2>2 DEF Builtins
    <2>3. CASE name = "gdpr"
      BY <1>1, <2>1, <2>3 DEF Builtins
    <2>4. CASE name = "gdpr-strict"
      <3> DEFINE strict == [Gdpr(Rate[name]) EXCEPT !.transforms = {"mask"}]
      <3>1. strict.rate \in Nat
        BY <2>1 DEF Gdpr, Lenient
      <3>2. Builtins[name] = strict
        BY <2>4 DEF Builtins
      <3> QED BY <3>1, <3>2
    <2>5. CASE name = "block-all"
      BY <1>1, <2>5 DEF Builtins
    <2> QED BY <2>2, <2>3, <2>4, <2>5 DEF BuiltinNames
  <1> QED BY <1>2, PolicyAssumption DEF InUse

(* A thread that is checking holds a user, a name, a context and a policy. *)
LEMMA CheckingCall ==
  ASSUME TypeOK, NEW t \in Threads, call[t].stage = "check"
  PROVE  call[t].user \in Users /\ call[t].name \in Names /\ call[t].policy \in InUse
  BY DEF TypeOK, Calls, Idle

(* An answer is a call of the "done" stage. *)
LEMMA AnswerTypes ==
  ASSUME TypeOK, NEW t \in Threads, call[t].stage = "check", NEW a \in Answers, Answer(t, a)
  PROVE  call' \in [Threads -> Calls]
  <1>1. call[t].name \in Names
    BY CheckingCall
  <1>2. [stage |-> "done", name |-> call[t].name, answer |-> a] \in Calls
    BY <1>1 DEF Calls
  <1> QED BY <1>2 DEF TypeOK, Answer

(* _check_rate keeps the invariant, whether it grants or refuses. *)
LEMMA CheckRateKeeps ==
  ASSUME RateInv, NEW t \in Threads, call[t].stage = "check", CheckRate(t),
         UNCHANGED <<policies, now>>
  PROVE  RateInv'
  <1> DEFINE u == call[t].user
             limit == call[t].policy.rate
             grant == [user |-> u, n |-> count, at |-> now, rate |-> limit]
  <1>1. u \in Users /\ limit \in Nat /\ grant \in Grants /\ count \in Nat /\ now \in Nat
    BY CheckingCall, RatesAreNumbers DEF RateInv, TypeOK, Grants
  <1>2. Recent(u) \subseteq granted
    BY <1>1 DEF RateInv, TypeOK, Recent
  <1>3. CASE Cardinality(Recent(u)) >= limit
    <2>1. /\ windows' = [windows EXCEPT ![u] = Recent(u)]
          /\ Answer(t, "rate exceeded") /\ UNCHANGED <<granted, count>>
      BY <1>3 DEF CheckRate
    <2>2. TypeOK'
      BY <2>1, <1>1, <1>2, AnswerTypes DEF RateInv, TypeOK, Answers
    <2>3. WindowInv'
      <3>1. \A v \in Users : windows'[v] \subseteq windows[v]
        BY <2>1, <1>1 DEF RateInv, TypeOK, Recent
      <3>2. \A g \in granted : g.at > now - Window => g \in windows'[g.user]
        BY <2>1, <1>1 DEF RateInv, WindowInv, TypeOK, Recent, Grants
      <3> QED BY <3>1, <3>2, <2>1 DEF RateInv, WindowInv
    <2>4. RateRespected'
      BY <2>1 DEF RateInv, RateRespected, Before
    <2> QED BY <2>2, <2>3, <2>4 DEF RateInv
  <1>4. CASE ~(Cardinality(Recent(u)) >= limit)
    <2>1. /\ count < MaxGrants /\ count' = count + 1
          /\ windows' = [windows EXCEPT ![u] = Recent(u) \cup {grant}]
          /\ granted' = granted \cup {grant} /\ Answer(t, "ok")
      BY <1>4 DEF CheckRate
    <2>2. TypeOK'
      <3>1. windows' \in [Users -> SUBSET granted']
        BY <2>1, <1>1, <1>2 DEF RateInv, TypeOK
      <3>2. count' \in 0 .. MaxGrants
        BY <2>1, <1>1, PolicyAssumption DEF RateInv, TypeOK
      <3>3. call' \in [Threads -> Calls]
        BY <2>1, AnswerTypes DEF RateInv, Answers
      <3> QED BY <3>1, <3>2, <3>3, <2>1, <1>1 DEF RateInv, TypeOK
    <2>3. WindowInv'
      <3>1. IsFiniteSet(granted')
        BY <2>1, FS_AddElement DEF RateInv, WindowInv
      <3>2. \A g \in granted' : g.n < count' /\ g.at <= now'
        BY <2>1, <1>1 DEF RateInv, WindowInv, TypeOK, Grants
      <3>3. \A v \in Users : \A g \in windows'[v] : g.user = v
        BY <2>1, <1>1 DEF RateInv, WindowInv, TypeOK, Recent
      <3>4. \A g \in granted' : g.at > now' - Window => g \in windows'[g.user]
        BY <2>1, <1>1 DEF RateInv, WindowInv, TypeOK, Recent, Grants
      <3> QED BY <3>1, <3>2, <3>3, <3>4 DEF WindowInv
    <2>4. RateRespected'
      <3>1. SUFFICES ASSUME NEW g \in granted' PROVE Cardinality(Before(g)') < g.rate
        BY DEF RateRespected, Before
      <3>2. CASE g = grant
        <4>1. Before(g)' \subseteq Recent(u)
          BY <3>2, <2>1, <1>1 DEF Before, Recent, RateInv, WindowInv, TypeOK, Grants
        <4>2. IsFiniteSet(Recent(u))
          BY <1>2, FS_Subset DEF RateInv, WindowInv
        <4>3. Cardinality(Before(g)') <= Cardinality(Recent(u))
          BY <4>1, <4>2, FS_Subset
        <4>4. Cardinality(Recent(u)) \in Nat /\ Cardinality(Before(g)') \in Nat
          BY <4>1, <4>2, FS_Subset, FS_CardinalityType
        <4> QED BY <4>3, <4>4, <3>2, <1>4, <1>1
      <3>3. CASE g # grant
        <4>1. g \in granted /\ g.n < count
          BY <3>3, <2>1 DEF RateInv, WindowInv
        <4>2. Before(g)' = Before(g)
          BY <4>1, <2>1, <1>1 DEF Before, RateInv, TypeOK, Grants
        <4> QED BY <4>1, <4>2 DEF RateInv, RateRespected
      <3> QED BY <3>2, <3>3
    <2> QED BY <2>2, <2>3, <2>4 DEF RateInv
  <1> QED BY <1>3, <1>4

(* A step that leaves the grants and the lists alone, and the clock with     *)
(* them or one tick later, keeps the invariant when the types are kept.      *)
LEMMA OtherStepKeeps ==
  ASSUME RateInv, TypeOK', UNCHANGED <<windows, granted, count>>, now' \in {now, now + 1}
  PROVE  RateInv'
  <1>1. now \in Nat /\ Window \in Nat /\ \A g \in granted : g.at \in Nat
    BY PolicyAssumption DEF RateInv, TypeOK, Grants
  <1>2. WindowInv'
    BY <1>1 DEF RateInv, WindowInv
  <1>3. RateRespected'
    BY DEF RateInv, RateRespected, Before
  <1> QED BY <1>2, <1>3 DEF RateInv

(* The invariant holds at the start and is kept by every step of evaluate,   *)
(* of add_policy and of the clock.                                           *)
THEOREM RateInvInductive == Init /\ [][Next]_vars => []RateInv
  <1>1. Init => RateInv
    <2> SUFFICES ASSUME Init PROVE RateInv
      OBVIOUS
    <2>1. TypeOK
      <3>1. Builtins \in [BuiltinNames -> InUse]
        BY DEF Builtins, InUse
      <3>2. policies \in UNION {[names -> InUse] : names \in SUBSET (Names \cup BuiltinNames)}
        BY <3>1 DEF Init
      <3> QED BY <3>2, PolicyAssumption DEF Init, TypeOK, Calls
    <2>2. WindowInv /\ RateRespected
      BY FS_EmptySet DEF Init, WindowInv, RateRespected
    <2> QED BY <2>1, <2>2 DEF RateInv
  <1>2. RateInv /\ [Next]_vars => RateInv'
    <2> SUFFICES ASSUME RateInv, [Next]_vars PROVE RateInv'
      OBVIOUS
    <2>1. CASE Tick
      <3>1. TypeOK'
        BY <2>1, PolicyAssumption DEF Tick, RateInv, TypeOK
      <3> QED BY <2>1, <3>1, OtherStepKeeps DEF Tick
    <2>2. ASSUME NEW name \in Names, NEW policy \in Custom, AddPolicy(name, policy) PROVE RateInv'
      <3> DEFINE names == DOMAIN policies \cup {name}
      <3>1. PICK old \in SUBSET (Names \cup BuiltinNames) : policies \in [old -> InUse]
        BY DEF RateInv, TypeOK
      <3>2. names \in SUBSET (Names \cup BuiltinNames) /\ policies' \in [names -> InUse]
        BY <2>2, <3>1 DEF AddPolicy, InUse
      <3>3. TypeOK'
        BY <2>2, <3>2 DEF AddPolicy, RateInv, TypeOK
      <3> QED BY <2>2, <3>3, OtherStepKeeps DEF AddPolicy
    <2>3. ASSUME NEW t \in Threads, NEW u \in Users, NEW name \in Names, NEW ctx \in Contexts,
                 Lookup(t, u, name, ctx)
          PROVE  RateInv'
      <3>1. name \in DOMAIN policies => policies[name] \in InUse
        BY DEF RateInv, TypeOK
      <3>2. call'[t] \in Calls
        BY <2>3, <3>1 DEF Lookup, Calls, RateInv, TypeOK, Answers
      <3>3. call' \in [Threads -> Calls]
        BY <2>3, <3>2 DEF Lookup, RateInv, TypeOK
      <3>4. TypeOK'
        BY <2>3, <3>3 DEF Lookup, RateInv, TypeOK
      <3> QED BY <2>3, <3>4, OtherStepKeeps DEF Lookup
    <2>4. ASSUME NEW t \in Threads, Decide(t) PROVE RateInv'
      <3>1. CASE CheckRate(t)
        BY <2>4, <3>1, CheckRateKeeps DEF Decide
      <3>2. ASSUME NEW a \in {"not admitted", "ok"}, Answer(t, a),
                   UNCHANGED <<windows, granted, count>>
            PROVE  RateInv'
        <4>1. call' \in [Threads -> Calls]
          BY <2>4, <3>2, AnswerTypes DEF Decide, RateInv, Answers
        <4>2. TypeOK'
          BY <2>4, <3>2, <4>1 DEF Decide, RateInv, TypeOK
        <4> QED BY <2>4, <3>2, <4>2, OtherStepKeeps DEF Decide
      <3> QED BY <2>4, <3>1, <3>2 DEF Decide
    <2>5. CASE UNCHANGED vars
      <3>1. TypeOK'
        BY <2>5 DEF vars, RateInv, TypeOK
      <3> QED BY <2>5, <3>1, OtherStepKeeps DEF vars
    <2> QED BY <2>1, <2>2, <2>3, <2>4, <2>5 DEF Next
  <1> QED BY <1>1, <1>2, PTL

(* Whatever the number of threads, users and policies, no call is granted    *)
(* beyond the rate of its policy (policy.py, _check_rate).                   *)
THEOREM RateIsRespected == Spec => []RateRespected
  <1>1. RateInv => RateRespected
    BY DEF RateInv
  <1> QED BY <1>1, RateInvInductive, PTL DEF Spec

(* Type correctness. *)
THEOREM PolicyTypes == Spec => []TypeOK
  <1>1. RateInv => TypeOK
    BY DEF RateInv
  <1> QED BY <1>1, RateInvInductive, PTL DEF Spec

(* A refusal is just: when a call is refused for its rate, its user has had  *)
(* that many grants inside the window (policy.py, _check_rate).               *)
THEOREM RefusalIsJust == Spec => RefusedOnlyWhenFull
  <1> DEFINE Refused(t) ==
               call[t].stage = "check" /\ call'[t].stage = "done" /\ call'[t].answer = "rate exceeded"
             InWindow(u) == {g \in granted : g.user = u /\ g.at > now - Window}
             Just(t) == Cardinality(InWindow(call[t].user)) >= call[t].policy.rate
  <1>1. ASSUME RateInv, [Next]_vars, NEW t \in Threads, Refused(t) PROVE Just(t)
    <2>0. call[t].user \in Users /\ call[t].policy.rate \in Nat /\ call'[t] # call[t]
      BY <1>1, CheckingCall, RatesAreNumbers DEF RateInv
    <2>a. t \in DOMAIN call
      BY <1>1 DEF RateInv, TypeOK
    <2>1. Decide(t)
      <3>1. ASSUME NEW s \in Threads, Decide(s), s # t PROVE call'[t] = call[t]
        <4>1. \E a : Answer(s, a)
          BY <3>1 DEF Decide, CheckRate
        <4> QED BY <2>a, <3>1, <4>1 DEF Answer
      <3>2. ASSUME NEW s \in Threads, NEW u \in Users, NEW name \in Names, NEW ctx \in Contexts,
                   Lookup(s, u, name, ctx)
            PROVE  call'[t] = call[t]
        BY <1>1, <2>a, <3>2 DEF Lookup
      <3>3. ASSUME Tick \/ (\E name \in Names, policy \in Custom : AddPolicy(name, policy))
                     \/ UNCHANGED vars
            PROVE  call'[t] = call[t]
        BY <3>3 DEF Tick, AddPolicy, vars
      <3> QED BY <1>1, <2>0, <3>1, <3>2, <3>3 DEF Next
    <2>2. ASSUME NEW a, Answer(t, a) PROVE a = "rate exceeded"
      <3>1. call'[t] = [stage |-> "done", name |-> call[t].name, answer |-> a]
        BY <2>a, <2>2 DEF Answer
      <3>2. call'[t].answer = a
        BY <3>1
      <3> QED BY <1>1, <3>2
    <2>3. CheckRate(t)
      BY <2>1, <2>2 DEF Decide
    <2>4. Cardinality(Recent(call[t].user)) >= call[t].policy.rate
      BY <2>2, <2>3 DEF CheckRate
    <2>5. Recent(call[t].user) \subseteq InWindow(call[t].user)
      BY <1>1, <2>0 DEF Recent, RateInv, TypeOK, WindowInv
    <2>6. IsFiniteSet(InWindow(call[t].user))
      BY <1>1, FS_Subset DEF RateInv, WindowInv
    <2>7. Cardinality(Recent(call[t].user)) <= Cardinality(InWindow(call[t].user))
      BY <2>5, <2>6, FS_Subset
    <2>8. /\ Cardinality(Recent(call[t].user)) \in Nat
          /\ Cardinality(InWindow(call[t].user)) \in Nat
      BY <2>5, <2>6, FS_Subset, FS_CardinalityType
    <2> QED BY <2>0, <2>4, <2>7, <2>8
  <1>2. RateInv /\ [Next]_vars => [\A t \in Threads : Refused(t) => Just(t)]_vars
    BY <1>1
  <1> QED BY <1>2, RateInvInductive, PTL DEF Spec, RefusedOnlyWhenFull
=============================================================================
