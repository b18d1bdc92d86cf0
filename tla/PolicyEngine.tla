---------------------------- MODULE PolicyEngine ----------------------------
(***************************************************************************)
(* PolicyEngine (cdeh/core/policy.py): evaluate, with its checks and its   *)
(* rate limit per user over a sliding window, called from several threads  *)
(* while policies are added.                                               *)
(*                                                                         *)
(* A time stamp of the list _rate_windows[user] is modelled by the grant   *)
(* that it stands for: the length of the list matters, its order does not. *)
(* The clock (time.time) never goes back.                                  *)
(***************************************************************************)
EXTENDS Integers, FiniteSets

CONSTANTS
  Threads,     \* threads that call evaluate
  Users,
  Contexts,    \* what callers put into a PolicyContext, without the user
  Names,       \* names of policies that callers ask for
  Custom,      \* policies that may be added
  Within,      \* <<kind, declared>>: this kind occurs in this declared transform
  Rate,        \* rate_limit_per_minute of the built-in policies (0: no limit)
  Window,      \* length of the window (60 s)
  MaxTime,     \* bound on the clock
  MaxGrants    \* bound on the calls granted under a rate limit

VARIABLES
  policies,    \* _policies: the policy of each known name
  windows,     \* _rate_windows: the grants listed for each user
  now,         \* the clock
  call,        \* the call of each thread
  granted,     \* history: the grants under a rate limit
  count        \* history: how many there were

vars == <<policies, windows, now, call, granted, count>>

Classes == {"public", "internal", "confidential", "restricted"}
BuiltinNames == {"default", "gdpr", "gdpr-strict", "block-all"}

(* An empty field of a policy asks for nothing. *)
Policies == [require : SUBSET Classes, deny : SUBSET Classes, tags : SUBSET STRING,
             https : BOOLEAN, maxSize : Nat, transforms : SUBSET STRING, rate : Nat]

Lenient(rate) ==
  [require |-> {}, deny |-> {}, tags |-> {}, https |-> FALSE, maxSize |-> 0,
   transforms |-> {}, rate |-> rate]

Gdpr(rate) ==
  [Lenient(rate) EXCEPT !.require = Classes \ {"restricted"}, !.deny = {"restricted"},
                        !.https = TRUE]

Builtins ==
  [name \in BuiltinNames |->
     CASE name = "default" -> Lenient(Rate[name])
       [] name = "gdpr" -> Gdpr(Rate[name])
       [] name = "gdpr-strict" -> [Gdpr(Rate[name]) EXCEPT !.transforms = {"mask"}]
       [] name = "block-all" -> Lenient(0)]

ASSUME PolicyAssumption ==
  /\ Names \subseteq STRING
  /\ Rate \in [BuiltinNames -> Nat]
  /\ \A policy \in Custom : policy.rate \in Nat
  /\ Window \in Nat \ {0} /\ MaxTime \in Nat /\ MaxGrants \in Nat

Grants == [user : Users, n : Nat, at : Nat, rate : Nat]
Answers == {"unknown policy", "not admitted", "rate exceeded", "ok"}
InUse == {Builtins[name] : name \in BuiltinNames} \cup Custom

Idle == [stage |-> "idle"]
Calls ==
  {Idle}
  \cup [stage : {"check"}, user : Users, name : Names, ctx : Contexts, policy : InUse]
  \cup [stage : {"done"}, name : Names, answer : Answers]

TypeOK ==
  /\ policies \in UNION {[names -> InUse] : names \in SUBSET (Names \cup BuiltinNames)}
  /\ windows \in [Users -> SUBSET granted]
  /\ now \in 0 .. MaxTime
  /\ call \in [Threads -> Calls]
  /\ granted \subseteq Grants /\ count \in 0 .. MaxGrants

Init ==
  /\ policies = Builtins
  /\ windows = [u \in Users |-> {}]
  /\ now = 0 /\ call = [t \in Threads |-> Idle]
  /\ granted = {} /\ count = 0

-----------------------------------------------------------------------------
(* The checks of evaluate before the rate limit. *)
Admits(policy, ctx) ==
  /\ ctx.class \notin policy.deny
  /\ policy.require # {} => ctx.class \in policy.require
  /\ policy.tags \subseteq ctx.tags
  /\ policy.https => ctx.https
  /\ policy.maxSize # 0 => ctx.size <= policy.maxSize
  /\ \A kind \in policy.transforms : \E declared \in ctx.transforms : <<kind, declared>> \in Within

(* evaluate reads the policy without the lock, and keeps this reference. *)
Lookup(t, u, name, ctx) ==
  /\ call[t].stage # "check"
  /\ call' = [call EXCEPT ![t] =
       IF name \in DOMAIN policies
       THEN [stage |-> "check", user |-> u, name |-> name, ctx |-> ctx,
             policy |-> policies[name]]
       ELSE [stage |-> "done", name |-> name, answer |-> "unknown policy"]]
  /\ UNCHANGED <<policies, windows, now, granted, count>>

Answer(t, answer) ==
  call' = [call EXCEPT ![t] = [stage |-> "done", name |-> call[t].name, answer |-> answer]]

(* One list for all users (a defect for RefusedOnlyWhenFull). *)
Recent_OfAnyone(u) == {g \in UNION {windows[v] : v \in Users} : g.at > now - Window}

(* The entries that a call finds: those younger than the window. *)
Recent(u) == {g \in windows[u] : g.at > now - Window}

(* A limit that admits one call too many (a defect for RateRespected). *)
CheckRate_OneMore(t) ==
  LET u == call[t].user
      limit == call[t].policy.rate
      grant == [user |-> u, n |-> count, at |-> now, rate |-> limit] IN
  IF Cardinality(Recent(u)) > limit
  THEN /\ windows' = [windows EXCEPT ![u] = Recent(u)]
       /\ Answer(t, "rate exceeded")
       /\ UNCHANGED <<granted, count>>
  ELSE /\ count < MaxGrants /\ count' = count + 1
       /\ windows' = [windows EXCEPT ![u] = Recent(u) \cup {grant}]
       /\ granted' = granted \cup {grant}
       /\ Answer(t, "ok")

(* An entry listed for a refused call too (a defect for TypeOK). *)
CheckRate_ListsRefusals(t) ==
  LET u == call[t].user
      limit == call[t].policy.rate
      grant == [user |-> u, n |-> count, at |-> now, rate |-> limit] IN
  /\ windows' = [windows EXCEPT ![u] = Recent(u) \cup {grant}]
  /\ IF Cardinality(Recent(u)) >= limit
     THEN Answer(t, "rate exceeded") /\ UNCHANGED <<granted, count>>
     ELSE /\ count < MaxGrants /\ count' = count + 1
          /\ granted' = granted \cup {grant}
          /\ Answer(t, "ok")

(* _check_rate, in its lock.  The list is pruned whatever the answer is. *)
CheckRate(t) ==
  LET u == call[t].user
      limit == call[t].policy.rate
      grant == [user |-> u, n |-> count, at |-> now, rate |-> limit] IN
  IF Cardinality(Recent(u)) >= limit
  THEN /\ windows' = [windows EXCEPT ![u] = Recent(u)]
       /\ Answer(t, "rate exceeded")
       /\ UNCHANGED <<granted, count>>
  ELSE /\ count < MaxGrants /\ count' = count + 1
       /\ windows' = [windows EXCEPT ![u] = Recent(u) \cup {grant}]
       /\ granted' = granted \cup {grant}
       /\ Answer(t, "ok")

Decide(t) ==
  /\ call[t].stage = "check"
  /\ \/ /\ ~Admits(call[t].policy, call[t].ctx)
        /\ Answer(t, "not admitted") /\ UNCHANGED <<windows, granted, count>>
     \/ /\ Admits(call[t].policy, call[t].ctx) /\ call[t].policy.rate = 0
        /\ Answer(t, "ok") /\ UNCHANGED <<windows, granted, count>>
     \/ /\ Admits(call[t].policy, call[t].ctx) /\ call[t].policy.rate # 0
        /\ CheckRate(t)
  /\ UNCHANGED <<policies, now>>

(* add_policy replaces the policy of a name, the built-in ones included. *)
AddPolicy(name, policy) ==
  /\ policies' = [n \in DOMAIN policies \cup {name} |-> IF n = name THEN policy ELSE policies[n]]
  /\ UNCHANGED <<windows, now, call, granted, count>>

Tick ==
  /\ now < MaxTime /\ now' = now + 1
  /\ UNCHANGED <<policies, windows, call, granted, count>>

Next ==
  \/ \E t \in Threads :
       \/ Decide(t)
       \/ \E u \in Users, name \in Names, ctx \in Contexts : Lookup(t, u, name, ctx)
  \/ \E name \in Names, policy \in Custom : AddPolicy(name, policy)
  \/ Tick

Spec == Init /\ [][Next]_vars

-----------------------------------------------------------------------------
Before(g) == {h \in granted : h.user = g.user /\ h.n < g.n /\ h.at > g.at - Window}

(* A call is granted under a limit only when fewer than this many calls of   *)
(* its user were granted in the window before it, by whichever policies and  *)
(* from whichever threads (_check_rate).                                     *)
RateRespected == \A g \in granted : Cardinality(Before(g)) < g.rate

(* A call is refused for its rate only when the user has really had that     *)
(* many grants in the window: refusals, and calls denied for another reason, *)
(* use nothing up.                                                           *)
RefusedOnlyWhenFull ==
  [][\A t \in Threads :
       call[t].stage = "check" /\ call'[t].stage = "done" /\ call'[t].answer = "rate exceeded" =>
         Cardinality({g \in granted : g.user = call[t].user /\ g.at > now - Window})
           >= call[t].policy.rate]_vars
=============================================================================
