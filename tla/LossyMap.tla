------------------------------ MODULE LossyMap ------------------------------
(***************************************************************************)
(* What a cache promises to the threads that use it: a map that may forget *)
(* any of its entries at any time, and never invents one.  A read returns  *)
(* the value last written for the key, or nothing; a write takes effect    *)
(* before it returns.                                                      *)
(***************************************************************************)
CONSTANTS Threads, Keys, Values, Nothing

VARIABLES
  map,    \* value of each key, or Nothing
  call,   \* the call each thread is in
  reply   \* what its last call returned

vars == <<map, call, reply>>

Idle == [op |-> "none"]
Requests == [op : {"get"}, key : Keys] \cup [op : {"put"}, key : Keys, value : Values]

Init ==
  /\ map = [k \in Keys |-> Nothing]
  /\ call = [t \in Threads |-> Idle] /\ reply = [t \in Threads |-> Nothing]

Forgets(old, new) == \A k \in Keys : new[k] \in {old[k], Nothing}

Invoke(t, request) ==
  /\ call[t] = Idle
  /\ call' = [call EXCEPT ![t] = request]
  /\ UNCHANGED <<map, reply>>

Reply(t, value) ==
  call' = [call EXCEPT ![t] = Idle] /\ reply' = [reply EXCEPT ![t] = value]

Write(t) ==
  LET k == call[t].key  v == call[t].value IN
  /\ call[t].op = "put"
  /\ Forgets([map EXCEPT ![k] = v], map') /\ map'[k] = v
  /\ Reply(t, Nothing)

Read(t) ==
  /\ call[t].op = "get"
  /\ Forgets(map, map')
  /\ Reply(t, map'[call[t].key])

Forget == Forgets(map, map') /\ UNCHANGED <<call, reply>>

Next ==
  \/ \E t \in Threads : Read(t) \/ Write(t) \/ \E request \in Requests : Invoke(t, request)
  \/ Forget

Spec == Init /\ [][map' \in [Keys -> Values \cup {Nothing}] /\ Next]_vars
=============================================================================
