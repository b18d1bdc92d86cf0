---------------------------- MODULE RequestService ----------------------------
(***************************************************************************)
(* What the HTTP server promises about the adapters it knows: requests are  *)
(* served one after the other on a dictionary that nothing else changes.    *)
(* A request takes effect at most once, between its arrival and its reply,  *)
(* and a reply tells what the dictionary held at one instant in between.    *)
(* An error says nothing about the effect.  A stop loses the open requests  *)
(* and a start may find any dictionary.                                     *)
(***************************************************************************)
CONSTANTS Names, Ids

VARIABLES
  serving,  \* is the server up?
  dict,     \* the adapters it knows
  want,     \* what each request asks for
  stage,    \* "new", "pending", "applied" or "answered"
  reply     \* the status and the names it is answered with

vars == <<serving, dict, want, stage, reply>>

Ok(names) == [status |-> "ok", names |-> names]
Error == [status |-> "error", names |-> {}]
Nothing == [status |-> "none", names |-> {}]

Init ==
  /\ serving = FALSE /\ dict = {}
  /\ want = [i \in Ids |-> [kind |-> "none"]]
  /\ stage = [i \in Ids |-> "new"] /\ reply = [i \in Ids |-> Nothing]

Start == ~serving /\ serving' = TRUE /\ dict' \in SUBSET Names /\ UNCHANGED <<want, stage, reply>>

Stop ==
  /\ serving /\ serving' = FALSE /\ dict' = {}
  /\ stage' = [i \in Ids |-> IF stage[i] = "new" THEN "new" ELSE "answered"]
  /\ UNCHANGED <<want, reply>>

Call(i) ==
  /\ serving /\ stage[i] = "new"
  /\ stage' = [stage EXCEPT ![i] = "pending"]
  /\ \/ \E kind \in {"register", "remove"}, name \in Names :
          want' = [want EXCEPT ![i] = [kind |-> kind, name |-> name]]
     \/ \E kind \in {"list", "other"} : want' = [want EXCEPT ![i] = [kind |-> kind]]
  /\ UNCHANGED <<serving, dict, reply>>

Effect(i) ==
  /\ stage[i] = "pending" /\ stage' = [stage EXCEPT ![i] = "applied"]
  /\ \/ want[i].kind = "register" /\ dict' = dict \cup {want[i].name}
     \/ want[i].kind = "remove" /\ want[i].name \in dict /\ dict' = dict \ {want[i].name}
     \/ want[i].kind = "other" /\ UNCHANGED dict
  /\ UNCHANGED <<serving, want, reply>>

(* A reply without an effect before it. *)
Read(i) ==
  /\ stage[i] = "pending" /\ stage' = [stage EXCEPT ![i] = "answered"]
  /\ reply' \in {[reply EXCEPT ![i] = r] :
       r \in {Error} \cup (IF want[i].kind = "list" THEN {Ok(dict)} ELSE {})
               \cup (IF want[i].kind = "remove" /\ want[i].name \notin dict THEN {Ok({})} ELSE {})
               \cup (IF want[i].kind = "other" THEN {Ok({})} ELSE {})}
  /\ UNCHANGED <<serving, dict, want>>

Finish(i) ==
  /\ stage[i] = "applied" /\ stage' = [stage EXCEPT ![i] = "answered"]
  /\ reply' \in {[reply EXCEPT ![i] = r] :
       r \in {Error, Ok(IF want[i].kind = "remove" THEN {want[i].name} ELSE {})}}
  /\ UNCHANGED <<serving, dict, want>>

Next == Start \/ Stop \/ \E i \in Ids : Call(i) \/ Effect(i) \/ Read(i) \/ Finish(i)

Spec == Init /\ [][Next]_vars
=============================================================================
