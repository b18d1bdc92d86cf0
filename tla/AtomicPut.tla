------------------------------ MODULE AtomicPut ------------------------------
(***************************************************************************)
(* What the transfer of an object promises, however it is carried out: each *)
(* attempt takes one version of the source and puts it, whole, by a single   *)
(* change of the destination.  A put that fails, or is killed, leaves the    *)
(* old object, or the new one, or one cut short where the storage does so;   *)
(* nothing else changes the destination.  A run that ends well has put the   *)
(* version that it took last.                                                *)
(***************************************************************************)
EXTENDS Naturals

CONSTANTS
  Runs, Shares, ShareOf,
  MayCut    \* does a put that stops halfway leave the object cut short?

VARIABLES
  newest,   \* version of the source
  object,   \* version at each share's destination (0: absent, or cut short)
  phase,    \* "idle", "taking", "putting", "finished" or "failed"
  taken     \* version in the hands of each run

vars == <<newest, object, phase, taken>>

Init ==
  /\ newest = 1 /\ object = [s \in Shares |-> 0]
  /\ phase = [r \in Runs |-> "idle"] /\ taken = [r \in Runs |-> 0]

Enter(r, label) == phase' = [phase EXCEPT ![r] = label]

Begin(r) ==
  /\ phase[r] \in {"idle", "finished", "failed"} /\ Enter(r, "taking")
  /\ UNCHANGED <<newest, object, taken>>

(* The bytes may be older than the source: they may have been cached. *)
Take(r) ==
  /\ phase[r] = "taking" /\ Enter(r, "putting")
  /\ \E version \in 1 .. newest : taken' = [taken EXCEPT ![r] = version]
  /\ UNCHANGED <<newest, object>>

Put(r) ==
  /\ phase[r] = "putting"
  /\ object' = [object EXCEPT ![ShareOf[r]] = taken[r]]
  /\ UNCHANGED <<newest, phase, taken>>

Finish(r) ==
  /\ phase[r] = "putting" /\ object[ShareOf[r]] = taken[r] /\ Enter(r, "finished")
  /\ UNCHANGED <<newest, object, taken>>

(* An attempt that fails is followed by another one, or by the end of the run. *)
Fail(r) ==
  /\ Enter(r, "taking") \/ Enter(r, "failed")
  /\ \/ phase[r] \in {"taking", "putting"} /\ UNCHANGED object
     \/ /\ phase[r] = "putting"
        /\ \E left \in {taken[r]} \cup (IF MayCut THEN {0} ELSE {}) :
             object' = [object EXCEPT ![ShareOf[r]] = left]
  /\ UNCHANGED <<newest, taken>>

Publish == newest' = newest + 1 /\ UNCHANGED <<object, phase, taken>>

(* The objects that were being put may be cut short. *)
Kill ==
  /\ phase' = [r \in Runs |-> "idle"]
  /\ \E cut \in SUBSET {ShareOf[r] : r \in {r \in Runs : phase[r] = "putting"}} :
       /\ MayCut \/ cut = {}
       /\ object' = [s \in Shares |-> IF s \in cut THEN 0 ELSE object[s]]
  /\ UNCHANGED <<newest, taken>>

Next ==
  \/ \E r \in Runs : Begin(r) \/ Take(r) \/ Put(r) \/ Finish(r) \/ Fail(r)
  \/ Publish \/ Kill

Spec == Init /\ [][Next]_vars
=============================================================================
