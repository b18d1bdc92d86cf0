--------------------------- MODULE ShareRun_proofs ---------------------------
(***************************************************************************)
(* Type correctness of the share run, and its two accounts of what became  *)
(* of an object, the result and the audit trail, for every number of runs,  *)
(* objects, versions, faults and kills.                                      *)
(***************************************************************************)
EXTENDS ShareRun, FiniteSetTheorems, TLAPS

(* The adapters return stamps and leave versions behind. *)
LEMMA StampType ==
  ASSUME TypeOK, NEW v \in Versions
  PROVE  SrcStamp(v) \in Versions /\ (SrcStamp(v) = 0 <=> v = 0)
  BY ShareAssumption
  DEF TypeOK, SrcStamp, Stamp, Kinds, LocalStat, S3Stat, AzureStat, SftpStat, MysqlStat, Versions

LEMMA LeavesType ==
  ASSUME NEW kind \in Kinds, NEW old \in Versions, NEW new \in Versions, NEW left \in PutLeaves(kind, old, 0, new)
  PROVE  left \in Versions
  BY ShareAssumption
  DEF PutLeaves, Kinds, LocalPutLeaves, S3PutLeaves, AzurePutLeaves, SftpPutLeaves, MysqlPutLeaves, Versions

(* The parts of the state. *)
StoreOK ==
  /\ adapter \in [src : SrcKinds, dst : DstKinds] /\ src \in [Objects -> Versions]
  /\ dst \in [Places -> [Objects -> Versions]] /\ cache \in [Objects -> Versions]
  /\ fps \in [Objects -> Versions] /\ saved \in [Objects -> Versions]
ShareOK == share \in [defined : BOOLEAN, place : Places]
Labels == {"idle", "list", "object", "fetch", "fill", "put", "settle",
           "record", "audit", "finished", "aborted", "raised"}
PlaceOK == pc \in [Runs -> Labels]
WorkOK ==
  /\ listing \in [Runs -> [Objects -> Versions]] /\ todo \in [Runs -> SUBSET Objects]
  /\ cur \in [Runs -> Objects] /\ bytes \in [Runs -> Versions]
  /\ copy \in [Runs -> [Objects -> Versions]]
  /\ attempt \in [Runs -> 1 .. MaxAttempts] /\ place \in [Runs -> Places]
TraceOK ==
  /\ result \in [Runs -> SUBSET (Objects \X Outcomes)] /\ wrote \in [Runs -> SUBSET Objects]
  /\ audited \in [Runs -> SUBSET (Objects \X Actions)]
BoundsOK == faults \in 0 .. MaxFaults /\ crashes \in 0 .. MaxCrashes /\ edits \in 0 .. MaxEdits

LEMMA TypeParts ==
  /\ TypeOK <=> StoreOK /\ ShareOK /\ PlaceOK /\ WorkOK /\ TraceOK /\ BoundsOK
  /\ TypeOK' <=> StoreOK' /\ ShareOK' /\ PlaceOK' /\ WorkOK' /\ TraceOK' /\ BoundsOK'
  BY DEF TypeOK, StoreOK, ShareOK, PlaceOK, Labels, WorkOK, TraceOK, BoundsOK

(* A part that a step leaves alone keeps its type. *)
LEMMA TypeFrame ==
  /\ UNCHANGED store /\ StoreOK => StoreOK'
  /\ UNCHANGED share /\ ShareOK => ShareOK'
  /\ UNCHANGED work /\ WorkOK => WorkOK'
  /\ UNCHANGED trace /\ TraceOK => TraceOK'
  /\ UNCHANGED bounds /\ BoundsOK => BoundsOK'
  BY DEF store, work, trace, bounds, StoreOK, ShareOK, WorkOK, TraceOK, BoundsOK

LEMMA InitType == Init => TypeOK
  <1> SUFFICES ASSUME Init PROVE TypeOK
    OBVIOUS
  <1>1. 0 \in Versions /\ None \in [Objects -> Versions]
    BY ShareAssumption DEF Versions, None
  <1>2. StoreOK
    BY <1>1 DEF Init, StoreOK, Versions
  <1>3. ShareOK
    BY DEF Init, ShareOK
  <1>4. PlaceOK /\ TraceOK
    BY DEF Init, PlaceOK, Labels, TraceOK
  <1>5. WorkOK
    <2>1. share.place \in Places /\ (CHOOSE o \in Objects : TRUE) \in Objects
      BY ShareAssumption DEF Init
    <2> QED
      BY <1>1, <2>1, ShareAssumption DEF Init, WorkOK
  <1>6. BoundsOK
    BY ShareAssumption DEF Init, BoundsOK
  <1> QED BY <1>2, <1>3, <1>4, <1>5, <1>6, TypeParts

(* What the parts of the actions do to the types. *)
LEMMA SpendType ==
  ASSUME BoundsOK, NEW n \in Nat, Spend(n), UNCHANGED <<crashes, edits>>
  PROVE  BoundsOK'
  BY ShareAssumption DEF BoundsOK, Spend

LEMMA CountType ==
  ASSUME TraceOK, NEW r \in Runs, NEW o \in Objects, NEW f \in Outcomes, Count(r, f, o)
  PROVE  result' \in [Runs -> SUBSET (Objects \X Outcomes)]
  BY DEF TraceOK, Count

LEMMA AuditType ==
  ASSUME TraceOK, NEW r \in Runs, NEW o \in Objects, NEW a \in Actions, Audit(r, o, a)
  PROVE  audited' \in [Runs -> SUBSET (Objects \X Actions)]
  BY DEF TraceOK, Audit

LEMMA GotoType ==
  ASSUME PlaceOK, NEW r \in Runs, NEW label \in Labels, Goto(r, label)
  PROVE  PlaceOK'
  BY DEF PlaceOK, Goto

LEMMA PutType ==
  ASSUME StoreOK, NEW p \in Places, NEW o \in Objects, NEW v \in Versions, PutAs(p, o, v)
  PROVE  dst' \in [Places -> [Objects -> Versions]]
  BY DEF StoreOK, PutAs

LEMMA InvalidateType ==
  ASSUME StoreOK, NEW o \in Objects, Invalidate(o)
  PROVE  cache' \in [Objects -> Versions]
  BY ShareAssumption DEF StoreOK, Invalidate, Versions

LEMMA GiveUpType ==
  ASSUME TypeOK, NEW r \in Runs, NEW n \in Nat, GiveUp(r, n), UNCHANGED <<crashes, edits>>
  PROVE  /\ PlaceOK' /\ BoundsOK' /\ result' \in [Runs -> SUBSET (Objects \X Outcomes)]
         /\ audited' \in [Runs -> SUBSET (Objects \X Actions)]
  <1> USE TypeParts
  <1>1. cur[r] \in Objects /\ n + 1 \in Nat
    BY DEF WorkOK
  <1>2. result' \in [Runs -> SUBSET (Objects \X Outcomes)]
    BY <1>1, CountType DEF GiveUp, Outcomes
  <1>3. CASE Spend(n) /\ Audit(r, cur[r], "error") /\ Goto(r, "object")
    BY <1>1, <1>2, <1>3, SpendType, AuditType, GotoType DEF Actions, Labels
  <1>4. CASE Spend(n + 1) /\ UNCHANGED audited /\ Goto(r, "raised")
    BY <1>1, <1>2, <1>4, SpendType, GotoType DEF TraceOK, Labels
  <1> QED BY <1>3, <1>4 DEF GiveUp

LEMMA AttemptType ==
  ASSUME TypeOK, NEW r \in Runs, NEW n \in Nat, AttemptFailed(r, n), UNCHANGED <<crashes, edits>>
  PROVE  /\ PlaceOK' /\ BoundsOK' /\ result' \in [Runs -> SUBSET (Objects \X Outcomes)]
         /\ audited' \in [Runs -> SUBSET (Objects \X Actions)]
         /\ attempt' \in [Runs -> 1 .. MaxAttempts]
  <1> USE TypeParts
  <1>1. CASE attempt[r] < MaxAttempts /\ Retry(r, n) /\ UNCHANGED result
    <2>1. cur[r] \in Objects
      BY DEF WorkOK
    <2>2. attempt' \in [Runs -> 1 .. MaxAttempts]
      BY <1>1, ShareAssumption DEF Retry, WorkOK
    <2> QED
      BY <1>1, <2>1, <2>2, SpendType, AuditType, GotoType DEF Retry, TraceOK, Actions, Labels
  <1>2. CASE GiveUp(r, IF attempt[r] < MaxAttempts THEN n + 1 ELSE n) /\ UNCHANGED attempt
    <2>1. (IF attempt[r] < MaxAttempts THEN n + 1 ELSE n) \in Nat
      OBVIOUS
    <2> QED
      BY <1>2, <2>1, GiveUpType DEF WorkOK
  <1> QED BY <1>1, <1>2 DEF AttemptFailed

(* Every step keeps the types. *)
LEMMA NextType == TypeOK /\ [Next]_vars => TypeOK'
  <1> SUFFICES ASSUME TypeOK, [Next]_vars PROVE TypeOK'
    OBVIOUS
  <1> USE TypeParts
  <1>1. ASSUME NEW r \in Runs, NEW u \in Users, Start(r, u) PROVE TypeOK'
    <2>1. None \in [Objects -> Versions]
      BY ShareAssumption DEF None, Versions
    <2>2. WorkOK'
      BY <1>1, <2>1 DEF Start, Load, WorkOK, ShareOK
    <2>3. TraceOK'
      BY <1>1 DEF Start, TraceOK
    <2>4. PlaceOK'
      BY <1>1 DEF Start, PlaceOK, Goto, Labels
    <2> QED
      BY <1>1, <2>2, <2>3, <2>4, TypeFrame DEF Start
  <1>2. ASSUME NEW r \in Runs, Refuse(r) \/ Raises(r) PROVE TypeOK'
    <2>1. PlaceOK'
      BY <1>2, GotoType DEF Refuse, Raises, Labels
    <2>2. BoundsOK'
      BY <1>2, SpendType DEF Refuse, Raises
    <2> QED
      BY <1>2, <2>1, <2>2, TypeFrame DEF Refuse, Raises
  <1>3. ASSUME NEW r \in Runs, List(r) PROVE TypeOK'
    <2>1. \A o \in Objects : SrcStamp(src[o]) \in Versions
      BY StampType DEF StoreOK
    <2>2. WorkOK'
      BY <1>3, <2>1 DEF List, WorkOK, Present
    <2>3. PlaceOK'
      BY <1>3 DEF List, PlaceOK, Goto, Labels
    <2> QED
      BY <1>3, <2>2, <2>3, TypeFrame DEF List
  <1>4. ASSUME NEW r \in Runs, NEW o \in Objects, Filter(r, o) \/ Deny(r, o) PROVE TypeOK'
    <2>1. WorkOK'
      <3>1. todo' = [todo EXCEPT ![r] = @ \ {o}] /\ UNCHANGED <<listing, cur, bytes, copy, attempt, place>>
        BY <1>4 DEF Filter, Deny
      <3> QED BY <3>1 DEF WorkOK
    <2>2. result' \in [Runs -> SUBSET (Objects \X Outcomes)]
      BY <1>4, CountType DEF Filter, Deny, Outcomes, TraceOK
    <2>3. audited' \in [Runs -> SUBSET (Objects \X Actions)]
      BY <1>4, AuditType DEF Filter, Deny, Actions
    <2>4. TraceOK'
      BY <1>4, <2>2, <2>3 DEF Filter, Deny, TraceOK
    <2>5. PlaceOK'
      BY <1>4 DEF Filter, Deny, PlaceOK
    <2> QED
      BY <1>4, <2>1, <2>4, <2>5, TypeFrame DEF Filter, Deny
  <1>5. ASSUME NEW r \in Runs, NEW o \in Objects, Skip(r, o) PROVE TypeOK'
    <2>1. WorkOK'
      BY <1>5 DEF Skip, WorkOK
    <2>2. result' \in [Runs -> SUBSET (Objects \X Outcomes)]
      BY <1>5, CountType DEF Skip, Outcomes
    <2>3. audited' \in [Runs -> SUBSET (Objects \X Actions)]
      BY <1>5, AuditType DEF Skip, Actions
    <2>4. TraceOK'
      BY <1>5, <2>2, <2>3 DEF Skip, TraceOK
    <2>5. PlaceOK'
      BY <1>5 DEF Skip, PlaceOK
    <2>6. StoreOK'
      BY <1>5, InvalidateType DEF Skip, StoreOK
    <2> QED
      BY <1>5, <2>1, <2>4, <2>5, <2>6, TypeFrame DEF Skip
  <1>6. ASSUME NEW r \in Runs, NEW o \in Objects, Begin(r, o) PROVE TypeOK'
    <2>1. WorkOK'
      BY <1>6, ShareAssumption DEF Begin, WorkOK
    <2>2. PlaceOK'
      BY <1>6, GotoType DEF Begin, Labels
    <2> QED
      BY <1>6, <2>1, <2>2, TypeFrame DEF Begin
  <1>7. ASSUME NEW r \in Runs, Fetch(r) PROVE TypeOK'
    <2>1. WorkOK'
      BY <1>7 DEF Fetch, Get, WorkOK, StoreOK
    <2>2. PlaceOK'
      BY <1>7, GotoType DEF Fetch, Labels
    <2> QED
      BY <1>7, <2>1, <2>2, TypeFrame DEF Fetch
  <1>8. ASSUME NEW r \in Runs, Fill(r) PROVE TypeOK'
    <2>1. StoreOK'
      BY <1>8 DEF Fill, WorkOK, StoreOK
    <2>2. PlaceOK'
      BY <1>8, GotoType DEF Fill, Labels
    <2> QED
      BY <1>8, <2>1, <2>2, TypeFrame DEF Fill
  <1>9. ASSUME NEW r \in Runs, Put(r) PROVE TypeOK'
    <2>1. StoreOK'
      BY <1>9, PutType DEF Put, WorkOK, StoreOK
    <2>2. PlaceOK'
      BY <1>9, GotoType DEF Put, Labels
    <2>3. TraceOK'
      BY <1>9 DEF Put, TraceOK, WorkOK
    <2> QED
      BY <1>9, <2>1, <2>2, <2>3, TypeFrame DEF Put
  <1>10. ASSUME NEW r \in Runs, FetchFails(r) PROVE TypeOK'
    <2>1. AttemptFailed(r, 1) /\ UNCHANGED <<store, share, listing, todo, cur, bytes, copy, place, wrote, crashes, edits>>
      BY <1>10 DEF FetchFails
    <2>2. /\ PlaceOK' /\ BoundsOK' /\ result' \in [Runs -> SUBSET (Objects \X Outcomes)]
          /\ audited' \in [Runs -> SUBSET (Objects \X Actions)]
          /\ attempt' \in [Runs -> 1 .. MaxAttempts]
      BY <2>1, AttemptType
    <2>3. WorkOK' /\ TraceOK'
      BY <2>1, <2>2 DEF WorkOK, TraceOK
    <2> QED
      BY <2>1, <2>2, <2>3, TypeFrame
  <1>11. ASSUME NEW r \in Runs, PutFails(r) PROVE TypeOK'
    <2>1. PICK n \in {0, 1} : AttemptFailed(r, n)
      BY <1>11 DEF PutFails
    <2>2. UNCHANGED <<adapter, src, cache, fps, saved, share, listing, todo, cur, bytes, copy, place, crashes, edits>>
      BY <1>11 DEF PutFails
    <2>3. /\ PlaceOK' /\ BoundsOK' /\ result' \in [Runs -> SUBSET (Objects \X Outcomes)]
          /\ audited' \in [Runs -> SUBSET (Objects \X Actions)]
          /\ attempt' \in [Runs -> 1 .. MaxAttempts]
      BY <2>1, <2>2, AttemptType
    <2>4. PICK left \in PutLeaves(adapter.dst, dst[place[r]][cur[r]], 0, bytes[r]) :
            /\ PutAs(place[r], cur[r], left)
            /\ wrote' = [wrote EXCEPT ![r] = IF left = dst[place[r]][cur[r]] THEN @ ELSE @ \cup {cur[r]}]
      BY <1>11 DEF PutFails
    <2>5. left \in Versions
      BY <2>4, LeavesType, ShareAssumption DEF StoreOK, WorkOK
    <2>6. StoreOK'
      BY <2>2, <2>4, <2>5, PutType DEF StoreOK, WorkOK
    <2>7. WorkOK'
      BY <2>2, <2>3 DEF WorkOK
    <2>8. TraceOK'
      BY <2>3, <2>4 DEF TraceOK, WorkOK
    <2> QED
      BY <2>2, <2>3, <2>6, <2>7, <2>8, TypeFrame
  <1>12. ASSUME NEW r \in Runs, Settle(r) PROVE TypeOK'
    <2>1. result' \in [Runs -> SUBSET (Objects \X Outcomes)]
      BY <1>12, CountType DEF Settle, Outcomes, WorkOK
    <2>2. TraceOK'
      BY <1>12, <2>1 DEF Settle, TraceOK
    <2>3. StoreOK'
      <3>1. cache' \in [Objects -> Versions]
        BY <1>12, InvalidateType DEF Settle, WorkOK
      <3> QED
        BY <1>12, <3>1 DEF Settle, StoreOK
    <2>4. WorkOK'
      BY <1>12 DEF Settle, WorkOK, StoreOK
    <2>5. PlaceOK'
      BY <1>12, GotoType DEF Settle, Labels
    <2> QED
      BY <1>12, <2>2, <2>3, <2>4, <2>5, TypeFrame DEF Settle
  <1>13. ASSUME NEW r \in Runs, Record(r) \/ RecordFails(r) PROVE TypeOK'
    <2>1. Recorded(r) \in [Objects -> Versions]
      BY DEF Recorded, WorkOK
    <2>2. StoreOK'
      BY <1>13, <2>1 DEF Record, RecordFails, StoreOK
    <2>3. PlaceOK' /\ BoundsOK' /\ TraceOK'
      <3>1. CASE Record(r)
        BY <3>1, GotoType, TypeFrame DEF Record, Labels
      <3>2. CASE RecordFails(r)
        BY <3>2, GiveUpType DEF RecordFails, TraceOK
      <3> QED BY <1>13, <3>1, <3>2
    <2> QED
      BY <1>13, <2>2, <2>3, TypeFrame DEF Record, RecordFails
  <1>14. ASSUME NEW r \in Runs, Log(r) \/ LogFails(r) PROVE TypeOK'
    <2>1. PlaceOK' /\ BoundsOK' /\ TraceOK'
      <3>1. CASE Log(r)
        <4>1. audited' \in [Runs -> SUBSET (Objects \X Actions)]
          BY <3>1, AuditType DEF Log, Actions, WorkOK
        <4> QED
          BY <3>1, <4>1, GotoType, TypeFrame DEF Log, Labels, TraceOK
      <3>2. CASE LogFails(r)
        BY <3>2, GiveUpType DEF LogFails, TraceOK
      <3> QED BY <1>14, <3>1, <3>2
    <2> QED
      BY <1>14, <2>1, TypeFrame DEF Log, LogFails
  <1>15. ASSUME NEW r \in Runs, Finish(r) PROVE TypeOK'
    BY <1>15, GotoType, TypeFrame DEF Finish, Labels
  <1>16. ASSUME NEW o \in Objects, Update(o) \/ Expire(o) PROVE TypeOK'
    <2>1. StoreOK'
      <3>1. CASE Update(o)
        <4>1. src[o] + 1 \in Versions
          BY <3>1, ShareAssumption DEF Update, StoreOK, Versions
        <4> QED
          BY <3>1, <4>1 DEF Update, StoreOK
      <3>2. CASE Expire(o)
        BY <3>2, ShareAssumption DEF Expire, StoreOK, Versions
      <3> QED BY <1>16, <3>1, <3>2
    <2>2. PlaceOK'
      BY <1>16 DEF Update, Expire, PlaceOK
    <2> QED
      BY <1>16, <2>1, <2>2, TypeFrame DEF Update, Expire
  <1>17. CASE Kill
    <2>1. dst' \in [Places -> [Objects -> Versions]]
      <3>1. CASE UNCHANGED dst
        BY <3>1 DEF StoreOK
      <3>2. ASSUME NEW r \in Runs, NEW left \in PutLeaves(adapter.dst, dst[place[r]][cur[r]], 0, bytes[r]),
                   PutAs(place[r], cur[r], left)
            PROVE  dst' \in [Places -> [Objects -> Versions]]
        <4>1. left \in Versions
          BY <3>2, LeavesType, ShareAssumption DEF StoreOK, WorkOK
        <4> QED
          BY <3>2, <4>1, PutType DEF WorkOK
      <3> QED BY <1>17, <3>1, <3>2 DEF Kill
    <2>2. StoreOK'
      BY <1>17, <2>1, ShareAssumption DEF Kill, StoreOK, None, Versions
    <2>3. PlaceOK'
      BY <1>17 DEF Kill, PlaceOK, Labels
    <2>4. BoundsOK'
      BY <1>17, ShareAssumption DEF Kill, BoundsOK
    <2> QED
      BY <1>17, <2>2, <2>3, <2>4, TypeFrame DEF Kill
  <1>18. ASSUME DeleteShare \/ \E p \in Places : DefineShare(p) PROVE TypeOK'
    <2>1. share' \in [defined : BOOLEAN, place : Places]
      <3>1. CASE DeleteShare
        BY <3>1 DEF DeleteShare, ShareOK
      <3>2. CASE \E p \in Places : DefineShare(p)
        BY <3>2 DEF DefineShare, Definition
      <3> QED BY <1>18, <3>1, <3>2
    <2>2. BoundsOK'
      BY <1>18, ShareAssumption DEF DeleteShare, DefineShare, BoundsOK
    <2>3. PlaceOK'
      BY <1>18 DEF DeleteShare, DefineShare, PlaceOK
    <2> QED
      BY <1>18, <2>1, <2>2, <2>3, TypeFrame DEF DeleteShare, DefineShare, ShareOK
  <1>19. CASE UNCHANGED vars
    BY <1>19, TypeFrame DEF vars, PlaceOK
  <1> QED
    BY <1>1, <1>2, <1>3, <1>4, <1>5, <1>6, <1>7, <1>8, <1>9, <1>10, <1>11, <1>12, <1>13, <1>14, <1>15,
       <1>16, <1>17, <1>18, <1>19
    DEF Next, Advance

(* The account of a run, object by object. *)
Uploading == {"fetch", "fill", "put", "settle"}
Account(r, o) ==
  /\ listing[r][o] # 0 <=>
       \/ <<o, "filtered_out">> \in audited[r]
       \/ \E outcome \in Outcomes : <<o, outcome>> \in result[r]
       \/ pc[r] \in Uploading /\ o = cur[r]
       \/ o \in todo[r]
  /\ <<o, "filtered_out">> \in audited[r] =>
       /\ o \in Excluded /\ o \notin todo[r] /\ ~(pc[r] \in Uploading /\ o = cur[r])
       /\ \A outcome \in Outcomes : <<o, outcome>> \notin result[r]
  /\ o \in todo[r] =>
       /\ ~(pc[r] \in Uploading /\ o = cur[r])
       /\ \A outcome \in Outcomes : <<o, outcome>> \notin result[r]
  /\ pc[r] \in Uploading /\ o = cur[r] =>
       \A outcome \in Outcomes : <<o, outcome>> \notin result[r]
  /\ \A f, g \in Outcomes :
       f # g /\ <<o, f>> \in result[r] /\ <<o, g>> \in result[r] =>
         /\ {f, g} = {"transferred", "failed"}
         /\ o \in wrote[r] /\ <<o, "error">> \in audited[r] /\ <<o, "transfer">> \notin audited[r]

LEMMA AccountByObject ==
  ASSUME NEW r \in Runs, todo[r] \subseteq Objects, cur[r] \in Objects
  PROVE  AccountFor(r) <=> \A o \in Objects : Account(r, o)
  <1> DEFINE under(o) == pc[r] \in Uploading /\ o = cur[r]
             filtered(o) == <<o, "filtered_out">> \in audited[r]
             decided(o) == \E outcome \in Outcomes : <<o, outcome>> \in result[r]
  <1>1. \A o : o \in UnderWay(r) <=> o \in Objects /\ under(o)
    BY DEF UnderWay, Uploading
  <1>2. \A o : o \in Decided(r) <=> o \in Objects /\ decided(o)
    BY DEF Decided
  <1>20. \A o : o \in FilteredOut(r) <=> o \in Objects /\ filtered(o)
    BY DEF FilteredOut
  <1>3. Listed(r) = FilteredOut(r) \cup Decided(r) \cup UnderWay(r) \cup todo[r]
          <=> \A o \in Objects : listing[r][o] # 0 <=> filtered(o) \/ decided(o) \/ under(o) \/ o \in todo[r]
    <2> HIDE DEF under, decided, filtered
    <2> QED BY <1>1, <1>2, <1>20 DEF Listed
  <1>30. FilteredOut(r) \subseteq Excluded /\ FilteredOut(r) \cap (Decided(r) \cup UnderWay(r) \cup todo[r]) = {}
          <=> \A o \in Objects : filtered(o) =>
                o \in Excluded /\ o \notin todo[r] /\ ~under(o) /\ ~decided(o)
    <2>1. FilteredOut(r) \subseteq Excluded <=> \A o \in Objects : filtered(o) => o \in Excluded
      <3> HIDE DEF filtered
      <3> QED BY <1>20
    <2>2. FilteredOut(r) \cap (Decided(r) \cup UnderWay(r) \cup todo[r]) = {}
            <=> \A o \in Objects : filtered(o) => o \notin todo[r] /\ ~under(o) /\ ~decided(o)
      <3> HIDE DEF under, decided, filtered
      <3> QED BY <1>1, <1>2, <1>20
    <2> HIDE DEF under, decided, filtered
    <2> QED BY <2>1, <2>2
  <1>4. Decided(r) \cap (UnderWay(r) \cup todo[r]) = {} /\ UnderWay(r) \cap todo[r] = {}
          <=> \A o \in Objects : /\ o \in todo[r] => ~under(o) /\ ~decided(o)
                                 /\ under(o) => ~decided(o)
    <2> HIDE DEF under, decided
    <2> QED BY <1>1, <1>2
  <1>5. DisjointOutcomes(r) /\ In(r, "transferred") \cap In(r, "failed") \subseteq Unrecorded(r)
          <=> \A o \in Objects : \A f, g \in Outcomes :
                f # g /\ <<o, f>> \in result[r] /\ <<o, g>> \in result[r] =>
                  /\ {f, g} = {"transferred", "failed"}
                  /\ o \in wrote[r] /\ <<o, "error">> \in audited[r] /\ <<o, "transfer">> \notin audited[r]
    <2>1. DisjointOutcomes(r) <=> \A o \in Objects : \A f, g \in Outcomes :
            f # g /\ {f, g} # {"transferred", "failed"} => ~(<<o, f>> \in result[r] /\ <<o, g>> \in result[r])
      BY DEF DisjointOutcomes, In
    <2>2. In(r, "transferred") \cap In(r, "failed") \subseteq Unrecorded(r)
            <=> \A o \in Objects : <<o, "transferred">> \in result[r] /\ <<o, "failed">> \in result[r] =>
                  o \in wrote[r] /\ <<o, "error">> \in audited[r] /\ <<o, "transfer">> \notin audited[r]
      BY DEF In, Unrecorded
    <2>3. \A f, g : {f, g} = {"transferred", "failed"} =>
            (f = "transferred" /\ g = "failed") \/ (f = "failed" /\ g = "transferred")
            \/ f = g
      OBVIOUS
    <2> DEFINE both(o, f, g) == <<o, f>> \in result[r] /\ <<o, g>> \in result[r]
               unrecorded(o) ==
                 o \in wrote[r] /\ <<o, "error">> \in audited[r] /\ <<o, "transfer">> \notin audited[r]
               pair(f, g) == {f, g} = {"transferred", "failed"}
    <2>4. /\ \A f, g \in Outcomes : pair(f, g) /\ f # g =>
               (f = "transferred" /\ g = "failed") \/ (f = "failed" /\ g = "transferred")
          /\ "transferred" \in Outcomes /\ "failed" \in Outcomes /\ "transferred" # "failed"
      BY <2>3 DEF Outcomes
    <2>5. \A o, f, g : both(o, f, g) <=> both(o, g, f)
      OBVIOUS
    <2> HIDE DEF unrecorded, pair
    <2>6. (\A o \in Objects : both(o, "transferred", "failed") => unrecorded(o))
            <=> \A o \in Objects : \A f, g \in Outcomes : f # g /\ pair(f, g) /\ both(o, f, g) => unrecorded(o)
      <3>1. pair("transferred", "failed")
        BY DEF pair
      <3> HIDE DEF both
      <3> QED BY <2>4, <2>5, <3>1
    <2>7. DisjointOutcomes(r)
            <=> \A o \in Objects : \A f, g \in Outcomes : f # g /\ both(o, f, g) => pair(f, g)
      BY <2>1 DEF pair
    <2>8. In(r, "transferred") \cap In(r, "failed") \subseteq Unrecorded(r)
            <=> \A o \in Objects : both(o, "transferred", "failed") => unrecorded(o)
      BY <2>2 DEF unrecorded
    <2>9. DisjointOutcomes(r) /\ In(r, "transferred") \cap In(r, "failed") \subseteq Unrecorded(r)
            <=> \A o \in Objects : \A f, g \in Outcomes : f # g /\ both(o, f, g) => pair(f, g) /\ unrecorded(o)
      <3> HIDE DEF both
      <3> QED BY <2>6, <2>7, <2>8
    <2> QED BY <2>9 DEF pair, unrecorded
  <1> QED BY <1>3, <1>30, <1>4, <1>5 DEF AccountFor, Account

(* What holds of each run, besides: the trail says transfer only of what is  *)
(* counted as transferred, and an upload that is being recorded was written,  *)
(* is counted once and has no entry yet.                                      *)
Uploaded(r) ==
  /\ pc[r] \in {"settle", "record", "audit"} => cur[r] \in wrote[r]
  /\ pc[r] \in {"record", "audit"} =>
       /\ <<cur[r], "transferred">> \in result[r] /\ <<cur[r], "failed">> \notin result[r]
       /\ <<cur[r], "transfer">> \notin audited[r]
Traced(r) ==
  \A o \in Objects :
    o \in wrote[r] /\ ~(o = cur[r] /\ pc[r] \notin {"object", "finished"}) /\ pc[r] # "idle" =>
      <<o, "transfer">> \in audited[r] \/ <<o, "error">> \in audited[r]
RunInv(r) ==
  /\ pc[r] = "list" => result[r] = {} /\ wrote[r] = {} /\ audited[r] = {}
  /\ pc[r] \in Treating =>
       \A o \in Objects :
         Account(r, o) /\ (<<o, "transfer">> \in audited[r] => <<o, "transferred">> \in result[r])
  /\ Uploaded(r) /\ Traced(r)
ShareInv == TypeOK /\ \A r \in Runs : RunInv(r)

(* A step that does not touch what RunInv reads of a run keeps it. *)
seen(r) == <<pc[r], listing[r], todo[r], cur[r], result[r], wrote[r], audited[r]>>

LEMMA OtherRun ==
  ASSUME NEW r \in Runs, RunInv(r), UNCHANGED seen(r)
  PROVE  RunInv(r)'
  <1>1. /\ pc'[r] = pc[r] /\ listing'[r] = listing[r] /\ todo'[r] = todo[r] /\ cur'[r] = cur[r]
        /\ result'[r] = result[r] /\ wrote'[r] = wrote[r] /\ audited'[r] = audited[r]
    BY DEF seen
  <1>2. \A o \in Objects : Account(r, o)' <=> Account(r, o)
    BY <1>1 DEF Account
  <1>3. (Uploaded(r)' <=> Uploaded(r)) /\ (Traced(r)' <=> Traced(r))
    BY <1>1 DEF Uploaded, Traced
  <1> QED
    BY <1>1, <1>2, <1>3 DEF RunInv

(* Another run is not touched by what a run does. *)
LEMMA OneRun ==
  ASSUME ShareInv, TypeOK', NEW r \in Runs, \A q \in Runs \ {r} : UNCHANGED seen(q), RunInv(r)'
  PROVE  ShareInv'
  BY OtherRun DEF ShareInv

(* The steps of an upload, by what they do to the account of their run.      *)
(* Before the upload is counted, and through the retries:                     *)
LEMMA Moves ==
  ASSUME TypeOK, NEW r \in Runs, RunInv(r), pc[r] \in Uploading, pc'[r] \in Uploading,
         UNCHANGED <<listing[r], todo[r], cur[r], result[r]>>,
         wrote[r] \subseteq wrote'[r], wrote'[r] \subseteq wrote[r] \cup {cur[r]},
         audited'[r] = audited[r] \/ audited'[r] = audited[r] \cup {<<cur[r], "retry">>},
         pc'[r] = "settle" => cur[r] \in wrote'[r]
  PROVE  RunInv(r)'
  <1>1. Uploaded(r)' /\ pc'[r] # "list"
    BY DEF Uploaded, Uploading
  <1>2. Traced(r)'
    BY DEF RunInv, Traced, Uploading
  <1>3. ASSUME NEW o \in Objects
        PROVE  Account(r, o)' /\ (<<o, "transfer">> \in audited'[r] => <<o, "transferred">> \in result'[r])
    <2>1. Account(r, o) /\ (<<o, "transfer">> \in audited[r] => <<o, "transferred">> \in result[r])
      BY DEF RunInv, Treating, Uploading
    <2> QED
      BY <2>1 DEF Account
  <1> QED
    BY <1>1, <1>2, <1>3 DEF RunInv

(* An upload that is given up: it is under way, or it was counted already.   *)
LEMMA GivesUp ==
  ASSUME TypeOK, NEW r \in Runs, RunInv(r), pc[r] \in {"fetch", "put", "record", "audit"},
         UNCHANGED <<listing[r], todo[r], cur[r]>>,
         wrote[r] \subseteq wrote'[r], wrote'[r] \subseteq wrote[r] \cup {cur[r]},
         result'[r] = result[r] \cup {<<cur[r], "failed">>},
         \/ pc'[r] = "object" /\ audited'[r] = audited[r] \cup {<<cur[r], "error">>}
         \/ pc'[r] = "raised" /\ audited'[r] = audited[r]
  PROVE  RunInv(r)'
  <1>1. Uploaded(r)' /\ pc'[r] # "list"
    BY DEF Uploaded
  <1>2. Traced(r)'
    BY DEF RunInv, Traced, TypeOK
  <1>3. ASSUME pc'[r] = "object", NEW o \in Objects
        PROVE  Account(r, o)' /\ (<<o, "transfer">> \in audited'[r] => <<o, "transferred">> \in result'[r])
    <2> DEFINE x == cur[r]
    <2>1. Account(r, o) /\ (<<o, "transfer">> \in audited[r] => <<o, "transferred">> \in result[r])
      BY DEF RunInv, Treating
    <2>2. CASE o # x
      BY <1>3, <2>1, <2>2 DEF Account, Uploading
    <2>3. CASE o = x /\ pc[r] \in {"fetch", "put"}
      BY <1>3, <2>1, <2>3 DEF Account, Uploading, Outcomes
    <2>4. CASE o = x /\ pc[r] \in {"record", "audit"}
      BY <1>3, <2>1, <2>4 DEF Account, Uploading, Outcomes, RunInv, Uploaded
    <2> QED BY <2>2, <2>3, <2>4
  <1> QED
    BY <1>1, <1>2, <1>3 DEF RunInv, Treating

(* An object that is denied or skipped. *)
LEMMA LeavesOut ==
  ASSUME TypeOK, NEW r \in Runs, NEW o \in Objects, NEW f \in {"refused", "skipped"},
         NEW a \in {"policy_denied", "skip"},
         RunInv(r), pc[r] = "object", o \in todo[r], UNCHANGED <<pc[r], listing[r], cur[r], wrote[r]>>,
         todo'[r] = todo[r] \ {o}, result'[r] = result[r] \cup {<<o, f>>},
         audited'[r] = audited[r] \cup {<<o, a>>}
  PROVE  RunInv(r)'
  <1>1. Uploaded(r)' /\ pc'[r] # "list"
    BY DEF Uploaded
  <1>2. Traced(r)'
    BY DEF RunInv, Traced
  <1>3. ASSUME NEW x \in Objects
        PROVE  Account(r, x)' /\ (<<x, "transfer">> \in audited'[r] => <<x, "transferred">> \in result'[r])
    <2>1. Account(r, x) /\ (<<x, "transfer">> \in audited[r] => <<x, "transferred">> \in result[r])
      BY DEF RunInv, Treating
    <2>2. CASE x # o
      BY <2>1, <2>2 DEF Account, Uploading
    <2>3. CASE x = o
      BY <2>1, <2>3 DEF Account, Uploading, Outcomes
    <2> QED BY <2>2, <2>3
  <1> QED
    BY <1>1, <1>2, <1>3 DEF RunInv, Treating

(* An object that the filters exclude. *)
LEMMA FiltersOut ==
  ASSUME TypeOK, NEW r \in Runs, NEW o \in Excluded \cap Objects,
         RunInv(r), pc[r] = "object", o \in todo[r],
         UNCHANGED <<pc[r], listing[r], cur[r], result[r], wrote[r]>>,
         todo'[r] = todo[r] \ {o}, audited'[r] = audited[r] \cup {<<o, "filtered_out">>}
  PROVE  RunInv(r)'
  <1>1. Uploaded(r)' /\ pc'[r] # "list"
    BY DEF Uploaded
  <1>2. Traced(r)'
    BY DEF RunInv, Traced
  <1>3. ASSUME NEW x \in Objects
        PROVE  Account(r, x)' /\ (<<x, "transfer">> \in audited'[r] => <<x, "transferred">> \in result'[r])
    <2>1. Account(r, x) /\ (<<x, "transfer">> \in audited[r] => <<x, "transferred">> \in result[r])
      BY DEF RunInv, Treating
    <2>2. CASE x # o
      BY <2>1, <2>2 DEF Account, Uploading
    <2>3. CASE x = o
      BY <2>1, <2>3 DEF Account, Uploading, Outcomes
    <2> QED BY <2>2, <2>3
  <1> QED
    BY <1>1, <1>2, <1>3 DEF RunInv, Treating

(* The runs after any step. *)
LEMMA InitShareInv == Init => ShareInv
  <1>1. ASSUME Init, NEW r \in Runs PROVE RunInv(r)
    <2>1. pc[r] = "idle"
      BY <1>1 DEF Init
    <2> QED
      BY <2>1 DEF RunInv, Uploaded, Traced, Treating
  <1> QED
    BY <1>1, InitType DEF ShareInv

LEMMA NextShareInv == ShareInv /\ [Next]_vars => ShareInv'
  <1> SUFFICES ASSUME ShareInv, [Next]_vars PROVE ShareInv'
    OBVIOUS
  <1>0. TypeOK /\ TypeOK' /\ \A r \in Runs : RunInv(r)
    BY NextType DEF ShareInv
  <1> USE <1>0, OneRun
  <1>1. ASSUME NEW r \in Runs, NEW u \in Users, Start(r, u) PROVE ShareInv'
    <2>1. \A q \in Runs \ {r} : UNCHANGED seen(q)
      BY <1>1 DEF Start, Goto, seen, TypeOK
    <2>2. /\ pc'[r] \in {"list", "aborted"}
          /\ result'[r] = {} /\ wrote'[r] = {} /\ audited'[r] = {}
      BY <1>1 DEF Start, Goto, TypeOK
    <2>3. RunInv(r)'
      BY <2>2 DEF RunInv, Uploaded, Traced, Treating
    <2> QED BY <2>1, <2>3
  <1>2. ASSUME NEW r \in Runs, Refuse(r) \/ Raises(r) PROVE ShareInv'
    <2>1. \A q \in Runs \ {r} : UNCHANGED seen(q)
      BY <1>2 DEF Refuse, Raises, Goto, seen, work, trace, TypeOK
    <2>2. /\ pc[r] \in {"list", "object"} /\ pc'[r] \in {"aborted", "raised"}
          /\ UNCHANGED <<cur[r], wrote[r], audited[r]>>
      BY <1>2 DEF Refuse, Raises, At, Goto, work, trace, TypeOK
    <2>3. RunInv(r)'
      BY <2>2 DEF RunInv, Uploaded, Traced, Treating
    <2> QED BY <2>1, <2>3
  <1>3. ASSUME NEW r \in Runs, List(r) PROVE ShareInv'
    <2>1. \A q \in Runs \ {r} : UNCHANGED seen(q)
      BY <1>3 DEF List, Goto, seen, trace, TypeOK
    <2>2. /\ pc[r] = "list" /\ pc'[r] \in {"object", "aborted"} /\ todo'[r] = Present
          /\ result'[r] = result[r] /\ wrote'[r] = wrote[r] /\ audited'[r] = audited[r]
          /\ listing'[r] = [o \in Objects |-> SrcStamp(src[o])]
      BY <1>3 DEF List, At, Goto, trace, TypeOK
    <2>3. \A o \in Objects : listing'[r][o] # 0 <=> o \in todo'[r]
      BY <2>2, StampType DEF Present, TypeOK
    <2>4. result'[r] = {} /\ wrote'[r] = {} /\ audited'[r] = {}
      BY <2>2 DEF RunInv
    <2>5. RunInv(r)'
      BY <2>2, <2>3, <2>4 DEF RunInv, Uploaded, Traced, Treating, Account, Uploading
    <2> QED BY <2>1, <2>5
  <1>4. ASSUME NEW r \in Runs, NEW o \in Objects, Deny(r, o) \/ Skip(r, o) PROVE ShareInv'
    <2>1. \A q \in Runs \ {r} : UNCHANGED seen(q)
      BY <1>4 DEF Deny, Skip, Count, Audit, seen, TypeOK
    <2>2. /\ pc[r] = "object" /\ o \in todo[r] /\ todo'[r] = todo[r] \ {o}
          /\ UNCHANGED <<pc[r], listing[r], cur[r], wrote[r]>>
      BY <1>4 DEF Deny, Skip, At, TypeOK
    <2>3. PICK f \in {"refused", "skipped"}, a \in {"policy_denied", "skip"} :
            Count(r, f, o) /\ Audit(r, o, a)
      BY <1>4 DEF Deny, Skip
    <2>4. result'[r] = result[r] \cup {<<o, f>>} /\ audited'[r] = audited[r] \cup {<<o, a>>}
      BY <2>3 DEF Count, Audit, TypeOK
    <2> QED BY <2>1, <2>2, <2>4, LeavesOut
  <1>40. ASSUME NEW r \in Runs, NEW o \in Objects, Filter(r, o) PROVE ShareInv'
    <2>1. \A q \in Runs \ {r} : UNCHANGED seen(q)
      BY <1>40 DEF Filter, Audit, seen, TypeOK
    <2>2. /\ pc[r] = "object" /\ o \in todo[r] /\ o \in Excluded /\ todo'[r] = todo[r] \ {o}
          /\ UNCHANGED <<pc[r], listing[r], cur[r], result[r], wrote[r]>>
          /\ audited'[r] = audited[r] \cup {<<o, "filtered_out">>}
      BY <1>40 DEF Filter, Audit, At, TypeOK
    <2> QED BY <2>1, <2>2, FiltersOut
  <1>5. ASSUME NEW r \in Runs, NEW o \in Objects, Begin(r, o) PROVE ShareInv'
    <2>1. \A q \in Runs \ {r} : UNCHANGED seen(q)
      BY <1>5 DEF Begin, Goto, seen, trace, TypeOK
    <2>2. /\ pc[r] = "object" /\ pc'[r] = "fetch" /\ o \in todo[r] /\ todo'[r] = todo[r] \ {o}
          /\ cur'[r] = o /\ UNCHANGED <<listing[r], result[r], wrote[r], audited[r]>>
      BY <1>5 DEF Begin, At, Goto, trace, TypeOK
    <2>3. ASSUME NEW x \in Objects
          PROVE  Account(r, x)' /\ (<<x, "transfer">> \in audited'[r] => <<x, "transferred">> \in result'[r])
      <3>1. /\ Account(r, x) /\ (<<x, "transfer">> \in audited[r] => <<x, "transferred">> \in result[r])
        BY <2>2 DEF RunInv, Treating
      <3> QED BY <2>2, <3>1 DEF Account, Uploading
    <2>4. Traced(r)' /\ Uploaded(r)'
      BY <2>2 DEF RunInv, Traced, Uploaded
    <2>5. RunInv(r)'
      BY <2>2, <2>3, <2>4 DEF RunInv
    <2> QED BY <2>1, <2>5
  <1>6. ASSUME NEW r \in Runs, Fetch(r) \/ Fill(r) \/ Put(r) PROVE ShareInv'
    <2>1. \A q \in Runs \ {r} : UNCHANGED seen(q)
      BY <1>6 DEF Fetch, Fill, Put, Goto, seen, work, trace, TypeOK
    <2>2. /\ pc[r] \in Uploading /\ pc'[r] \in Uploading
          /\ UNCHANGED <<listing[r], todo[r], cur[r], result[r]>>
          /\ wrote[r] \subseteq wrote'[r] /\ wrote'[r] \subseteq wrote[r] \cup {cur[r]}
          /\ audited'[r] = audited[r] /\ (pc'[r] = "settle" => cur[r] \in wrote'[r])
      BY <1>6 DEF Fetch, Fill, Put, At, Goto, work, trace, TypeOK, Uploading
    <2> QED BY <2>1, <2>2, Moves
  <1>7. ASSUME NEW r \in Runs, FetchFails(r) \/ PutFails(r) PROVE ShareInv'
    <2>1. /\ \A q \in Runs \ {r} : wrote'[q] = wrote[q]
          /\ wrote[r] \subseteq wrote'[r] /\ wrote'[r] \subseteq wrote[r] \cup {cur[r]}
      BY <1>7 DEF FetchFails, PutFails, TypeOK
    <2>2. pc[r] \in {"fetch", "put"} /\ UNCHANGED <<listing, todo, cur>>
      BY <1>7 DEF FetchFails, PutFails, At
    <2>3. PICK n \in {0, 1} : AttemptFailed(r, n)
      BY <1>7 DEF FetchFails, PutFails
    <2>4. CASE Retry(r, n) /\ UNCHANGED result
      <3>1. pc'[r] = "fetch" /\ audited'[r] = audited[r] \cup {<<cur[r], "retry">>}
        BY <2>4 DEF Retry, Goto, Audit, TypeOK
      <3>2. \A q \in Runs \ {r} : UNCHANGED seen(q)
        BY <2>1, <2>2, <2>4 DEF Retry, Goto, Audit, seen, TypeOK
      <3> QED BY <2>1, <2>2, <2>4, <3>1, <3>2, Moves DEF Uploading
    <2>5. ASSUME NEW m \in Nat, GiveUp(r, m) PROVE ShareInv'
      <3>1. /\ result'[r] = result[r] \cup {<<cur[r], "failed">>}
            /\ \/ pc'[r] = "object" /\ audited'[r] = audited[r] \cup {<<cur[r], "error">>}
               \/ pc'[r] = "raised" /\ audited'[r] = audited[r]
        BY <2>5 DEF GiveUp, Count, Goto, Audit, TypeOK
      <3>2. \A q \in Runs \ {r} : UNCHANGED seen(q)
        BY <2>1, <2>2, <2>5 DEF GiveUp, Count, Goto, Audit, seen, TypeOK
      <3> QED BY <2>1, <2>2, <3>1, <3>2, GivesUp
    <2> QED BY <2>3, <2>4, <2>5 DEF AttemptFailed
  <1>8. ASSUME NEW r \in Runs, Settle(r) PROVE ShareInv'
    <2>1. \A q \in Runs \ {r} : UNCHANGED seen(q)
      BY <1>8 DEF Settle, Count, Goto, seen, TypeOK
    <2>2. /\ pc[r] = "settle" /\ pc'[r] = "record" /\ result'[r] = result[r] \cup {<<cur[r], "transferred">>}
          /\ UNCHANGED <<listing[r], todo[r], cur[r], wrote[r], audited[r]>>
      BY <1>8 DEF Settle, Count, At, Goto, TypeOK
    <2>3. ASSUME NEW x \in Objects
          PROVE  Account(r, x)' /\ (<<x, "transfer">> \in audited'[r] => <<x, "transferred">> \in result'[r])
      <3>1. Account(r, x) /\ (<<x, "transfer">> \in audited[r] => <<x, "transferred">> \in result[r])
        BY <2>2 DEF RunInv, Treating
      <3> QED BY <2>2, <3>1 DEF Account, Uploading, Outcomes
    <2>4. <<cur[r], "failed">> \notin result[r] /\ <<cur[r], "transferred">> \notin result[r]
      BY <2>2 DEF RunInv, Treating, Account, Uploading, Outcomes, TypeOK
    <2>5. <<cur[r], "transfer">> \notin audited[r]
      BY <2>2, <2>4 DEF RunInv, Treating, TypeOK
    <2>6. Uploaded(r)' /\ Traced(r)'
      BY <2>2, <2>4, <2>5 DEF RunInv, Uploaded, Traced
    <2>7. RunInv(r)'
      BY <2>2, <2>3, <2>6 DEF RunInv
    <2> QED BY <2>1, <2>7
  <1>9. ASSUME NEW r \in Runs, Record(r) PROVE ShareInv'
    <2>1. \A q \in Runs \ {r} : UNCHANGED seen(q)
      BY <1>9 DEF Record, Goto, seen, work, trace, TypeOK
    <2>2. /\ pc[r] = "record" /\ pc'[r] = "audit"
          /\ UNCHANGED <<listing[r], todo[r], cur[r], result[r], wrote[r], audited[r]>>
      BY <1>9 DEF Record, At, Goto, work, trace, TypeOK
    <2>3. \A x \in Objects : Account(r, x) => Account(r, x)'
      BY <2>2 DEF Account, Uploading
    <2>4. Uploaded(r)' /\ Traced(r)'
      BY <2>2 DEF RunInv, Uploaded, Traced
    <2>5. RunInv(r)'
      BY <2>2, <2>3, <2>4 DEF RunInv, Treating
    <2> QED BY <2>1, <2>5
  <1>10. ASSUME NEW r \in Runs, RecordFails(r) \/ LogFails(r) PROVE ShareInv'
    <2>1. pc[r] \in {"record", "audit"} /\ GiveUp(r, 1) /\ UNCHANGED <<listing, todo, cur, wrote>>
      BY <1>10 DEF RecordFails, LogFails, At, work
    <2>2. /\ result'[r] = result[r] \cup {<<cur[r], "failed">>}
          /\ \/ pc'[r] = "object" /\ audited'[r] = audited[r] \cup {<<cur[r], "error">>}
             \/ pc'[r] = "raised" /\ audited'[r] = audited[r]
      BY <2>1 DEF GiveUp, Count, Goto, Audit, TypeOK
    <2>3. \A q \in Runs \ {r} : UNCHANGED seen(q)
      BY <2>1 DEF GiveUp, Count, Goto, Audit, seen, TypeOK
    <2> QED BY <2>1, <2>2, <2>3, GivesUp
  <1>11. ASSUME NEW r \in Runs, Log(r) PROVE ShareInv'
    <2>1. \A q \in Runs \ {r} : UNCHANGED seen(q)
      BY <1>11 DEF Log, Audit, Goto, seen, work, TypeOK
    <2>2. /\ pc[r] = "audit" /\ pc'[r] = "object" /\ audited'[r] = audited[r] \cup {<<cur[r], "transfer">>}
          /\ UNCHANGED <<listing[r], todo[r], cur[r], result[r], wrote[r]>>
      BY <1>11 DEF Log, Audit, At, Goto, work, TypeOK
    <2>3. <<cur[r], "transferred">> \in result[r] /\ <<cur[r], "failed">> \notin result[r]
      BY <2>2 DEF RunInv, Uploaded
    <2>4. ASSUME NEW x \in Objects
          PROVE  Account(r, x)' /\ (<<x, "transfer">> \in audited'[r] => <<x, "transferred">> \in result'[r])
      <3>1. Account(r, x) /\ (<<x, "transfer">> \in audited[r] => <<x, "transferred">> \in result[r])
        BY <2>2 DEF RunInv, Treating
      <3> QED BY <2>2, <2>3, <3>1 DEF Account, Uploading, Outcomes
    <2>5. Uploaded(r)' /\ Traced(r)'
      BY <2>2 DEF RunInv, Uploaded, Traced
    <2>6. RunInv(r)'
      BY <2>2, <2>4, <2>5 DEF RunInv
    <2> QED BY <2>1, <2>6
  <1>12. ASSUME NEW r \in Runs, Finish(r) PROVE ShareInv'
    <2>1. \A q \in Runs \ {r} : UNCHANGED seen(q)
      BY <1>12 DEF Finish, Goto, seen, work, trace, TypeOK
    <2>2. /\ pc[r] = "object" /\ pc'[r] = "finished"
          /\ UNCHANGED <<listing[r], todo[r], cur[r], result[r], wrote[r], audited[r]>>
      BY <1>12 DEF Finish, At, Goto, work, trace, TypeOK
    <2>3. \A x \in Objects : Account(r, x) => Account(r, x)'
      BY <2>2 DEF Account, Uploading
    <2>4. Uploaded(r)' /\ Traced(r)'
      BY <2>2 DEF RunInv, Uploaded, Traced
    <2>5. RunInv(r)'
      BY <2>2, <2>3, <2>4 DEF RunInv, Treating
    <2> QED BY <2>1, <2>5
  <1>13. CASE Kill
    <2>1. \A r \in Runs : pc'[r] = "idle"
      BY <1>13 DEF Kill
    <2> QED
      BY <2>1 DEF ShareInv, RunInv, Uploaded, Traced, Treating
  <1>14. CASE \A r \in Runs : UNCHANGED seen(r)
    BY <1>14, OtherRun DEF ShareInv
  <1>15. (\E o \in Objects : Update(o) \/ Expire(o)) \/ DeleteShare \/ (\E p \in Places : DefineShare(p))
           \/ UNCHANGED vars => \A r \in Runs : UNCHANGED seen(r)
    BY DEF Update, Expire, DeleteShare, DefineShare, vars, work, trace, seen
  <1> QED
    BY <1>1, <1>2, <1>3, <1>4, <1>40, <1>5, <1>6, <1>7, <1>8, <1>9, <1>10, <1>11, <1>12, <1>13, <1>14, <1>15
    DEF Next, Advance

THEOREM ShareSafety == Spec => []ShareInv
  BY InitShareInv, NextShareInv, PTL DEF Spec

(* The types of the share run, whatever kinds its two adapters are of. *)
THEOREM ShareTypes == Spec => []TypeOK
  BY ShareSafety, PTL DEF ShareInv

(* Every object that a run listed is in exactly one place: still to come,     *)
(* under way, in one field of the result (in two, when an upload could not be *)
(* recorded), or excluded by the filters with no more than an audit entry.    *)
THEOREM NothingIsLost == Spec => []Accounted
  <1>1. ShareInv => Accounted
    <2> SUFFICES ASSUME ShareInv, NEW r \in Runs, pc[r] \in Treating PROVE AccountFor(r)
      BY DEF Accounted
    <2>1. \A o \in Objects : Account(r, o)
      BY DEF ShareInv, RunInv
    <2>2. todo[r] \subseteq Objects /\ cur[r] \in Objects
      BY DEF ShareInv, TypeOK
    <2> QED BY <2>1, <2>2, AccountByObject
  <1> QED BY <1>1, ShareSafety, PTL

(* No write to a destination is missing from the audit trail once the run     *)
(* has left the object.                                                       *)
THEOREM NoSilentWrite == Spec => []WritesAreAudited
  <1>1. ShareInv => WritesAreAudited
    BY DEF ShareInv, RunInv, Traced, WritesAreAudited
  <1> QED BY <1>1, ShareSafety, PTL
-----------------------------------------------------------------------------
(* What the incremental skip needs to be right: runs of the share exclude     *)
(* each other, it keeps its destination, the cache is invalidated under the   *)
(* names of its entries, times of modification are not compared, and no       *)
(* upload fails (but for one to a read-only adapter).                          *)
OneAtATime ==
  /\ MaxActive = 1 /\ NameIsKind /\ ~PutMayFail
  /\ \A p, q \in Places : p = q
  /\ Incremental = "mtime" => Transforms

Alone == \A r, q \in Active : r = q

(* Fingerprints recorded and listed are of versions the source has had. *)
Fresh ==
  \A o \in Objects :
    /\ saved[o] <= fps[o] /\ fps[o] <= SrcStamp(src[o])
    /\ \A r \in Runs : listing[r][o] <= SrcStamp(src[o])

(* The destination is as new as the fingerprint says, or the source has      *)
(* moved on, so that the next listing differs from the fingerprint.           *)
Backed ==
  \A o \in Objects, p \in Places :
    fps[o] <= SrcStamp(dst[p][o]) \/ fps[o] < SrcStamp(src[o])

(* Bytes are cached only from their fetch to the end of their upload. *)
Cached ==
  Writable(adapter.dst) =>
    \A o \in Objects : cache[o] # 0 => \E r \in Runs : pc[r] \in {"put", "settle"} /\ cur[r] = o

(* The object of a run on its way. *)
Carried(r) ==
  LET o == cur[r] IN
  /\ pc[r] \in {"fetch", "fill", "put", "settle", "record"} => fps[o] < listing[r][o]
  /\ pc[r] \in {"fill", "put"} /\ Writable(adapter.dst) => listing[r][o] <= SrcStamp(bytes[r])
  /\ pc[r] \in {"settle", "record", "audit"} =>
       \A p \in Places : listing[r][o] <= SrcStamp(dst[p][o])
  /\ pc[r] = "record" => copy[r] = fps

(* The objects a run has still to treat: as Backed, for what it listed. *)
Awaited(r) ==
  pc[r] \notin Resting \cup {"list"} =>
    \A o \in todo[r], p \in Places :
      fps[o] <= listing[r][o] /\ (fps[o] <= SrcStamp(dst[p][o]) \/ fps[o] < listing[r][o])

SyncInv ==
  TypeOK /\ Alone /\ Fresh /\ Backed /\ Cached /\ \A r \in Runs : Carried(r) /\ Awaited(r)

LEMMA StampGrows ==
  ASSUME TypeOK, NEW v \in Versions, NEW w \in Versions, v <= w
  PROVE  SrcStamp(v) <= SrcStamp(w)
  BY ShareAssumption
  DEF TypeOK, SrcStamp, Stamp, Kinds, LocalStat, S3Stat, AzureStat, SftpStat, MysqlStat, Versions

LEMMA InitSync == Init => SyncInv
<1> SUFFICES ASSUME Init PROVE SyncInv
  OBVIOUS
<1>1. TypeOK
  BY InitType
<1>2. \A v \in Versions : SrcStamp(v) \in Nat
  BY <1>1, StampType DEF Versions
<1>3. 0 \in Versions /\ \A o \in Objects : None[o] = 0 /\ src[o] \in Versions
  BY <1>1, ShareAssumption DEF Versions, None, TypeOK
<1>4. Fresh
  BY <1>2, <1>3 DEF Init, Fresh
<1>5. Backed
  BY <1>2, <1>3 DEF Init, Backed
<1>6. Cached
  BY <1>3 DEF Init, Cached
<1>7. \A r \in Runs : Carried(r) /\ Awaited(r) /\ r \notin Active
  BY DEF Init, Carried, Awaited, Active, Resting
<1> QED BY <1>1, <1>4, <1>5, <1>6, <1>7 DEF SyncInv, Alone, Active

(* While a run works, all others rest. *)
LEMMA OthersRest ==
  ASSUME SyncInv, NEW r \in Runs, pc[r] \notin Resting, NEW q \in Runs, q # r
  PROVE  pc[q] \in Resting
  BY DEF SyncInv, Alone, Active

(* So a step of a run is right if it is right for that run. *)
LEMMA StepOfRun ==
  ASSUME SyncInv, TypeOK', NEW r \in Runs, pc[r] \notin Resting, NEW label, Goto(r, label),
         Fresh', Backed', Cached', Carried(r)', Awaited(r)'
  PROVE  SyncInv'
<1>1. \A q \in Runs : q # r => pc'[q] = pc[q] /\ pc[q] \in Resting
  BY OthersRest DEF Goto, SyncInv, TypeOK
<1>2. Alone'
  BY <1>1 DEF Alone, Active
<1>3. ASSUME NEW q \in Runs, q # r PROVE Carried(q)' /\ Awaited(q)'
  BY <1>1, <1>3 DEF Carried, Awaited, Resting
<1> QED BY <1>2, <1>3 DEF SyncInv

LEMMA StepInPlace ==
  ASSUME SyncInv, TypeOK', NEW r \in Runs, pc[r] \notin Resting, UNCHANGED pc,
         Fresh', Backed', Cached', Carried(r)', Awaited(r)'
  PROVE  SyncInv'
<1>1. Goto(r, pc[r])
  BY DEF Goto, SyncInv, TypeOK
<1> QED BY <1>1, StepOfRun

(* Only the run at work has anything in the cache. *)
LEMMA OwnCache ==
  ASSUME SyncInv, NEW r \in Runs, pc[r] \notin Resting, Writable(adapter.dst)
  PROVE  \A o \in Objects : cache[o] # 0 => pc[r] \in {"put", "settle"} /\ cur[r] = o
<1>1. \A q \in Runs : q # r => pc[q] \notin {"put", "settle"}
  BY OthersRest DEF Resting
<1> QED BY <1>1 DEF SyncInv, Cached

(* Steps that move a run on and leave the objects alone. *)
LEMMA FreshKept ==
  ASSUME Fresh, UNCHANGED adapter, UNCHANGED src, UNCHANGED fps, UNCHANGED saved, UNCHANGED listing
  PROVE  Fresh'
  BY DEF Fresh, SrcStamp

LEMMA BackedKept ==
  ASSUME Backed, UNCHANGED adapter, UNCHANGED src, UNCHANGED dst, UNCHANGED fps
  PROVE  Backed'
  BY DEF Backed, SrcStamp

LEMMA EmptyCacheKept ==
  ASSUME SyncInv, NEW r \in Runs, pc[r] \notin Resting \cup {"put", "settle"},
         UNCHANGED adapter, UNCHANGED cache
  PROVE  Cached'
  BY OwnCache DEF Cached

LEMMA AwaitedKept ==
  ASSUME SyncInv, NEW r \in Runs, pc[r] \notin Resting \cup {"list"},
         UNCHANGED adapter, UNCHANGED dst, UNCHANGED fps, UNCHANGED listing,
         todo'[r] \subseteq todo[r]
  PROVE  Awaited(r)'
<1>1. Awaited(r)
  BY DEF SyncInv
<1> QED BY <1>1 DEF Awaited, SrcStamp

LEMMA LeaveObject ==
  ASSUME SyncInv, TypeOK', NEW r \in Runs, pc[r] \notin Resting \cup {"put", "settle"},
         NEW label \in {"object", "finished", "aborted", "raised"}, Goto(r, label),
         label = "object" => pc[r] # "list",
         UNCHANGED <<store, listing, todo>>
  PROVE  SyncInv'
<1>1. /\ UNCHANGED adapter /\ UNCHANGED src /\ UNCHANGED dst
      /\ UNCHANGED cache /\ UNCHANGED fps /\ UNCHANGED saved /\ UNCHANGED listing
  BY DEF store
<1>2. Fresh' /\ Backed' /\ Cached'
  BY <1>1, FreshKept, BackedKept, EmptyCacheKept DEF SyncInv
<1>3. pc'[r] = label
  BY DEF Goto, SyncInv, TypeOK
<1>4. Carried(r)'
  BY <1>3 DEF Carried
<1>5. Awaited(r)'
  <2>1. CASE pc[r] = "list"
    BY <1>3, <2>1 DEF Awaited, Resting
  <2>2. CASE pc[r] # "list"
    BY <1>1, <2>2, AwaitedKept
  <2> QED BY <2>1, <2>2
<1> QED BY <1>2, <1>4, <1>5, StepOfRun

LEMMA GiveUpLeaves ==
  ASSUME NEW r, NEW n, GiveUp(r, n)
  PROVE  \E label \in {"object", "raised"} : Goto(r, label)
  BY DEF GiveUp

LEMMA AttemptLeaves ==
  ASSUME NEW r, NEW n, AttemptFailed(r, n)
  PROVE  \E label \in {"fetch", "object", "raised"} : Goto(r, label)
  BY GiveUpLeaves DEF AttemptFailed, Retry

LEMMA StartSync ==
  ASSUME SyncInv, TypeOK', OneAtATime, NEW r \in Runs, NEW u \in Users, Start(r, u)
  PROVE  SyncInv'
<1>1. /\ UNCHANGED adapter /\ UNCHANGED src /\ UNCHANGED dst /\ UNCHANGED cache
      /\ UNCHANGED fps /\ UNCHANGED saved /\ UNCHANGED cur /\ UNCHANGED bytes
      /\ listing' = [listing EXCEPT ![r] = None]
      /\ \E label \in {"list", "aborted"} : Goto(r, label)
      /\ pc[r] \in Resting /\ Cardinality(Active) < 1
  BY DEF Start, store, OneAtATime
<1>2. Active = {}
  <2>1. SUFFICES ASSUME NEW q \in Active PROVE FALSE
    OBVIOUS
  <2>2. Active = {q}
    BY DEF SyncInv, Alone
  <2>3. Cardinality({q}) = 1
    BY FS_Singleton
  <2> QED BY <1>1, <2>2, <2>3
<1>3. \A q \in Runs : /\ pc[q] \in Resting
                      /\ pc'[q] = pc[q] \/ (q = r /\ pc'[q] \in {"list", "aborted"})
  BY <1>1, <1>2 DEF Active, Goto, SyncInv, TypeOK
<1>4. Alone' /\ \A q \in Runs : Carried(q)' /\ Awaited(q)'
  BY <1>3 DEF Alone, Active, Carried, Awaited, Resting
<1>5. Fresh'
  <2>1. ASSUME NEW o \in Objects
        PROVE  /\ saved[o] <= fps[o] /\ fps[o] <= SrcStamp(src[o])
               /\ \A q \in Runs : listing'[q][o] <= SrcStamp(src[o])
    <3>1. listing'[r] = None /\ \A q \in Runs : q # r => listing'[q] = listing[q]
      BY <1>1 DEF SyncInv, TypeOK
    <3>2. src[o] \in Versions /\ None[o] = 0
      BY DEF SyncInv, TypeOK, None
    <3>3. SrcStamp(src[o]) \in Nat
      BY <3>2, StampType DEF SyncInv, Versions
    <3> QED BY <3>1, <3>2, <3>3 DEF SyncInv, Fresh
  <2> QED BY <1>1, <2>1 DEF Fresh, SrcStamp
<1>6. Backed'
  BY <1>1, BackedKept DEF SyncInv
<1>7. Cached'
  BY <1>1, <1>3 DEF SyncInv, Cached, Resting
<1> QED BY <1>4, <1>5, <1>6, <1>7 DEF SyncInv

LEMMA ListSync ==
  ASSUME SyncInv, TypeOK', NEW r \in Runs, List(r)
  PROVE  SyncInv'
<1>1. /\ UNCHANGED adapter /\ UNCHANGED src /\ UNCHANGED dst /\ UNCHANGED cache
      /\ UNCHANGED fps /\ UNCHANGED saved
      /\ listing' = [listing EXCEPT ![r] = [o \in Objects |-> SrcStamp(src[o])]]
      /\ todo' = [todo EXCEPT ![r] = Present]
      /\ pc[r] = "list" /\ \E label \in {"aborted", "object"} : Goto(r, label)
  BY DEF List, store, At
<1>2. pc[r] \notin Resting \cup {"put", "settle"}
  BY <1>1 DEF Resting
<1>3. Fresh'
  <2>1. ASSUME NEW o \in Objects
        PROVE  /\ saved[o] <= fps[o] /\ fps[o] <= SrcStamp(src[o])
               /\ \A q \in Runs : listing'[q][o] <= SrcStamp(src[o])
    <3>1. listing'[r][o] = SrcStamp(src[o]) /\ \A q \in Runs : q # r => listing'[q] = listing[q]
      BY <1>1 DEF SyncInv, TypeOK
    <3>2. src[o] \in Versions
      BY DEF SyncInv, TypeOK
    <3>3. SrcStamp(src[o]) \in Nat
      BY <3>2, StampType DEF SyncInv, Versions
    <3> QED BY <3>1, <3>3 DEF SyncInv, Fresh
  <2> QED BY <1>1, <2>1 DEF Fresh, SrcStamp
<1>4. Backed' /\ Cached'
  BY <1>1, <1>2, BackedKept, EmptyCacheKept DEF SyncInv
<1>5. Carried(r)'
  BY <1>1 DEF Carried, Goto, SyncInv, TypeOK
<1>6. Awaited(r)'
  <2>1. ASSUME NEW o \in Present, NEW p \in Places
        PROVE  /\ fps[o] <= listing'[r][o]
               /\ fps[o] <= SrcStamp(dst[p][o]) \/ fps[o] < listing'[r][o]
    <3>1. o \in Objects /\ listing'[r][o] = SrcStamp(src[o])
      BY <1>1 DEF Present, SyncInv, TypeOK
    <3> QED BY <3>1 DEF SyncInv, Fresh, Backed
  <2>2. todo'[r] = Present
    BY <1>1 DEF SyncInv, TypeOK
  <2> QED BY <1>1, <2>1, <2>2 DEF Awaited, SrcStamp
<1> QED BY <1>1, <1>2, <1>3, <1>4, <1>5, <1>6, StepOfRun

LEMMA InvalidateEmpties ==
  ASSUME SyncInv, OneAtATime, NEW r \in Runs, pc[r] \notin Resting, Invalidate(cur[r]),
         UNCHANGED adapter
  PROVE  Cached'
<1>1. cache' = [cache EXCEPT ![cur[r]] = 0] /\ cur[r] \in Objects
  BY DEF Invalidate, OneAtATime, SyncInv, TypeOK
<1>2. Writable(adapter.dst) => \A o \in Objects : cache'[o] = 0
  BY <1>1, OwnCache DEF SyncInv, TypeOK
<1> QED BY <1>2 DEF Cached

LEMMA SkipSync ==
  ASSUME SyncInv, TypeOK', OneAtATime, NEW r \in Runs, NEW o \in Objects, Skip(r, o)
  PROVE  SyncInv'
<1>1. /\ UNCHANGED adapter /\ UNCHANGED src /\ UNCHANGED dst /\ UNCHANGED pc
      /\ UNCHANGED fps /\ UNCHANGED saved /\ UNCHANGED listing
      /\ pc[r] = "object" /\ cache' = [cache EXCEPT ![o] = 0]
      /\ todo' = [todo EXCEPT ![r] = @ \ {o}]
  BY DEF Skip, At, Invalidate, OneAtATime
<1>2. pc[r] \notin Resting \cup {"put", "settle"}
  BY <1>1 DEF Resting
<1>3. Fresh' /\ Backed'
  BY <1>1, FreshKept, BackedKept DEF SyncInv
<1>4. Cached'
  <2>1. Writable(adapter.dst) => \A x \in Objects : cache'[x] = 0
    <3>1. Writable(adapter.dst) => \A x \in Objects : cache[x] = 0
      BY <1>2, OwnCache
    <3> QED BY <1>1, <3>1 DEF SyncInv, TypeOK
  <2> QED BY <1>1, <2>1 DEF Cached
<1>5. Carried(r)'
  BY <1>1 DEF Carried
<1>6. Awaited(r)'
  <2>1. pc[r] \notin Resting \cup {"list"} /\ todo'[r] \subseteq todo[r]
    BY <1>1 DEF Resting, SyncInv, TypeOK
  <2> QED BY <1>1, <2>1, AwaitedKept
<1> QED BY <1>1, <1>2, <1>3, <1>4, <1>5, <1>6, StepInPlace

(* What has to be transferred differs from its fingerprint. *)
LEMMA BeginSync ==
  ASSUME SyncInv, TypeOK', Incremental # "none", NEW r \in Runs, NEW o \in Objects, Begin(r, o)
  PROVE  SyncInv'
<1>1. /\ UNCHANGED adapter /\ UNCHANGED src /\ UNCHANGED dst /\ UNCHANGED cache
      /\ UNCHANGED fps /\ UNCHANGED saved /\ UNCHANGED listing
      /\ pc[r] = "object" /\ o \in todo[r] /\ fps[o] # listing[r][o]
      /\ Goto(r, "fetch") /\ cur' = [cur EXCEPT ![r] = o]
      /\ todo' = [todo EXCEPT ![r] = @ \ {o}]
  BY DEF Begin, At, store, Unchanged
<1>2. /\ pc[r] \notin Resting \cup {"put", "settle", "list"} /\ todo'[r] \subseteq todo[r]
      /\ pc'[r] = "fetch" /\ cur'[r] = o
  BY <1>1 DEF Resting, Goto, SyncInv, TypeOK
<1>3. Fresh' /\ Backed' /\ Cached' /\ Awaited(r)'
  BY <1>1, <1>2, FreshKept, BackedKept, EmptyCacheKept, AwaitedKept DEF SyncInv
<1>4. fps[o] < listing[r][o]
  <2>1. Awaited(r) /\ fps[o] \in Nat /\ listing[r][o] \in Nat
    BY DEF SyncInv, TypeOK, Versions
  <2>2. fps[o] <= listing[r][o]
    BY <1>1, <1>2, <2>1, ShareAssumption DEF Awaited, SyncInv, TypeOK
  <2> QED BY <1>1, <2>1, <2>2
<1>5. Carried(r)'
  BY <1>1, <1>2, <1>4 DEF Carried
<1> QED BY <1>1, <1>2, <1>3, <1>5, StepOfRun

(* A failed fetch leads to the next attempt, or away from the object. *)
LEMMA FetchFailsSync ==
  ASSUME SyncInv, TypeOK', NEW r \in Runs, FetchFails(r)
  PROVE  SyncInv'
<1>1. /\ UNCHANGED adapter /\ UNCHANGED src /\ UNCHANGED dst /\ UNCHANGED cache /\ UNCHANGED cur
      /\ UNCHANGED fps /\ UNCHANGED saved /\ UNCHANGED listing /\ UNCHANGED todo
      /\ pc[r] = "fetch" /\ \E label \in {"fetch", "object", "raised"} : Goto(r, label)
  BY AttemptLeaves DEF FetchFails, store, At
<1>2. /\ pc[r] \notin Resting \cup {"put", "settle", "list"}
      /\ pc'[r] \in {"fetch", "object", "raised"}
  BY <1>1 DEF Resting, Goto, SyncInv, TypeOK
<1>3. Fresh' /\ Backed' /\ Cached' /\ Awaited(r)'
  BY <1>1, <1>2, FreshKept, BackedKept, EmptyCacheKept, AwaitedKept DEF SyncInv
<1>4. Carried(r)'
  <2>1. Carried(r)
    BY DEF SyncInv
  <2> QED BY <1>1, <1>2, <2>1 DEF Carried
<1> QED BY <1>1, <1>2, <1>3, <1>4, StepOfRun

(* Bytes fetched under no cache entry are those of the source. *)
LEMMA FetchSync ==
  ASSUME SyncInv, TypeOK', NEW r \in Runs, Fetch(r)
  PROVE  SyncInv'
<1> DEFINE o == cur[r]
<1>1. /\ UNCHANGED adapter /\ UNCHANGED src /\ UNCHANGED dst /\ UNCHANGED cache /\ UNCHANGED cur
      /\ UNCHANGED fps /\ UNCHANGED saved /\ UNCHANGED listing /\ UNCHANGED todo
      /\ pc[r] = "fetch" /\ \E label \in {"put", "fill"} : Goto(r, label)
  BY DEF Fetch, store, At
<1>2. pc[r] \notin Resting \cup {"put", "settle", "list"} /\ o \in Objects
  BY <1>1 DEF Resting, SyncInv, TypeOK
<1>3. Fresh' /\ Backed' /\ Cached' /\ Awaited(r)'
  BY <1>1, <1>2, FreshKept, BackedKept, EmptyCacheKept, AwaitedKept DEF SyncInv
<1>4. Writable(adapter.dst) => bytes'[r] = src[o]
  <2>1. SUFFICES ASSUME Writable(adapter.dst) PROVE bytes'[r] = src[o]
    OBVIOUS
  <2>2. cache[o] = 0
    BY <1>2, <2>1, OwnCache
  <2> QED BY <2>2 DEF Fetch, Get, SyncInv, TypeOK
<1>5. listing[r][o] <= SrcStamp(src[o]) /\ fps[o] < listing[r][o]
  BY <1>1, <1>2 DEF SyncInv, Fresh, Carried
<1>6. pc'[r] \in {"put", "fill"}
  BY <1>1 DEF Goto, SyncInv, TypeOK
<1>7. Carried(r)'
  BY <1>1, <1>4, <1>5, <1>6 DEF Carried, SrcStamp
<1> QED BY <1>1, <1>2, <1>3, <1>7, StepOfRun

LEMMA FillSync ==
  ASSUME SyncInv, TypeOK', NEW r \in Runs, Fill(r)
  PROVE  SyncInv'
<1>1. /\ UNCHANGED adapter /\ UNCHANGED src /\ UNCHANGED dst /\ UNCHANGED cur /\ UNCHANGED bytes
      /\ UNCHANGED fps /\ UNCHANGED saved /\ UNCHANGED listing /\ UNCHANGED todo
      /\ pc[r] = "fill" /\ Goto(r, "put") /\ cache' = [cache EXCEPT ![cur[r]] = bytes[r]]
  BY DEF Fill, work, At
<1>2. /\ pc[r] \notin Resting \cup {"put", "settle", "list"} /\ cur[r] \in Objects
      /\ pc'[r] = "put"
  BY <1>1 DEF Resting, Goto, SyncInv, TypeOK
<1>3. Fresh' /\ Backed' /\ Awaited(r)'
  BY <1>1, <1>2, FreshKept, BackedKept, AwaitedKept DEF SyncInv
<1>4. Cached'
  <2>1. Writable(adapter.dst) => \A x \in Objects : x # cur[r] => cache'[x] = 0
    BY <1>1, <1>2, OwnCache DEF SyncInv, TypeOK
  <2> QED BY <1>1, <1>2, <2>1 DEF Cached
<1>5. Carried(r)'
  <2>1. Carried(r)
    BY DEF SyncInv
  <2> QED BY <1>1, <1>2, <2>1 DEF Carried, SrcStamp
<1> QED BY <1>1, <1>2, <1>3, <1>4, <1>5, StepOfRun

LEMMA PutSync ==
  ASSUME SyncInv, TypeOK', OneAtATime, NEW r \in Runs, Put(r)
  PROVE  SyncInv'
<1> DEFINE o == cur[r]
<1>1. /\ UNCHANGED adapter /\ UNCHANGED src /\ UNCHANGED cache /\ UNCHANGED cur
      /\ UNCHANGED fps /\ UNCHANGED saved /\ UNCHANGED listing /\ UNCHANGED todo
      /\ pc[r] = "put" /\ Writable(adapter.dst) /\ Goto(r, "settle")
      /\ dst' = [dst EXCEPT ![place[r]][o] = bytes[r]]
  BY DEF Put, PutAs, work, At
<1>2. /\ pc[r] \notin Resting \cup {"list"} /\ o \in Objects /\ pc'[r] = "settle"
      /\ \A p \in Places : p = place[r]
  BY <1>1 DEF Resting, Goto, SyncInv, TypeOK, OneAtATime
<1>3. \A p \in Places, x \in Objects :
        dst[p][x] \in Versions /\ dst'[p][x] = IF x = o THEN bytes[r] ELSE dst[p][x]
  BY <1>1, <1>2 DEF SyncInv, TypeOK
<1>4. /\ fps[o] < listing[r][o] /\ listing[r][o] <= SrcStamp(bytes[r])
      /\ fps[o] \in Nat /\ listing[r][o] \in Nat /\ bytes[r] \in Versions
  BY <1>1, <1>2 DEF SyncInv, TypeOK, Carried, Versions
<1>5. SrcStamp(bytes[r]) \in Nat
  BY <1>4, StampType DEF SyncInv, Versions
<1>6. fps[o] <= SrcStamp(bytes[r])
  BY <1>4, <1>5
<1>7. Backed'
  <2>1. ASSUME NEW x \in Objects, NEW p \in Places
        PROVE  fps[x] <= SrcStamp(dst'[p][x]) \/ fps[x] < SrcStamp(src[x])
    BY <1>3, <1>6 DEF SyncInv, Backed
  <2> QED BY <1>1, <2>1 DEF Backed, SrcStamp
<1>8. Awaited(r)'
  <2>1. ASSUME NEW x \in todo[r], NEW p \in Places
        PROVE  /\ fps[x] <= listing[r][x]
               /\ fps[x] <= SrcStamp(dst'[p][x]) \/ fps[x] < listing[r][x]
    <3>1. x \in Objects /\ Awaited(r)
      BY DEF SyncInv, TypeOK
    <3> QED BY <1>2, <1>3, <1>6, <3>1 DEF Awaited
  <2> QED BY <1>1, <2>1 DEF Awaited, SrcStamp
<1>9. Carried(r)'
  <2>1. \A p \in Places : listing[r][o] <= SrcStamp(dst'[p][o])
    BY <1>2, <1>3, <1>4
  <2> QED BY <1>1, <1>2, <1>4, <2>1 DEF Carried, SrcStamp
<1>10. Fresh' /\ Cached'
  BY <1>1, <1>2, FreshKept, OwnCache DEF SyncInv, Cached
<1> QED BY <1>1, <1>2, <1>7, <1>8, <1>9, <1>10, StepOfRun

(* A put that fails is one to a read-only adapter, which changes nothing. *)
LEMMA PutFailsSync ==
  ASSUME SyncInv, TypeOK', OneAtATime, NEW r \in Runs, PutFails(r)
  PROVE  SyncInv'
<1>1. /\ UNCHANGED adapter /\ UNCHANGED src /\ UNCHANGED cache /\ UNCHANGED cur
      /\ UNCHANGED fps /\ UNCHANGED saved /\ UNCHANGED listing /\ UNCHANGED todo
      /\ pc[r] = "put" /\ ~Writable(adapter.dst)
      /\ \E label \in {"fetch", "object", "raised"} : Goto(r, label)
  BY AttemptLeaves DEF PutFails, At, OneAtATime
<1>2. pc[r] \notin Resting \cup {"list"} /\ pc'[r] \in {"fetch", "object", "raised"}
  BY <1>1 DEF Resting, Goto, SyncInv, TypeOK
<1>3. UNCHANGED dst
  <2>1. adapter.dst = "mysql"
    BY <1>1 DEF Writable
  <2>2. PutLeaves("mysql", dst[place[r]][cur[r]], 0, bytes[r]) = {dst[place[r]][cur[r]]}
    BY DEF PutLeaves, MysqlPutLeaves
  <2>3. PutAs(place[r], cur[r], dst[place[r]][cur[r]])
    BY <2>1, <2>2 DEF PutFails
  <2> QED BY <2>3 DEF PutAs, SyncInv, TypeOK
<1>4. Fresh' /\ Backed' /\ Cached' /\ Awaited(r)'
  BY <1>1, <1>2, <1>3, FreshKept, BackedKept, AwaitedKept DEF SyncInv, Cached
<1>5. Carried(r)'
  <2>1. Carried(r)
    BY DEF SyncInv
  <2> QED BY <1>1, <1>2, <2>1 DEF Carried
<1> QED BY <1>1, <1>2, <1>4, <1>5, StepOfRun

LEMMA SettleSync ==
  ASSUME SyncInv, TypeOK', OneAtATime, NEW r \in Runs, Settle(r)
  PROVE  SyncInv'
<1>1. /\ UNCHANGED adapter /\ UNCHANGED src /\ UNCHANGED dst /\ UNCHANGED cur
      /\ UNCHANGED fps /\ UNCHANGED saved /\ UNCHANGED listing /\ UNCHANGED todo
      /\ pc[r] = "settle" /\ Goto(r, "record") /\ Invalidate(cur[r])
      /\ copy' = [copy EXCEPT ![r] = fps]
  BY DEF Settle, At
<1>2. pc[r] \notin Resting \cup {"list"} /\ pc'[r] = "record" /\ copy'[r] = fps
  BY <1>1 DEF Resting, Goto, SyncInv, TypeOK
<1>3. Fresh' /\ Backed' /\ Cached' /\ Awaited(r)'
  BY <1>1, <1>2, FreshKept, BackedKept, InvalidateEmpties, AwaitedKept DEF SyncInv
<1>4. Carried(r)'
  <2>1. Carried(r)
    BY DEF SyncInv
  <2> QED BY <1>1, <1>2, <2>1 DEF Carried, SrcStamp
<1> QED BY <1>1, <1>2, <1>3, <1>4, StepOfRun

(* The fingerprint recorded is one of the source, and the destination has it. *)
LEMMA RecordSync ==
  ASSUME SyncInv, TypeOK', NEW r \in Runs, Record(r) \/ RecordFails(r)
  PROVE  SyncInv'
<1> DEFINE o == cur[r]
<1>1. /\ UNCHANGED adapter /\ UNCHANGED src /\ UNCHANGED dst /\ UNCHANGED cache /\ UNCHANGED cur
      /\ UNCHANGED listing /\ UNCHANGED todo /\ pc[r] = "record"
      /\ fps' = Recorded(r) /\ saved' \in {saved, fps'}
      /\ \E label \in {"audit", "object", "raised"} : Goto(r, label)
  BY GiveUpLeaves DEF Record, RecordFails, work, At
<1>2. /\ pc[r] \notin Resting \cup {"put", "settle", "list"} /\ o \in Objects
      /\ pc'[r] \in {"audit", "object", "raised"}
  BY <1>1 DEF Resting, Goto, SyncInv, TypeOK
<1>3. Carried(r) /\ Awaited(r)
  BY DEF SyncInv
<1>4. \A x \in Objects : fps'[x] = IF x = o THEN listing[r][x] ELSE fps[x]
  BY <1>1, <1>3 DEF Recorded, Carried, SyncInv, TypeOK
<1>5. \A x \in Objects : /\ fps[x] \in Nat /\ listing[r][x] \in Nat /\ saved[x] \in Nat
                          /\ fps[x] <= fps'[x]
  <2>1. \A x \in Objects : fps[x] \in Nat /\ listing[r][x] \in Nat /\ saved[x] \in Nat
    BY DEF SyncInv, TypeOK, Versions
  <2>2. fps[o] < listing[r][o]
    BY <1>1, <1>3 DEF Carried
  <2> QED BY <1>4, <2>1, <2>2
<1>6. Fresh'
  <2>1. ASSUME NEW x \in Objects
        PROVE  /\ saved'[x] <= fps'[x] /\ fps'[x] <= SrcStamp(src[x])
               /\ \A q \in Runs : listing[q][x] <= SrcStamp(src[x])
    <3>1. /\ saved[x] <= fps[x] /\ fps[x] <= SrcStamp(src[x])
          /\ \A q \in Runs : listing[q][x] <= SrcStamp(src[x])
      BY DEF SyncInv, Fresh
    <3>2. saved'[x] \in {saved[x], fps'[x]} /\ fps'[x] \in {fps[x], listing[r][x]}
      BY <1>1, <1>4
    <3> QED BY <1>5, <3>1, <3>2
  <2> QED BY <1>1, <2>1 DEF Fresh, SrcStamp
<1>7. Backed'
  <2>1. ASSUME NEW x \in Objects, NEW p \in Places
        PROVE  fps'[x] <= SrcStamp(dst[p][x]) \/ fps'[x] < SrcStamp(src[x])
    BY <1>1, <1>3, <1>4 DEF Carried, SyncInv, Backed
  <2> QED BY <1>1, <2>1 DEF Backed, SrcStamp
<1>8. Awaited(r)'
  <2>1. ASSUME NEW x \in todo[r], NEW p \in Places
        PROVE  /\ fps'[x] <= listing[r][x]
               /\ fps'[x] <= SrcStamp(dst[p][x]) \/ fps'[x] < listing[r][x]
    <3>1. x \in Objects
      BY DEF SyncInv, TypeOK
    <3>2. CASE x = o
      <4>1. fps'[x] = listing[r][x] /\ listing[r][x] <= SrcStamp(dst[p][x])
        BY <1>1, <1>3, <1>4, <3>1, <3>2 DEF Carried
      <4> QED BY <1>5, <3>1, <4>1
    <3>3. CASE x # o
      BY <1>2, <1>3, <1>4, <3>1, <3>3 DEF Awaited
    <3> QED BY <3>2, <3>3
  <2> QED BY <1>1, <2>1 DEF Awaited, SrcStamp
<1>9. Carried(r)'
  BY <1>1, <1>2, <1>3 DEF Carried, SrcStamp
<1>10. Cached'
  BY <1>1, <1>2, EmptyCacheKept
<1> QED BY <1>1, <1>2, <1>6, <1>7, <1>8, <1>9, <1>10, StepOfRun

LEMMA UpdateSync ==
  ASSUME SyncInv, TypeOK', NEW o \in Objects, Update(o)
  PROVE  SyncInv'
<1>1. /\ UNCHANGED adapter /\ UNCHANGED dst /\ UNCHANGED cache /\ UNCHANGED fps /\ UNCHANGED saved
      /\ UNCHANGED pc /\ UNCHANGED listing /\ UNCHANGED todo /\ UNCHANGED cur
      /\ UNCHANGED bytes /\ UNCHANGED copy
      /\ src' = [src EXCEPT ![o] = @ + 1]
  BY DEF Update, work
<1>2. ASSUME NEW x \in Objects
      PROVE  /\ SrcStamp(src[x]) \in Nat /\ SrcStamp(src'[x]) \in Nat
             /\ SrcStamp(src[x]) <= SrcStamp(src'[x])
  <2>1. src[x] \in Versions /\ src'[x] \in Versions /\ src[x] <= src'[x]
    BY <1>1 DEF SyncInv, TypeOK, Versions
  <2> QED BY <2>1, StampGrows, StampType DEF SyncInv, Versions
<1>3. \A x \in Objects : fps[x] \in Nat /\ \A q \in Runs : listing[q][x] \in Nat
  BY DEF SyncInv, TypeOK, Versions
<1>4. Fresh'
  <2>1. ASSUME NEW x \in Objects
        PROVE  /\ saved[x] <= fps[x] /\ fps[x] <= SrcStamp(src'[x])
               /\ \A q \in Runs : listing[q][x] <= SrcStamp(src'[x])
    BY <1>2, <1>3 DEF SyncInv, Fresh
  <2> QED BY <1>1, <2>1 DEF Fresh, SrcStamp
<1>5. Backed'
  <2>1. ASSUME NEW x \in Objects, NEW p \in Places
        PROVE  fps[x] <= SrcStamp(dst[p][x]) \/ fps[x] < SrcStamp(src'[x])
    BY <1>2, <1>3 DEF SyncInv, Backed
  <2> QED BY <1>1, <2>1 DEF Backed, SrcStamp
<1>6. Cached' /\ Alone'
  BY <1>1 DEF SyncInv, Cached, Alone, Active
<1>7. \A r \in Runs : Carried(r)' /\ Awaited(r)'
  BY <1>1 DEF SyncInv, Carried, Awaited, SrcStamp
<1> QED BY <1>4, <1>5, <1>6, <1>7 DEF SyncInv

(* A kill while an object is put may leave anything: the source is ahead of   *)
(* the fingerprint of the object.                                             *)
LEMMA KillSync ==
  ASSUME SyncInv, TypeOK', OneAtATime, Kill
  PROVE  SyncInv'
<1>1. /\ UNCHANGED adapter /\ UNCHANGED src /\ UNCHANGED saved /\ UNCHANGED listing
      /\ cache' = None /\ fps' = saved /\ \A r \in Runs : pc'[r] = "idle"
  BY DEF Kill, work
<1>2. \A o \in Objects : /\ saved[o] \in Nat /\ fps[o] \in Nat /\ SrcStamp(src[o]) \in Nat
                          /\ saved[o] <= fps[o] /\ fps[o] <= SrcStamp(src[o])
  <2>1. \A o \in Objects : saved[o] \in Nat /\ fps[o] \in Nat /\ src[o] \in Versions
    BY DEF SyncInv, TypeOK, Versions
  <2> QED BY <2>1, StampType DEF SyncInv, Fresh, Versions
<1>3. Fresh'
  <2>1. ASSUME NEW o \in Objects
        PROVE  /\ saved[o] <= saved[o] /\ saved[o] <= SrcStamp(src[o])
               /\ \A q \in Runs : listing[q][o] <= SrcStamp(src[o])
    BY <1>2 DEF SyncInv, Fresh
  <2> QED BY <1>1, <2>1 DEF Fresh, SrcStamp
<1>4. Backed'
  <2>1. ASSUME NEW o \in Objects, NEW p \in Places
        PROVE  saved[o] <= SrcStamp(dst'[p][o]) \/ saved[o] < SrcStamp(src[o])
    <3>1. CASE dst'[p][o] = dst[p][o]
      <4>1. /\ fps[o] <= SrcStamp(dst[p][o]) \/ fps[o] < SrcStamp(src[o])
            /\ dst[p][o] \in Versions
        BY DEF SyncInv, Backed, TypeOK
      <4>2. SrcStamp(dst[p][o]) \in Nat
        BY <4>1, StampType DEF SyncInv, Versions
      <4> QED BY <1>2, <3>1, <4>1, <4>2
    <3>2. CASE dst'[p][o] # dst[p][o]
      <4>1. PICK r \in Runs : At(r, "put") /\ \E left : PutAs(place[r], cur[r], left)
        BY <3>2 DEF Kill
      <4>2. o = cur[r]
        BY <3>2, <4>1 DEF PutAs, SyncInv, TypeOK
      <4>3. fps[o] < listing[r][o] /\ listing[r][o] <= SrcStamp(src[o]) /\ listing[r][o] \in Nat
        BY <4>1, <4>2 DEF SyncInv, Carried, Fresh, At, TypeOK, Versions
      <4> QED BY <1>2, <4>3
    <3> QED BY <3>1, <3>2
  <2> QED BY <1>1, <2>1 DEF Backed, SrcStamp
<1>5. Cached'
  BY <1>1 DEF Cached, None
<1>6. Alone' /\ \A r \in Runs : Carried(r)' /\ Awaited(r)'
  BY <1>1 DEF Alone, Active, Resting, Carried, Awaited
<1> QED BY <1>3, <1>4, <1>5, <1>6 DEF SyncInv

LEMMA SameSync ==
  ASSUME SyncInv, TypeOK', UNCHANGED adapter, UNCHANGED src, UNCHANGED dst, UNCHANGED fps,
         UNCHANGED saved, UNCHANGED pc, UNCHANGED listing, UNCHANGED cur, UNCHANGED bytes,
         UNCHANGED copy, \A o \in Objects : cache'[o] \in {cache[o], 0},
         \A r \in Runs : todo'[r] \subseteq todo[r]
  PROVE  SyncInv'
<1>1. Fresh' /\ Backed'
  BY FreshKept, BackedKept DEF SyncInv
<1>2. Cached' /\ Alone' /\ \A r \in Runs : Carried(r)' /\ Awaited(r)'
  BY DEF SyncInv, Cached, Alone, Active, Carried, Awaited, SrcStamp
<1> QED BY <1>1, <1>2 DEF SyncInv

LEMMA NextSync ==
  ASSUME OneAtATime, Incremental # "none", SyncInv, TypeOK', [Next]_vars
  PROVE  SyncInv'
<1>1. ASSUME NEW r \in Runs, Refuse(r) \/ Raises(r) \/ Finish(r) PROVE SyncInv'
  <2>1. /\ pc[r] \notin Resting \cup {"put", "settle"} /\ UNCHANGED <<store, listing, todo>>
        /\ \E label \in {"aborted", "raised", "finished"} : Goto(r, label)
    BY <1>1 DEF Refuse, Raises, Finish, At, Resting, work
  <2> QED BY <2>1, LeaveObject
<1>2. ASSUME NEW r \in Runs, Log(r) \/ LogFails(r) PROVE SyncInv'
  <2>1. /\ pc[r] = "audit" /\ UNCHANGED <<store, listing, todo>>
        /\ \E label \in {"object", "raised"} : Goto(r, label)
    BY <1>2, GiveUpLeaves DEF Log, LogFails, At, work
  <2>2. pc[r] \notin Resting \cup {"put", "settle"} /\ pc[r] # "list"
    BY <2>1 DEF Resting
  <2> QED BY <2>1, <2>2, LeaveObject
<1>3. ASSUME NEW r \in Runs, NEW o \in Objects, Begin(r, o) PROVE SyncInv'
  BY <1>3, BeginSync
<1>4. ASSUME NEW r \in Runs, NEW o \in Objects, Filter(r, o) \/ Deny(r, o) PROVE SyncInv'
  <2>1. /\ UNCHANGED <<adapter, src, dst, cache, fps, saved, pc, listing, cur, bytes, copy>>
        /\ \A q \in Runs : todo'[q] \subseteq todo[q]
    <3>1. /\ UNCHANGED <<adapter, src, dst, cache, fps, saved, pc, listing, cur, bytes, copy>>
          /\ todo' = [todo EXCEPT ![r] = @ \ {o}]
      BY <1>4 DEF Filter, Deny, store
    <3> QED BY <3>1 DEF SyncInv, TypeOK
  <2> QED BY <2>1, SameSync
<1>5. ASSUME NEW r \in Runs, NEW u \in Users, Start(r, u) PROVE SyncInv'
  BY <1>5, StartSync
<1>6. ASSUME NEW r \in Runs, List(r) PROVE SyncInv'
  BY <1>6, ListSync
<1>7. ASSUME NEW r \in Runs, NEW o \in Objects, Skip(r, o) PROVE SyncInv'
  BY <1>7, SkipSync
<1>8. ASSUME NEW r \in Runs, Fetch(r) \/ FetchFails(r) \/ Fill(r) PROVE SyncInv'
  BY <1>8, FetchSync, FetchFailsSync, FillSync
<1>9. ASSUME NEW r \in Runs, Put(r) \/ PutFails(r) PROVE SyncInv'
  BY <1>9, PutSync, PutFailsSync
<1>10. ASSUME NEW r \in Runs, Settle(r) PROVE SyncInv'
  BY <1>10, SettleSync
<1>11. ASSUME NEW r \in Runs, Record(r) \/ RecordFails(r) PROVE SyncInv'
  BY <1>11, RecordSync
<1>12. ASSUME NEW o \in Objects, Update(o) PROVE SyncInv'
  BY <1>12, UpdateSync
<1>13. ASSUME NEW o \in Objects, Expire(o) PROVE SyncInv'
  <2>1. /\ UNCHANGED <<adapter, src, dst, fps, saved, pc, listing, todo, cur, bytes, copy>>
        /\ \A x \in Objects : cache'[x] \in {cache[x], 0}
    BY <1>13 DEF Expire, work, SyncInv, TypeOK
  <2> QED BY <2>1, SameSync
<1>14. CASE Kill
  BY <1>14, KillSync
<1>15. CASE DeleteShare \/ (\E p \in Places : DefineShare(p)) \/ UNCHANGED vars
  <2>1. UNCHANGED <<adapter, src, dst, cache, fps, saved, pc, listing, todo, cur, bytes, copy>>
    BY <1>15 DEF DeleteShare, DefineShare, vars, store, work
  <2> QED BY <2>1, SameSync
<1> QED
  BY <1>1, <1>2, <1>3, <1>4, <1>5, <1>6, <1>7, <1>8, <1>9, <1>10, <1>11, <1>12, <1>13, <1>14, <1>15
  DEF Next, Advance

(* The one step that skips an object is Skip. *)
LEMMA OnlySkipSkips ==
  ASSUME TypeOK, Next, NEW r \in Runs, NEW o \in In(r, "skipped")' \ In(r, "skipped")
  PROVE  Skip(r, o)
<1>1. /\ o \in Objects /\ <<o, "skipped">> \in result'[r] /\ <<o, "skipped">> \notin result[r]
  BY DEF In
<1>2. ASSUME NEW q \in Runs, NEW x \in Objects, NEW f \in Outcomes, Count(q, f, x)
      PROVE  q = r /\ f = "skipped" /\ x = o
  <2>1. result'[r] = IF q = r THEN result[r] \cup {<<x, f>>} ELSE result[r]
    BY <1>2 DEF Count, TypeOK
  <2> QED BY <1>1, <2>1
<1>3. ASSUME UNCHANGED result PROVE FALSE
  BY <1>1, <1>3
<1>4. ASSUME NEW q \in Runs, NEW n, GiveUp(q, n) PROVE FALSE
  <2>1. Count(q, "failed", cur[q]) /\ cur[q] \in Objects
    BY <1>4 DEF GiveUp, TypeOK
  <2> QED BY <1>2, <2>1 DEF Outcomes
<1>5. ASSUME NEW q \in Runs, NEW n, AttemptFailed(q, n) PROVE FALSE
  BY <1>3, <1>4, <1>5 DEF AttemptFailed
<1>6. ASSUME NEW q \in Runs, NEW x \in Objects, Filter(q, x) \/ Deny(q, x) PROVE FALSE
  BY <1>2, <1>3, <1>6 DEF Filter, Deny, Outcomes
<1>7. ASSUME NEW q \in Runs, Settle(q) PROVE FALSE
  <2>1. Count(q, "transferred", cur[q]) /\ cur[q] \in Objects
    BY <1>7 DEF Settle, TypeOK
  <2> QED BY <1>2, <2>1 DEF Outcomes
<1>8. ASSUME NEW q \in Runs, NEW x \in Objects, Skip(q, x) PROVE Skip(r, o)
  <2>1. q = r /\ x = o
    BY <1>2, <1>8 DEF Skip, Outcomes
  <2> QED BY <1>8, <2>1
<1>9. ASSUME NEW q \in Runs, NEW u \in Users, Start(q, u) PROVE FALSE
  <2>1. result'[r] \in {result[r], {}}
    BY <1>9 DEF Start, TypeOK
  <2> QED BY <1>1, <2>1
<1>10. ASSUME NEW q \in Runs, PutFails(q) \/ FetchFails(q) PROVE FALSE
  BY <1>5, <1>10 DEF PutFails, FetchFails
<1>11. ASSUME NEW q \in Runs, RecordFails(q) \/ LogFails(q) PROVE FALSE
  BY <1>4, <1>11 DEF RecordFails, LogFails
<1>12. ASSUME NEW q \in Runs,
              \/ List(q) \/ Fetch(q) \/ Fill(q) \/ Put(q) \/ Record(q) \/ Log(q) \/ Finish(q)
              \/ Refuse(q) \/ Raises(q) \/ \E x \in Objects : Begin(q, x)
       PROVE  FALSE
  BY <1>3, <1>12 DEF List, Fetch, Fill, Put, Record, Log, Finish, Refuse, Raises, Begin, trace
<1>13. (\E x \in Objects : Update(x) \/ Expire(x)) \/ Kill \/ DeleteShare
         \/ (\E p \in Places : DefineShare(p)) => UNCHANGED result
  BY DEF Update, Expire, Kill, DeleteShare, DefineShare, trace
<1> QED
  BY <1>3, <1>6, <1>7, <1>8, <1>9, <1>10, <1>11, <1>12, <1>13 DEF Next, Advance

(* What is skipped is at the destination, and not older than the version      *)
(* listed: fingerprints, byte cache and uploads stay together through faults,  *)
(* retries, kills and edits of the share, while runs exclude each other.       *)
THEOREM SkipIsRight ==
  ASSUME OneAtATime
  PROVE  Spec => SkipsOnlyCurrent
<1>1. CASE Incremental = "none"
  <2>1. TypeOK /\ [Next]_vars =>
          [\A r \in Runs : \A o \in In(r, "skipped")' \ In(r, "skipped") :
             SrcStamp(dst[place[r]][o]) >= listing[r][o]]_vars
    BY <1>1, OnlySkipSkips DEF Skip, Unchanged, TimesMayAgree
  <2> QED BY <2>1, ShareTypes, PTL DEF Spec, SkipsOnlyCurrent
<1>2. CASE Incremental # "none"
  <2>1. SyncInv /\ TypeOK' /\ [Next]_vars => SyncInv'
    BY <1>2, NextSync
  <2>2. SyncInv /\ [Next]_vars =>
          [\A r \in Runs : \A o \in In(r, "skipped")' \ In(r, "skipped") :
             SrcStamp(dst[place[r]][o]) >= listing[r][o]]_vars
    <3> SUFFICES ASSUME SyncInv, Next, NEW r \in Runs, NEW o \in In(r, "skipped")' \ In(r, "skipped")
                 PROVE  SrcStamp(dst[place[r]][o]) >= listing[r][o]
      OBVIOUS
    <3>1. Skip(r, o) /\ o \in Objects /\ place[r] \in Places
      BY OnlySkipSkips DEF SyncInv, In, TypeOK
    <3>2. Unchanged(r, o) /\ o \in todo[r] /\ pc[r] \notin Resting \cup {"list"}
      BY <3>1 DEF Skip, TimesMayAgree, OneAtATime, At, Resting
    <3>3. /\ fps[o] \in Nat /\ listing[r][o] \in Nat /\ dst[place[r]][o] \in Versions
      BY <3>1 DEF SyncInv, TypeOK, Versions
    <3>4. SrcStamp(dst[place[r]][o]) \in Nat
      BY <3>3, StampType DEF SyncInv, Versions
    <3>5. CASE fps[o] = listing[r][o]
      <4>1. fps[o] <= SrcStamp(dst[place[r]][o]) \/ fps[o] < listing[r][o]
        BY <3>1, <3>2 DEF SyncInv, Awaited
      <4> QED BY <3>3, <3>4, <3>5, <4>1
    <3>6. CASE SameFingerprint(r, o)
      <4>1. SrcStamp(dst[place[r]][o]) = listing[r][o]
        BY <3>1, <3>6 DEF SameFingerprint, Md5, SrcStamp, Stamp, LocalStat, S3Stat
      <4> QED BY <3>3, <4>1
    <3> QED BY <3>2, <3>5, <3>6 DEF Unchanged
  <2> QED BY <2>1, <2>2, InitSync, ShareTypes, PTL DEF Spec, SkipsOnlyCurrent
<1> QED BY <1>1, <1>2
=============================================================================
