------------------------------ MODULE ShareRun ------------------------------
(***************************************************************************)
(* TransferEngine.run (cdeh/core/transfer.py): the pipeline that moves the *)
(* objects of one share from a source adapter to a destination adapter.    *)
(*                                                                         *)
(* Content is abstracted to a version number: a source object only gets    *)
(* newer versions, an adapter makes its fingerprint of the version (its    *)
(* stamp, see Adapters), and a destination object is known by the source   *)
(* version it was made from.  An upload is one step here; ChunkedTransfer  *)
(* opens it up.                                                            *)
(*                                                                         *)
(* Runs of the share execute on threads of one process, which share the    *)
(* byte cache and the catalog.  Around them the source changes, cache      *)
(* entries expire, calls of adapters, catalog and audit log fail, the      *)
(* process is killed, and the share is deleted and defined again.          *)
(***************************************************************************)
EXTENDS Naturals, FiniteSets, Adapters

CONSTANTS
  Runs,         \* threads that execute runs of the share
  Users,        \* users that runs are started for
  RoleOf,       \* role of each user (some other value: not in users.json)
  Objects,      \* source objects under share.src_path
  Places,       \* destination paths the share is ever defined with
  Excluded,     \* objects the filters of the share exclude
  Denied,       \* objects the policy denies
  SrcKinds,     \* kinds the source adapter may be of
  DstKinds,     \* kinds the destination adapter may be of
  Tick,         \* stamp of each version for adapters that tell seconds
  Tls,          \* kinds whose endpoint is configured with https
  RequireHttps, \* does the policy require https?
  Incremental,  \* share.incremental: "etag", "mtime" or "none"
  Transforms,   \* does the share have transforms?
  NameIsKind,   \* is the source adapter registered under the name of its kind?
  MaxAttempts,  \* retry.max_attempts
  MaxActive,    \* runs at a time: 1 behind the HTTP server's lock, 8 in the executor
  PutMayFail,   \* may an upload fail?
  MaxVersion,   \* bound on the versions of a source object
  MaxFaults,    \* bound on failed calls
  MaxCrashes,   \* bound on kills
  MaxEdits      \* bound on deletions and definitions of the share

ASSUME ShareAssumption ==
  /\ Objects # {} /\ RoleOf \in [Users -> STRING] /\ Excluded \subseteq Objects /\ Denied \subseteq Objects
  /\ {RequireHttps, Transforms, NameIsKind, PutMayFail} \subseteq BOOLEAN
  /\ SrcKinds \subseteq Kinds /\ DstKinds \subseteq Kinds /\ Tls \subseteq Kinds
  /\ Incremental \in {"etag", "mtime", "none"}
  /\ MaxAttempts \in Nat \ {0} /\ MaxActive \in Nat \ {0}
  /\ {MaxVersion, MaxFaults, MaxCrashes, MaxEdits} \subseteq Nat
  /\ Tick \in [1 .. MaxVersion -> 1 .. MaxVersion]
  /\ \A v, w \in 1 .. MaxVersion : v <= w => Tick[v] <= Tick[w]

VARIABLES
  adapter,  \* the kinds of the two adapters
  src,      \* version of each source object (0: not there yet)
  dst,      \* version at each place of each object (0: missing or truncated)
  cache,    \* TransferCache: version of the bytes cached (0: no entry)
  fps,      \* src_fingerprints of the share's catalog asset, as stamps (0: none)
  saved,    \* the same in catalog.json
  share,    \* the saved definition: is there one, and its dst_path
  pc,       \* where each run is
  listing,  \* fingerprints of the objects a run has listed (0: not listed)
  todo,     \* listed objects a run has still to treat
  cur,      \* the object a run is transferring
  bytes,    \* version of the bytes it has fetched
  copy,     \* fingerprints it has read from the catalog, to be written back
  attempt,  \* attempts of the current transfer
  place,    \* dst_path in the definition a run has loaded
  result,   \* <<object, outcome>>: in which field of TransferResult it is
  wrote,    \* history: objects whose destination a run has modified
  audited,  \* history: <<object, action>> audit entries of a run
  faults, crashes, edits

store == <<adapter, src, dst, cache, fps, saved>>
work == <<listing, todo, cur, bytes, copy, attempt, place>>
trace == <<result, wrote, audited>>
bounds == <<faults, crashes, edits>>
vars == <<store, share, pc, work, trace, bounds>>

Versions == 0 .. MaxVersion
Outcomes == {"transferred", "skipped", "refused", "failed"}
Actions == {"filtered_out", "policy_denied", "skip", "retry", "transfer", "error"}

TypeOK ==
  /\ src \in [Objects -> Versions] /\ dst \in [Places -> [Objects -> Versions]]
  /\ adapter \in [src : SrcKinds, dst : DstKinds] /\ cache \in [Objects -> Versions]
  /\ fps \in [Objects -> Versions] /\ saved \in [Objects -> Versions]
  /\ share \in [defined : BOOLEAN, place : Places]
  /\ pc \in [Runs -> {"idle", "list", "object", "fetch", "fill", "put", "settle",
                      "record", "audit", "finished", "aborted", "raised"}]
  /\ listing \in [Runs -> [Objects -> Versions]]
  /\ todo \in [Runs -> SUBSET Objects] /\ cur \in [Runs -> Objects]
  /\ bytes \in [Runs -> Versions] /\ copy \in [Runs -> [Objects -> Versions]]
  /\ attempt \in [Runs -> 1 .. MaxAttempts] /\ place \in [Runs -> Places]
  /\ result \in [Runs -> SUBSET (Objects \X Outcomes)] /\ wrote \in [Runs -> SUBSET Objects]
  /\ audited \in [Runs -> SUBSET (Objects \X Actions)]
  /\ faults \in 0 .. MaxFaults /\ crashes \in 0 .. MaxCrashes /\ edits \in 0 .. MaxEdits

None == [o \in Objects |-> 0]

Init ==
  /\ adapter \in [src : SrcKinds, dst : DstKinds]
  /\ src \in [Objects -> Versions \cap {0, 1}]
  /\ dst = [p \in Places |-> None] /\ cache = None /\ fps = None /\ saved = None
  /\ share \in [defined : {TRUE}, place : Places]
  /\ pc = [r \in Runs |-> "idle"]
  /\ listing = [r \in Runs |-> None] /\ todo = [r \in Runs |-> {}]
  /\ cur \in [Runs -> {CHOOSE o \in Objects : TRUE}] /\ bytes = [r \in Runs |-> 0]
  /\ copy = [r \in Runs |-> None] /\ attempt = [r \in Runs |-> 1]
  /\ place = [r \in Runs |-> share.place]
  /\ result = [r \in Runs |-> {}] /\ wrote = [r \in Runs |-> {}]
  /\ audited = [r \in Runs |-> {}]
  /\ faults = 0 /\ crashes = 0 /\ edits = 0

-----------------------------------------------------------------------------
At(r, label) == pc[r] = label
Goto(r, label) == pc' = [pc EXCEPT ![r] = label]
Resting == {"idle", "finished", "aborted", "raised"}
Active == {r \in Runs : pc[r] \notin Resting}

Count(r, outcome, o) == result' = [result EXCEPT ![r] = @ \cup {<<o, outcome>>}]
Audit(r, o, action) == audited' = [audited EXCEPT ![r] = @ \cup {<<o, action>>}]

Spend(n) == faults + n <= MaxFaults /\ faults' = faults + n

(* What the adapters do: list and get see the objects as they are, and a put *)
(* replaces one.                                                             *)
SrcStamp(version) == Stamp(adapter.src, Tick, version)
Present == {o \in Objects : src[o] # 0}
Get(o) == src[o]
PutAs(p, o, version) == dst' = [dst EXCEPT ![p][o] = version]

(* RBAC.check as run calls it, without an asset: admins always pass. *)
Permissions ==
  [admin |-> {"view_catalog", "run_share", "manage_adapter", "manage_policy", "manage_users",
              "audit"},
   operator |-> {"view_catalog", "run_share", "manage_adapter", "audit"},
   viewer |-> {"view_catalog"}]
Check(u, perm) ==
  /\ RoleOf[u] \in DOMAIN Permissions
  /\ RoleOf[u] = "admin" \/ perm \in Permissions[RoleOf[u]]

(* run_share loads the definition, and run checks the user; then the         *)
(* adapters, the transforms or the listing may end the run with an error.    *)
Load(r) == share.defined /\ place' = [place EXCEPT ![r] = share.place]

Start(r, u) ==
  /\ pc[r] \in Resting /\ Cardinality(Active) < MaxActive
  /\ Load(r)
  /\ result' = [result EXCEPT ![r] = {}]
  /\ wrote' = [wrote EXCEPT ![r] = {}] /\ audited' = [audited EXCEPT ![r] = {}]
  /\ listing' = [listing EXCEPT ![r] = None] /\ todo' = [todo EXCEPT ![r] = {}]
  /\ Goto(r, IF Check(u, "run_share") THEN "list" ELSE "aborted")
  /\ UNCHANGED <<store, share, cur, bytes, copy, attempt, bounds>>

Refuse(r) ==
  /\ At(r, "list") /\ Spend(1)
  /\ Goto(r, "aborted")
  /\ UNCHANGED <<store, share, work, trace, crashes, edits>>

(* src.list: the fingerprint of every object is taken here, long before its  *)
(* bytes are fetched.  Nothing at the prefix ends the run.                    *)
List(r) ==
  /\ At(r, "list")
  /\ listing' = [listing EXCEPT ![r] = [o \in Objects |-> SrcStamp(src[o])]]
  /\ todo' = [todo EXCEPT ![r] = Present]
  /\ Goto(r, IF Present = {} THEN "aborted" ELSE "object")
  /\ UNCHANGED <<store, share, cur, bytes, copy, attempt, place, trace, bounds>>

(* The filter gate: `continue` with an audit entry and in no field of the    *)
(* result.                                                                    *)
Filter(r, o) ==
  /\ At(r, "object") /\ o \in todo[r] /\ o \in Excluded
  /\ todo' = [todo EXCEPT ![r] = @ \ {o}]
  /\ Audit(r, o, "filtered_out")
  /\ UNCHANGED <<store, share, pc, listing, cur, bytes, copy, attempt, place, result, wrote, bounds>>

PolicyDenies(o) ==
  \/ o \in Denied
  \/ RequireHttps /\ ~(IsHttps(adapter.src, Tls) /\ IsHttps(adapter.dst, Tls))
Refused(o) == o \in Excluded \/ PolicyDenies(o)

(* The policy check of what the filters let through: `continue` with an      *)
(* error in the result and an audit entry.                                    *)
Deny(r, o) ==
  /\ At(r, "object") /\ o \in todo[r] \ Excluded /\ PolicyDenies(o)
  /\ todo' = [todo EXCEPT ![r] = @ \ {o}]
  /\ Count(r, "refused", o) /\ Audit(r, o, "policy_denied")
  /\ UNCHANGED <<store, share, pc, listing, cur, bytes, copy, attempt, place, wrote, bounds>>

(* _same_fingerprint, against dst.stat: digests of the same bytes, or times   *)
(* that may happen to be equal when both adapters tell seconds.               *)
SameFingerprint(r, o) ==
  /\ Incremental = "etag" /\ Md5(adapter.src) /\ Md5(adapter.dst)
  /\ dst[place[r]][o] = listing[r][o]
TimesMayAgree(r, o) ==
  Incremental = "mtime" /\ "local" \notin {adapter.src, adapter.dst} /\ dst[place[r]][o] # 0

(* The two reasons of the incremental skip: the fingerprint recorded in the  *)
(* catalog or, without transforms, the one of the destination.               *)
Unchanged(r, o) ==
  /\ Incremental # "none"
  /\ \/ fps[o] = listing[r][o]
     \/ ~Transforms /\ SameFingerprint(r, o)

(* A run that leaves the cache alone (a defect for SkipsOnlyCurrent). *)
Invalidate_Nothing(o) == UNCHANGED cache

(* cache.invalidate(share.src_adapter, ...): entries are keyed by src.kind. *)
Invalidate(o) == cache' = IF NameIsKind THEN [cache EXCEPT ![o] = 0] ELSE cache

Skip(r, o) ==
  /\ At(r, "object") /\ o \in todo[r] /\ ~Refused(o)
  /\ \/ Unchanged(r, o)
     \/ ~Transforms /\ TimesMayAgree(r, o)
  /\ todo' = [todo EXCEPT ![r] = @ \ {o}]
  /\ Invalidate(o)
  /\ Count(r, "skipped", o) /\ Audit(r, o, "skip")
  /\ UNCHANGED <<adapter, src, dst, fps, saved, share, pc, listing, cur, bytes, copy, attempt, place,
                 wrote, bounds>>

(* An exception that is not an AdapterError leaves the run: of src.list, of   *)
(* dst.stat, of an audit entry written outside of the `try`.                  *)
Raises(r) ==
  /\ pc[r] \in {"list", "object"} /\ Spend(1)
  /\ Goto(r, "raised")
  /\ UNCHANGED <<store, share, work, trace, crashes, edits>>

Begin(r, o) ==
  /\ At(r, "object") /\ o \in todo[r] /\ ~Refused(o) /\ ~Unchanged(r, o)
  /\ todo' = [todo EXCEPT ![r] = @ \ {o}]
  /\ cur' = [cur EXCEPT ![r] = o] /\ attempt' = [attempt EXCEPT ![r] = 1]
  /\ Goto(r, "fetch")
  /\ UNCHANGED <<store, share, listing, bytes, copy, place, trace, bounds>>

-----------------------------------------------------------------------------
(* _transfer_one: bytes come from the cache or from the source. *)
Fetch(r) ==
  LET o == cur[r] IN
  /\ At(r, "fetch")
  /\ IF cache[o] # 0 THEN bytes' = [bytes EXCEPT ![r] = cache[o]] /\ Goto(r, "put")
                     ELSE bytes' = [bytes EXCEPT ![r] = Get(o)] /\ Goto(r, "fill")
  /\ UNCHANGED <<store, share, listing, todo, cur, copy, attempt, place, trace, bounds>>

Fill(r) ==
  /\ At(r, "fill")
  /\ cache' = [cache EXCEPT ![cur[r]] = bytes[r]]
  /\ Goto(r, "put")
  /\ UNCHANGED <<adapter, src, dst, fps, saved, share, work, trace, bounds>>

Put(r) ==
  /\ At(r, "put") /\ Writable(adapter.dst)
  /\ PutAs(place[r], cur[r], bytes[r])
  /\ wrote' = [wrote EXCEPT ![r] = @ \cup {cur[r]}]
  /\ Goto(r, "settle")
  /\ UNCHANGED <<adapter, src, cache, fps, saved, share, work, result, audited, bounds>>

(* The `except` of run, after n failed calls: the object is reported, unless *)
(* the log cannot be written either.                                         *)
GiveUp(r, n) ==
  /\ Count(r, "failed", cur[r])
  /\ \/ Spend(n) /\ Audit(r, cur[r], "error") /\ Goto(r, "object")
     \/ Spend(n + 1) /\ UNCHANGED audited /\ Goto(r, "raised")

Retry(r, n) ==
  /\ Spend(n) /\ Audit(r, cur[r], "retry") /\ Goto(r, "fetch")
  /\ attempt' = [attempt EXCEPT ![r] = @ + 1]

(* A retry that counts its first attempt twice (a defect for TypeOK). *)
AttemptFailed_OneMore(r, n) ==
  \/ attempt[r] <= MaxAttempts /\ Retry(r, n) /\ UNCHANGED result
  \/ attempt[r] > MaxAttempts /\ GiveUp(r, n) /\ UNCHANGED attempt

(* A retry that reports each failed attempt (a defect for Accounted). *)
AttemptFailed_CountsEach(r, n) ==
  \/ attempt[r] < MaxAttempts /\ Retry(r, n) /\ Count(r, "failed", cur[r])
  \/ attempt[r] = MaxAttempts /\ GiveUp(r, n) /\ UNCHANGED attempt

(* An exception swallowed without an audit entry (a defect for WritesAreAudited). *)
AttemptFailed_Silent(r, n) ==
  \/ attempt[r] < MaxAttempts /\ Retry(r, n) /\ UNCHANGED result
  \/ /\ attempt[r] = MaxAttempts /\ Spend(n) /\ Count(r, "failed", cur[r]) /\ Goto(r, "object")
     /\ UNCHANGED <<attempt, audited>>

(* _transfer_with_retry: an attempt failed; try again, or give the object up, *)
(* at once if the entry of the retry cannot be written.                       *)
AttemptFailed(r, n) ==
  \/ attempt[r] < MaxAttempts /\ Retry(r, n) /\ UNCHANGED result
  \/ GiveUp(r, IF attempt[r] < MaxAttempts THEN n + 1 ELSE n) /\ UNCHANGED attempt

FetchFails(r) ==
  /\ At(r, "fetch") /\ cache[cur[r]] = 0
  /\ AttemptFailed(r, 1)
  /\ UNCHANGED <<store, share, listing, todo, cur, bytes, copy, place, wrote, crashes, edits>>

(* A failed upload leaves the destination alone, cut short, or replaced; one *)
(* to a read-only adapter always fails.                                       *)
PutFails(r) ==
  LET o == cur[r]  p == place[r] IN
  /\ At(r, "put")
  /\ \/ PutMayFail /\ AttemptFailed(r, 1)
     \/ ~Writable(adapter.dst) /\ AttemptFailed(r, 0)
  /\ \E left \in PutLeaves(adapter.dst, dst[p][o], 0, bytes[r]) :
       /\ PutAs(p, o, left)
       /\ wrote' = [wrote EXCEPT ![r] = IF left = dst[p][o] THEN @ ELSE @ \cup {o}]
  /\ UNCHANGED <<adapter, src, cache, fps, saved, share, listing, todo, cur, bytes, copy, place,
                 crashes, edits>>

-----------------------------------------------------------------------------
(* After the upload: count, invalidate, and read the asset to be updated. *)
Settle(r) ==
  /\ At(r, "settle")
  /\ Count(r, "transferred", cur[r])
  /\ Invalidate(cur[r])
  /\ copy' = [copy EXCEPT ![r] = fps]
  /\ Goto(r, "record")
  /\ UNCHANGED <<adapter, src, dst, fps, saved, share, listing, todo, cur, bytes, attempt, place,
                 wrote, audited, bounds>>

(* A fingerprint taken again after the upload (a defect for EventuallySynced). *)
Recorded_Current(r) == [copy[r] EXCEPT ![cur[r]] = SrcStamp(src[cur[r]])]

(* _record_fingerprint puts the fingerprint of the listing into the copy. *)
Recorded(r) == [copy[r] EXCEPT ![cur[r]] = listing[r][cur[r]]]

Record(r) ==
  /\ At(r, "record")
  /\ fps' = Recorded(r) /\ saved' = Recorded(r)
  /\ Goto(r, "audit")
  /\ UNCHANGED <<adapter, src, dst, cache, share, work, trace, bounds>>

(* The catalog cannot be saved: only its memory has changed. *)
RecordFails(r) ==
  /\ At(r, "record")
  /\ fps' = Recorded(r)
  /\ GiveUp(r, 1)
  /\ UNCHANGED <<adapter, src, dst, cache, saved, share, work, wrote, crashes, edits>>

Log(r) ==
  /\ At(r, "audit")
  /\ Audit(r, cur[r], "transfer")
  /\ Goto(r, "object")
  /\ UNCHANGED <<store, share, work, result, wrote, bounds>>

(* The entry cannot be written: the upload is reported as an error, too. *)
LogFails(r) ==
  /\ At(r, "audit")
  /\ GiveUp(r, 1)
  /\ UNCHANGED <<store, share, work, wrote, crashes, edits>>

Finish(r) ==
  /\ At(r, "object") /\ todo[r] = {}
  /\ Goto(r, "finished")
  /\ UNCHANGED <<store, share, work, trace, bounds>>

-----------------------------------------------------------------------------
(* The environment. *)
Update(o) ==
  /\ src[o] < MaxVersion
  /\ src' = [src EXCEPT ![o] = @ + 1]
  /\ UNCHANGED <<adapter, dst, cache, fps, saved, share, pc, work, trace, bounds>>

(* The time to live of an entry passes, or newer entries push it out. *)
Expire(o) ==
  /\ cache[o] # 0
  /\ cache' = [cache EXCEPT ![o] = 0]
  /\ UNCHANGED <<adapter, src, dst, fps, saved, share, pc, work, trace, bounds>>

(* A kill loses the runs, the cache and the catalog in memory; a put under  *)
(* way may end in any way.                                                   *)
Kill ==
  /\ crashes < MaxCrashes /\ crashes' = crashes + 1
  /\ pc' = [r \in Runs |-> "idle"] /\ cache' = None /\ fps' = saved
  /\ \/ UNCHANGED dst
     \/ \E r \in Runs : \E left \in PutLeaves(adapter.dst, dst[place[r]][cur[r]], 0, bytes[r]) :
          At(r, "put") /\ PutAs(place[r], cur[r], left)
  /\ UNCHANGED <<adapter, src, saved, share, work, trace, faults, edits>>

(* delete_share removes the definition and nothing else. *)
DeleteShare ==
  /\ share.defined /\ edits < MaxEdits /\ edits' = edits + 1
  /\ share' = [share EXCEPT !.defined = FALSE]
  /\ UNCHANGED <<store, pc, work, trace, faults, crashes>>

(* What share.create makes of its arguments. *)
Definition(p) == [defined |-> TRUE, place |-> p]

(* save_share replaces the definition, or brings it back. *)
DefineShare(p) ==
  /\ IF share.defined THEN edits < MaxEdits /\ edits' = edits + 1 ELSE UNCHANGED edits
  /\ share' = Definition(p)
  /\ UNCHANGED <<store, pc, work, trace, faults, crashes>>

Advance(r) ==
  \/ List(r) \/ Fetch(r) \/ Fill(r) \/ Put(r) \/ Settle(r) \/ Record(r) \/ Log(r) \/ Finish(r)
  \/ \E o \in Objects : Filter(r, o) \/ Deny(r, o) \/ Skip(r, o) \/ Begin(r, o)

Next ==
  \/ \E r \in Runs :
       \/ Advance(r) \/ Refuse(r) \/ Raises(r) \/ FetchFails(r) \/ PutFails(r)
       \/ RecordFails(r) \/ LogFails(r)
  \/ \E r \in Runs, u \in Users : Start(r, u)
  \/ \E o \in Objects : Update(o) \/ Expire(o)
  \/ Kill \/ DeleteShare \/ \E p \in Places : DefineShare(p)

Spec == Init /\ [][Next]_vars

(* The share is run again and again for each user (cron, Airflow), and a run *)
(* goes on.                                                                  *)
FairSpec ==
  /\ Spec
  /\ \A r \in Runs : WF_vars(Advance(r)) /\ \A u \in Users : WF_vars(Start(r, u))

-----------------------------------------------------------------------------
(* The outcomes a run has decided, the one under way and the ones to come    *)
(* partition what it listed: no object is forgotten or reported twice.  But   *)
(* for two cases: an object the filters exclude is in no field of the result, *)
(* only its audit entry says that it was seen; and an upload that could not   *)
(* be recorded is counted and also reported as an error, then the destination *)
(* was written, and the trail has the error and not the transfer.             *)
Listed(r) == {o \in Objects : listing[r][o] # 0}
UnderWay(r) == IF pc[r] \in {"fetch", "fill", "put", "settle"} THEN {cur[r]} ELSE {}
In(r, outcome) == {o \in Objects : <<o, outcome>> \in result[r]}
Decided(r) == {o \in Objects : \E outcome \in Outcomes : <<o, outcome>> \in result[r]}
DisjointOutcomes(r) ==
  \A f, g \in Outcomes :
    f # g /\ {f, g} # {"transferred", "failed"} => In(r, f) \cap In(r, g) = {}
Unrecorded(r) ==
  {o \in wrote[r] : <<o, "error">> \in audited[r] /\ <<o, "transfer">> \notin audited[r]}
FilteredOut(r) == {o \in Objects : <<o, "filtered_out">> \in audited[r]}
AccountFor(r) ==
  /\ Listed(r) = FilteredOut(r) \cup Decided(r) \cup UnderWay(r) \cup todo[r]
  /\ FilteredOut(r) \subseteq Excluded
  /\ FilteredOut(r) \cap (Decided(r) \cup UnderWay(r) \cup todo[r]) = {}
  /\ DisjointOutcomes(r)
  /\ In(r, "transferred") \cap In(r, "failed") \subseteq Unrecorded(r)
  /\ Decided(r) \cap (UnderWay(r) \cup todo[r]) = {} /\ UnderWay(r) \cap todo[r] = {}
Treating ==
  {"object", "fetch", "fill", "put", "settle", "record", "audit", "finished"}
Accounted == \A r \in Runs : pc[r] \in Treating => AccountFor(r)

(* Once a run is done with an object it has touched at the destination, even *)
(* in an attempt that failed, its audit trail says transfer or error.        *)
WritesAreAudited ==
  \A r \in Runs, o \in Objects :
    o \in wrote[r] /\ ~(o = cur[r] /\ pc[r] \notin {"object", "finished"}) /\ pc[r] # "idle" =>
      <<o, "transfer">> \in audited[r] \/ <<o, "error">> \in audited[r]

(* What is skipped as unchanged is at the destination, at least as new as    *)
(* the version listed, as far as the stamps of the source tell versions      *)
(* apart: transfer.py, "the src-fingerprint we recorded last time we wrote    *)
(* dst".                                                                      *)
SkipsOnlyCurrent ==
  [][\A r \in Runs : \A o \in In(r, "skipped")' \ In(r, "skipped") :
       SrcStamp(dst[place[r]][o]) >= listing[r][o]]_vars

(* When the source stops changing and the share stays defined, the            *)
(* destination ends up equal to it, or at least at a version with the same    *)
(* stamp.                                                                     *)
EventuallySynced ==
  \A o \in Objects :
    Refused(o) \/ []<>~share.defined \/ <>[](SrcStamp(dst[share.place][o]) = SrcStamp(src[o]))
=============================================================================
