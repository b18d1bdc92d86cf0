--------------------------- MODULE ChunkedTransfer ---------------------------
(***************************************************************************)
(* The transfer of one large object: TransferEngine._transfer_one with its *)
(* retry, the pool of chunk uploads, the checkpoint of a resumable share   *)
(* and _stitch_parts (cdeh/core/transfer.py, cdeh/core/checkpoint.py).     *)
(*                                                                         *)
(* The runs execute on threads that share one TransferEngine, hence its    *)
(* fields _current_share_name and _current_checkpoint and its byte cache.  *)
(* They all read the same source object; each share writes a destination   *)
(* of its own, as chunk objects `.partNNNN` that are then stitched.        *)
(* Content is abstracted to the version of the source it was cut from.     *)
(***************************************************************************)
EXTENDS Naturals, FiniteSets, Adapters

CONSTANTS
  Runs,         \* threads that execute runs
  Shares,       \* shares of the source object
  ShareOf,      \* the share each thread runs
  Others,       \* shares that other threads run, shown only by what they do to
                \* the engine's fields and to the checkpoints
  Resumable,    \* shares defined with resumable=True
  NoShare,      \* _current_share_name before any run
  DstKind,      \* kind of the destination adapter
  NumChunks,    \* chunks of the object, at least two
  PoolSize,     \* workers of the upload pool (4 in the code)
  MaxAttempts,  \* retry.max_attempts
  MaxVersion,   \* bound on the versions of the source
  MaxCrashes    \* bound on kills

ASSUME ChunkAssumption ==
  /\ ShareOf \in [Runs -> Shares] /\ Others \subseteq Shares /\ Resumable \subseteq Shares /\ NoShare \notin Shares
  /\ DstKind \in Kinds
  /\ NumChunks \in Nat \ {0, 1} /\ PoolSize \in Nat \ {0} /\ MaxAttempts \in Nat \ {0}
  /\ MaxVersion \in Nat \ {0} /\ MaxCrashes \in Nat

VARIABLES
  src,           \* version of the source object
  cache,         \* version of the cached bytes (0: none)
  currentShare,  \* _current_share_name
  currentStore,  \* is _current_checkpoint a store?
  ckpt,          \* the checkpoint file of each share
  part,          \* version of each chunk object at the destination (0: absent)
  obj,           \* chunks of the stitched destination object (0: absent)
  pc,            \* where each run is
  data,          \* version of the bytes in hand
  store,         \* `cp`: did the attempt get a checkpoint store?
  done,          \* `already_done`
  chunk,         \* state of each chunk upload of the attempt
  parts,         \* chunks read back for stitching (0: not yet)
  next,          \* loop index of _stitch_parts
  attempt,       \* number of the attempt
  crashes

engine == <<cache, currentShare, currentStore>>
remote == <<part, obj>>
local == <<data, store, done, parts, next>>
vars == <<src, engine, ckpt, remote, pc, local, chunk, attempt, crashes>>

Chunks == 1 .. NumChunks
Versions == 0 .. MaxVersion
Content == [Chunks -> Versions]
Absent == [i \in Chunks |-> 0]
Uniform(content) == \A i, j \in Chunks : content[i] = content[j]

(* A checkpoint file; `size` is its total_bytes, 0 when the key is missing, *)
(* and nobody reads its completed_at.                                       *)
Checkpoints == [size : {0, NumChunks}, parts : SUBSET Chunks]
NoCheckpoint == [size |-> 0, parts |-> {}]
Length(version) == NumChunks

ChunkStates == {"queued", "running", "stored", "done", "failed", "cancelled"}

TypeOK ==
  /\ src \in 1 .. MaxVersion /\ cache \in Versions
  /\ currentShare \in Shares \cup {NoShare} /\ currentStore \in BOOLEAN
  /\ ckpt \in [Shares \cup {NoShare} -> Checkpoints]
  /\ part \in [Shares -> Content] /\ obj \in [Shares -> Content]
  /\ pc \in [Runs -> {"idle", "fetch", "plan", "upload", "drain", "stitch", "replace",
                      "delete", "mark", "finished", "failed"}]
  /\ data \in [Runs -> Versions] /\ store \in [Runs -> BOOLEAN]
  /\ done \in [Runs -> SUBSET Chunks] /\ parts \in [Runs -> Content]
  /\ chunk \in [Runs -> [Chunks -> ChunkStates]]
  /\ attempt \in [Runs -> 1 .. MaxAttempts]
  /\ next \in [Runs -> 1 .. NumChunks + 1] /\ crashes \in 0 .. MaxCrashes

Init ==
  /\ src = 1 /\ cache = 0 /\ currentShare = NoShare /\ currentStore = FALSE
  /\ ckpt = [s \in Shares \cup {NoShare} |-> NoCheckpoint]
  /\ part = [s \in Shares |-> Absent] /\ obj = [s \in Shares |-> Absent]
  /\ pc = [r \in Runs |-> "idle"] /\ data = [r \in Runs |-> 0]
  /\ store = [r \in Runs |-> FALSE] /\ done = [r \in Runs |-> {}]
  /\ parts = [r \in Runs |-> Absent]
  /\ chunk = [r \in Runs |-> [i \in Chunks |-> "queued"]]
  /\ next = [r \in Runs |-> 1] /\ attempt = [r \in Runs |-> 1] /\ crashes = 0

-----------------------------------------------------------------------------
At(r, label) == pc[r] = label
Goto(r, label) == pc' = [pc EXCEPT ![r] = label]
InState(r, state) == {i \in Chunks : chunk[r][i] = state}

(* The head of run: it writes the fields that every run of the engine shares. *)
Start(r) ==
  /\ pc[r] \in {"idle", "finished", "failed"}
  /\ currentShare' = ShareOf[r] /\ currentStore' = (ShareOf[r] \in Resumable)
  /\ attempt' = [attempt EXCEPT ![r] = 1]
  /\ Goto(r, "fetch")
  /\ UNCHANGED <<src, cache, ckpt, remote, local, chunk, crashes>>

Fetch(r) ==
  LET version == IF cache # 0 THEN cache ELSE src IN
  /\ At(r, "fetch")
  /\ data' = [data EXCEPT ![r] = version] /\ cache' = version
  /\ Goto(r, "plan")
  /\ UNCHANGED <<src, currentShare, currentStore, ckpt, remote, store, done, parts, next,
                 chunk, attempt, crashes>>

(* _maybe_checkpoint_for: the field of the engine, whatever share it is for. *)
CheckpointInUse == currentStore

(* Which chunks a previous run has already written. *)
AlreadyDone(version) ==
  LET existing == ckpt[currentShare] IN
  IF CheckpointInUse /\ existing.size = Length(version)
  THEN existing.parts ELSE {}

(* A retry that forgets to queue its chunks again (a defect for PutsAtomically). *)
Plan_KeepsChunks(r) ==
  /\ At(r, "plan")
  /\ store' = [store EXCEPT ![r] = CheckpointInUse]
  /\ done' = [done EXCEPT ![r] = AlreadyDone(data[r])]
  /\ parts' = [parts EXCEPT ![r] = Absent] /\ next' = [next EXCEPT ![r] = 1]
  /\ Goto(r, "upload")
  /\ UNCHANGED <<src, engine, ckpt, remote, data, chunk, attempt, crashes>>

Plan(r) ==
  /\ At(r, "plan")
  /\ store' = [store EXCEPT ![r] = CheckpointInUse]
  /\ done' = [done EXCEPT ![r] = AlreadyDone(data[r])]
  /\ chunk' = [chunk EXCEPT ![r] = [i \in Chunks |-> "queued"]]
  /\ parts' = [parts EXCEPT ![r] = Absent] /\ next' = [next EXCEPT ![r] = 1]
  /\ Goto(r, "upload")
  /\ UNCHANGED <<src, engine, ckpt, remote, data, attempt, crashes>>

-----------------------------------------------------------------------------
(* A retry that starts one attempt too many (a defect for TypeOK). *)
AttemptFails_OneMore(r) ==
  IF attempt[r] <= MaxAttempts
  THEN attempt' = [attempt EXCEPT ![r] = @ + 1] /\ Goto(r, "fetch")
  ELSE UNCHANGED attempt /\ Goto(r, "failed")

(* A retry that does not count its attempts (a defect for Terminates). *)
AttemptFails_Uncounted(r) == UNCHANGED attempt /\ Goto(r, "fetch")

(* _transfer_with_retry: the failed attempt is tried again, or given up when *)
(* it was the last or the audit entry of the retry cannot be written.         *)
AttemptFails(r) ==
  \/ /\ attempt[r] < MaxAttempts /\ attempt' = [attempt EXCEPT ![r] = @ + 1]
     /\ Goto(r, "fetch")
  \/ UNCHANGED attempt /\ Goto(r, "failed")

FetchFails(r) ==
  /\ At(r, "fetch") /\ cache = 0
  /\ AttemptFails(r)
  /\ UNCHANGED <<src, engine, ckpt, remote, local, chunk, crashes>>

(* The pool: workers take the chunks in order and upload them side by side. *)
Working(r) == InState(r, "running") \cup InState(r, "stored")
SetChunk(r, i, state) == chunk' = [chunk EXCEPT ![r][i] = state]

StartChunk(r) ==
  \E i \in InState(r, "queued") :
    /\ pc[r] \in {"upload", "drain"} /\ \A j \in InState(r, "queued") : i <= j
    /\ Cardinality(Working(r)) < PoolSize
    /\ SetChunk(r, i, "running")
    /\ UNCHANGED <<src, engine, ckpt, remote, pc, local, attempt, crashes>>

UploadChunk(r, i) ==
  /\ chunk[r][i] = "running"
  /\ IF i \in done[r]
     THEN UNCHANGED part /\ SetChunk(r, i, "done")
     ELSE /\ part' = [part EXCEPT ![ShareOf[r]][i] = data[r]]
          /\ SetChunk(r, i, IF store[r] THEN "stored" ELSE "done")
  /\ UNCHANGED <<src, engine, ckpt, obj, pc, local, attempt, crashes>>

(* A put_part that also records total_bytes (a defect for NoMixture). *)
NoteChunk_WithSize(r, i) ==
  /\ chunk[r][i] = "stored"
  /\ ckpt' = [ckpt EXCEPT ![currentShare].parts = @ \cup {i},
                          ![currentShare].size = Length(data[r])]
  /\ SetChunk(r, i, "done")
  /\ UNCHANGED <<src, engine, remote, pc, local, attempt, crashes>>

(* put_part, under the share name that the engine holds at this moment. *)
NoteChunk(r, i) ==
  /\ chunk[r][i] = "stored"
  /\ ckpt' = [ckpt EXCEPT ![currentShare].parts = @ \cup {i}]
  /\ SetChunk(r, i, "done")
  /\ UNCHANGED <<src, engine, remote, pc, local, attempt, crashes>>

(* The upload raises, or put_part does: two stores share one `.tmp` file. *)
ChunkFails(r, i) ==
  /\ SetChunk(r, i, "failed")
  /\ \/ /\ chunk[r][i] = "running" /\ i \notin done[r]
        /\ \E left \in PutLeaves(DstKind, part[ShareOf[r]][i], 0, data[r]) :
             part' = [part EXCEPT ![ShareOf[r]][i] = left]
     \/ chunk[r][i] = "stored" /\ UNCHANGED part
  /\ UNCHANGED <<src, engine, ckpt, obj, pc, local, attempt, crashes>>

(* ex.map yields the results in order: a failure shows up behind the chunks *)
(* before it, and cancels those that no worker has taken.                   *)
Collect(r) ==
  /\ At(r, "upload")
  /\ \E i \in InState(r, "failed") : \A j \in Chunks : j < i => chunk[r][j] = "done"
  /\ chunk' = [chunk EXCEPT ![r] =
                 [i \in Chunks |-> IF @[i] = "queued" THEN "cancelled" ELSE @[i]]]
  /\ Goto(r, "drain")
  /\ UNCHANGED <<src, engine, ckpt, remote, local, attempt, crashes>>

(* A pool shut down without waiting (a defect for AttemptsDoNotOverlap). *)
Drain_NoWait(r) ==
  /\ At(r, "drain")
  /\ AttemptFails(r)
  /\ UNCHANGED <<src, engine, ckpt, remote, local, chunk, crashes>>

(* The end of the `with` block waits for the workers before the exception goes on. *)
Drain(r) ==
  /\ At(r, "drain") /\ InState(r, "queued") \cup Working(r) = {}
  /\ AttemptFails(r)
  /\ UNCHANGED <<src, engine, ckpt, remote, local, chunk, crashes>>

(* Results of the pool that nobody looks at (a defect for FinishedIsStored). *)
AllDone_OrFailed(r) == InState(r, "queued") \cup Working(r) = {}

AllDone(r) == InState(r, "done") = Chunks

Uploaded(r) ==
  /\ At(r, "upload") /\ AllDone(r)
  /\ Goto(r, "stitch")
  /\ UNCHANGED <<src, engine, ckpt, remote, local, chunk, attempt, crashes>>

-----------------------------------------------------------------------------
(* _stitch_parts: read every part, write the object, delete every part. *)
ReadPart(r) ==
  LET i == next[r] IN
  /\ At(r, "stitch")
  /\ part[ShareOf[r]][i] # 0
  /\ parts' = [parts EXCEPT ![r][i] = part[ShareOf[r]][i]]
  /\ IF i < NumChunks
     THEN next' = [next EXCEPT ![r] = i + 1] /\ UNCHANGED pc
     ELSE next' = [next EXCEPT ![r] = 1] /\ Goto(r, "replace")
  /\ UNCHANGED <<src, engine, ckpt, remote, data, store, done, chunk, attempt, crashes>>

(* A read fails, on a part that is missing or for any other reason. *)
ReadFails(r) ==
  /\ At(r, "stitch")
  /\ AttemptFails(r)
  /\ UNCHANGED <<src, engine, ckpt, remote, local, chunk, crashes>>

Replace(r) ==
  /\ At(r, "replace")
  /\ obj' = [obj EXCEPT ![ShareOf[r]] = parts[r]]
  /\ Goto(r, "delete")
  /\ UNCHANGED <<src, engine, ckpt, part, local, chunk, attempt, crashes>>

ReplaceFails(r) ==
  /\ At(r, "replace")
  /\ \E left \in PutLeaves(DstKind, obj[ShareOf[r]], Absent, parts[r]) :
       obj' = [obj EXCEPT ![ShareOf[r]] = left]
  /\ AttemptFails(r)
  /\ UNCHANGED <<src, engine, ckpt, part, local, chunk, crashes>>

(* A part that cannot be deleted is left behind, ... *)
DeletePart(r) ==
  LET i == next[r] IN
  /\ At(r, "delete")
  /\ \/ "gone" \in DeleteEnds(DstKind) /\ part' = [part EXCEPT ![ShareOf[r]][i] = 0]
     \/ "kept" \in DeleteEnds(DstKind) /\ UNCHANGED part
  /\ next' = [next EXCEPT ![r] = i + 1]
  /\ IF i < NumChunks THEN UNCHANGED pc ELSE Goto(r, "mark")
  /\ UNCHANGED <<src, engine, ckpt, obj, data, store, done, parts, chunk, attempt, crashes>>

(* ... unless the adapter raises something else than an AdapterError. *)
DeleteFails(r) ==
  /\ At(r, "delete") /\ "raises" \in DeleteEnds(DstKind)
  /\ AttemptFails(r)
  /\ UNCHANGED <<src, engine, ckpt, remote, local, chunk, crashes>>

(* mark_completed keeps the parts of the checkpoint. *)
Mark(r) ==
  /\ At(r, "mark")
  /\ Goto(r, "finished")
  /\ UNCHANGED <<src, engine, ckpt, remote, local, chunk, attempt, crashes>>

MarkFails(r) ==
  /\ At(r, "mark") /\ store[r]
  /\ AttemptFails(r)
  /\ UNCHANGED <<src, engine, ckpt, remote, local, chunk, crashes>>

-----------------------------------------------------------------------------
(* The environment. *)
Update ==
  /\ src < MaxVersion /\ src' = src + 1
  /\ UNCHANGED <<engine, ckpt, remote, pc, local, chunk, attempt, crashes>>

(* Runs on other threads: they start, and their chunks are recorded in the    *)
(* checkpoint of the share that the engine holds.                             *)
StartOther(s) ==
  /\ currentShare' = s /\ currentStore' = (s \in Resumable)
  /\ UNCHANGED <<src, cache, ckpt, remote, pc, local, chunk, attempt, crashes>>

NoteOther(i) ==
  /\ currentShare # NoShare
  /\ ckpt' = [ckpt EXCEPT ![currentShare].parts = @ \cup {i}]
  /\ UNCHANGED <<src, engine, remote, pc, local, chunk, attempt, crashes>>

(* The cache entry expires, is evicted, or is invalidated by run. *)
Expire ==
  /\ cache # 0 /\ cache' = 0
  /\ UNCHANGED <<src, currentShare, currentStore, ckpt, remote, pc, local, chunk, attempt,
                 crashes>>

(* A kill leaves the files of the checkpoints, and the remote objects, those *)
(* that were being written perhaps cut short.                                *)
Truncates == 0 \in PutLeaves(DstKind, 1, 0, 1)

Kill ==
  /\ crashes < MaxCrashes /\ crashes' = crashes + 1
  /\ pc' = [r \in Runs |-> "idle"]
  /\ chunk' = [r \in Runs |-> [i \in Chunks |-> "queued"]]
  /\ cache' = 0 /\ currentShare' = NoShare /\ currentStore' = FALSE
  /\ \E torn \in BOOLEAN :
       LET TornPart(s, i) == \E r \in Runs : ShareOf[r] = s /\ chunk[r][i] = "running"
           TornObject(s) == \E r \in Runs : ShareOf[r] = s /\ At(r, "replace")
       IN  /\ torn => Truncates
           /\ part' = [s \in Shares |-> [i \in Chunks |->
                         IF torn /\ TornPart(s, i) THEN 0 ELSE part[s][i]]]
           /\ obj' = [s \in Shares |-> IF torn /\ TornObject(s) THEN Absent ELSE obj[s]]
  /\ UNCHANGED <<src, ckpt, local, attempt>>

Advance(r) ==
  \/ Fetch(r) \/ Plan(r) \/ StartChunk(r) \/ Collect(r) \/ Drain(r) \/ Uploaded(r)
  \/ ReadPart(r) \/ Replace(r) \/ DeletePart(r) \/ Mark(r)
  \/ \E i \in Chunks : UploadChunk(r, i) \/ NoteChunk(r, i)

Fails(r) ==
  \/ FetchFails(r) \/ ReadFails(r) \/ ReplaceFails(r) \/ DeleteFails(r) \/ MarkFails(r)
  \/ \E i \in Chunks : ChunkFails(r, i)

Next ==
  \/ \E r \in Runs : Start(r) \/ Advance(r) \/ Fails(r)
  \/ \E s \in Others : StartOther(s)
  \/ Others # {} /\ \E i \in Chunks : NoteOther(i)
  \/ Update \/ Expire \/ Kill

Spec == Init /\ [][Next]_vars

(* A thread goes on: each call of it returns, or raises. *)
FairSpec == Spec /\ \A r \in Runs : WF_vars(Advance(r) \/ Fails(r))

-----------------------------------------------------------------------------
(* "skip chunks that were already written": the stitched object is never a  *)
(* mixture of two versions of the source, whatever run wrote its chunks.    *)
NoMixture == \A s \in Shares : Uniform(obj[s])

(* An object made of two versions has none of its own. *)
VersionOf(content) == IF Uniform(content) THEN content[1] ELSE MaxVersion + 1

Phase(label) ==
  CASE label = "fetch" -> "taking"
    [] label \in {"idle", "finished", "failed"} -> label
    [] OTHER -> "putting"

(* Chunks, their checkpoint, the cache and the pool do not show: from the    *)
(* outside, the transfer of a large object is a put of one version, in one   *)
(* change of the destination (_transfer_one and _transfer_with_retry).       *)
Transfer == INSTANCE AtomicPut WITH
  MayCut <- Truncates, newest <- src, taken <- data,
  object <- [s \in Shares |-> VersionOf(obj[s])], phase <- [r \in Runs |-> Phase(pc[r])]
PutsAtomically == Transfer!Spec

(* A run that ends well has left at the destination what it fetched.        *)
FinishedIsStored ==
  \A r \in Runs : At(r, "finished") => obj[ShareOf[r]] = [i \in Chunks |-> data[r]]

(* No upload of a failed attempt is still under way when the next attempt   *)
(* fetches again, or when the run reports the failure.                      *)
AttemptsDoNotOverlap ==
  \A r \in Runs : pc[r] \in {"fetch", "plan", "stitch", "finished", "failed"} => Working(r) = {}

(* However many calls fail, a run comes to an end.                          *)
Terminates ==
  \A r \in Runs : At(r, "fetch") ~> pc[r] \in {"idle", "finished", "failed"}

(* "we skip chunks that were already written in a previous run": a chunk    *)
(* that the checkpoint records, and whose object holds these very bytes, is *)
(* not uploaded again.                                                      *)
ResumeSkips ==
  [][\A r \in Runs, i \in Chunks :
       chunk[r][i] = "running" /\ chunk'[r][i] = "stored" =>
         ~(i \in ckpt[ShareOf[r]].parts /\ part[ShareOf[r]][i] = data[r])]_vars
=============================================================================
