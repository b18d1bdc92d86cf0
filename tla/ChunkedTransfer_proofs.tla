------------------------ MODULE ChunkedTransfer_proofs ------------------------
(***************************************************************************)
(* The transfer of a large object, for every number of runs, shares,       *)
(* chunks, workers, attempts, versions and kills: types, attempts that do   *)
(* not overlap, and, where no two runs execute the same share, objects      *)
(* that are never a mixture of versions.                                     *)
(***************************************************************************)
EXTENDS ChunkedTransfer, TLAPS

(* The parts of the state. *)
SharedOK ==
  /\ src \in 1 .. MaxVersion /\ cache \in Versions
  /\ currentShare \in Shares \cup {NoShare} /\ currentStore \in BOOLEAN
FilesOK == ckpt \in [Shares \cup {NoShare} -> Checkpoints]
PartsOK == part \in [Shares -> Content]
ObjectsOK == obj \in [Shares -> Content]
Labels == {"idle", "fetch", "plan", "upload", "drain", "stitch", "replace",
           "delete", "mark", "finished", "failed"}
PlaceOK == pc \in [Runs -> Labels]
LocalOK ==
  /\ data \in [Runs -> Versions] /\ store \in [Runs -> BOOLEAN]
  /\ done \in [Runs -> SUBSET Chunks] /\ parts \in [Runs -> Content]
  /\ next \in [Runs -> 1 .. NumChunks + 1]
PoolOK == chunk \in [Runs -> [Chunks -> ChunkStates]]
AttemptOK == attempt \in [Runs -> 1 .. MaxAttempts]
CrashOK == crashes \in 0 .. MaxCrashes

LEMMA TypeParts ==
  /\ TypeOK <=> SharedOK /\ FilesOK /\ PartsOK /\ ObjectsOK /\ PlaceOK /\ LocalOK /\ PoolOK
                  /\ AttemptOK /\ CrashOK
  /\ TypeOK' <=> SharedOK' /\ FilesOK' /\ PartsOK' /\ ObjectsOK' /\ PlaceOK' /\ LocalOK' /\ PoolOK'
                  /\ AttemptOK' /\ CrashOK'
  BY DEF TypeOK, SharedOK, FilesOK, PartsOK, ObjectsOK, PlaceOK, Labels, LocalOK, PoolOK,
         AttemptOK, CrashOK

(* A part that a step leaves alone keeps its type. *)
LEMMA TypeFrame ==
  /\ UNCHANGED <<src, engine>> /\ SharedOK => SharedOK'
  /\ UNCHANGED ckpt /\ FilesOK => FilesOK'
  /\ UNCHANGED part /\ PartsOK => PartsOK'
  /\ UNCHANGED obj /\ ObjectsOK => ObjectsOK'
  /\ UNCHANGED pc /\ PlaceOK => PlaceOK'
  /\ UNCHANGED local /\ LocalOK => LocalOK'
  /\ UNCHANGED chunk /\ PoolOK => PoolOK'
  /\ UNCHANGED attempt /\ AttemptOK => AttemptOK'
  /\ UNCHANGED crashes /\ CrashOK => CrashOK'
  BY DEF engine, local, SharedOK, FilesOK, PartsOK, ObjectsOK, PlaceOK, LocalOK, PoolOK,
         AttemptOK, CrashOK

LEMMA VersionTypes ==
  /\ 0 \in Versions /\ 1 .. MaxVersion \subseteq Versions
  /\ Absent \in Content /\ 1 \in Chunks /\ 1 \in 1 .. NumChunks + 1
  BY ChunkAssumption DEF Versions, Absent, Content, Chunks

(* A failing put leaves the old bytes, the new ones, or a file cut short. *)
LEMMA LeavesOneOf ==
  ASSUME NEW old, NEW cut, NEW new, NEW left \in PutLeaves(DstKind, old, cut, new)
  PROVE  left \in {old, cut, new}
  BY ChunkAssumption
  DEF Kinds, PutLeaves, LocalPutLeaves, S3PutLeaves, AzurePutLeaves, SftpPutLeaves, MysqlPutLeaves

-----------------------------------------------------------------------------
(* No checkpoint has a size to compare with, so no chunk is ever skipped. *)
NoSizes == \A s \in Shares \cup {NoShare} : ckpt[s].size = 0

(* A loop over the chunks is inside its bounds; the pool works only inside  *)
(* its `with` block; parts are stitched when every chunk is uploaded.        *)
InBounds(r) ==
  /\ pc[r] \in {"upload", "stitch", "replace", "delete"} => next[r] \in Chunks
  /\ pc[r] = "upload" => next[r] = 1
PoolClosed(r) == pc[r] \notin {"upload", "drain"} => Working(r) = {}
StitchAll(r) == At(r, "stitch") => AllDone(r)
RunInv(r) == InBounds(r) /\ PoolClosed(r) /\ StitchAll(r) /\ done[r] = {}

PoolInv == TypeOK /\ NoSizes /\ \A r \in Runs : RunInv(r)

LEMMA GotoType ==
  ASSUME PlaceOK, NEW r \in Runs, NEW label \in Labels, Goto(r, label)
  PROVE  PlaceOK'
  BY DEF PlaceOK, Goto

LEMMA SetChunkType ==
  ASSUME PoolOK, NEW r \in Runs, NEW i \in Chunks, NEW state \in ChunkStates, SetChunk(r, i, state)
  PROVE  PoolOK'
  BY DEF PoolOK, SetChunk

LEMMA AttemptType ==
  ASSUME TypeOK, NEW r \in Runs, AttemptFails(r)
  PROVE  PlaceOK' /\ AttemptOK'
  <1> USE TypeParts
  <1>1. attempt' \in [Runs -> 1 .. MaxAttempts]
    BY ChunkAssumption DEF AttemptFails, AttemptOK
  <1>2. PlaceOK'
    BY GotoType DEF AttemptFails, Labels
  <1> QED BY <1>1, <1>2 DEF AttemptOK

LEMMA InitPool == Init => PoolInv
  <1> SUFFICES ASSUME Init PROVE PoolInv
    OBVIOUS
  <1>1. SharedOK
    <2>1. 1 \in 1 .. MaxVersion /\ 0 \in Versions
      BY ChunkAssumption DEF Versions
    <2> QED BY <2>1 DEF Init, SharedOK
  <1>2. CrashOK /\ AttemptOK
    BY ChunkAssumption DEF Init, CrashOK, AttemptOK
  <1>3. FilesOK /\ NoSizes
    BY DEF Init, FilesOK, NoSizes, Checkpoints, NoCheckpoint
  <1>4. PartsOK /\ ObjectsOK /\ LocalOK
    BY VersionTypes DEF Init, PartsOK, ObjectsOK, LocalOK
  <1>5. PlaceOK /\ PoolOK
    BY DEF Init, PlaceOK, Labels, PoolOK, ChunkStates
  <1>6. ASSUME NEW r \in Runs PROVE RunInv(r)
    BY DEF Init, RunInv, InBounds, PoolClosed, StitchAll, At, Working, InState
  <1> QED BY <1>1, <1>2, <1>3, <1>4, <1>5, <1>6, TypeParts DEF PoolInv

(* Every step keeps the types. *)
LEMMA NextType == PoolInv /\ [Next]_vars => TypeOK'
  <1> SUFFICES ASSUME PoolInv, [Next]_vars PROVE TypeOK'
    OBVIOUS
  <1> USE TypeParts
  <1>0. TypeOK
    BY DEF PoolInv
  <1>1. ASSUME NEW r \in Runs, Start(r) PROVE TypeOK'
    <2>1. SharedOK'
      BY <1>0, <1>1, ChunkAssumption DEF Start, SharedOK
    <2>2. AttemptOK'
      BY <1>0, <1>1, ChunkAssumption DEF Start, AttemptOK
    <2>3. PlaceOK'
      BY <1>0, <1>1, GotoType DEF Start, Labels
    <2> QED
      BY <1>0, <1>1, <2>1, <2>2, <2>3, TypeFrame DEF Start, remote
  <1>2. ASSUME NEW r \in Runs, Fetch(r) PROVE TypeOK'
    <2>1. (IF cache # 0 THEN cache ELSE src) \in Versions
      BY <1>0, VersionTypes DEF SharedOK
    <2>2. SharedOK'
      BY <1>0, <1>2, <2>1 DEF Fetch, SharedOK
    <2>3. LocalOK'
      BY <1>0, <1>2, <2>1 DEF Fetch, LocalOK
    <2>4. PlaceOK'
      BY <1>0, <1>2, GotoType DEF Fetch, Labels
    <2> QED
      BY <1>0, <1>2, <2>2, <2>3, <2>4, TypeFrame DEF Fetch, remote
  <1>3. ASSUME NEW r \in Runs, Plan(r) PROVE TypeOK'
    <2>1. AlreadyDone(data[r]) \in SUBSET Chunks /\ CheckpointInUse \in BOOLEAN
      BY <1>0 DEF AlreadyDone, CheckpointInUse, SharedOK, FilesOK, Checkpoints
    <2>2. LocalOK'
      BY <1>0, <1>3, <2>1, VersionTypes DEF Plan, LocalOK
    <2>3. PoolOK'
      BY <1>0, <1>3 DEF Plan, PoolOK, ChunkStates
    <2>4. PlaceOK'
      BY <1>0, <1>3, GotoType DEF Plan, Labels
    <2> QED
      BY <1>0, <1>3, <2>2, <2>3, <2>4, TypeFrame DEF Plan, remote
  <1>4. ASSUME NEW r \in Runs, FetchFails(r) \/ Drain(r) \/ ReadFails(r) \/ DeleteFails(r) \/ MarkFails(r)
        PROVE TypeOK'
    <2>1. PlaceOK' /\ AttemptOK'
      BY <1>0, <1>4, AttemptType DEF FetchFails, Drain, ReadFails, DeleteFails, MarkFails
    <2> QED
      BY <1>0, <1>4, <2>1, TypeFrame DEF FetchFails, Drain, ReadFails, DeleteFails, MarkFails, remote
  <1>5. ASSUME NEW r \in Runs, StartChunk(r) PROVE TypeOK'
    <2>1. PoolOK'
      BY <1>0, <1>5, SetChunkType DEF StartChunk, InState, ChunkStates
    <2> QED
      BY <1>0, <1>5, <2>1, TypeFrame DEF StartChunk, remote
  <1>6. ASSUME NEW r \in Runs, NEW i \in Chunks, UploadChunk(r, i) PROVE TypeOK'
    <2>1. PoolOK'
      BY <1>0, <1>6, SetChunkType DEF UploadChunk, ChunkStates
    <2>2. PartsOK'
      <3>1. CASE i \in done[r]
        BY <1>0, <1>6, <3>1, TypeFrame DEF UploadChunk
      <3>2. CASE i \notin done[r]
        <4>1. ShareOf[r] \in Shares /\ data[r] \in Versions
          BY <1>0, ChunkAssumption DEF LocalOK
        <4>2. part' = [part EXCEPT ![ShareOf[r]][i] = data[r]]
          BY <1>6, <3>2 DEF UploadChunk
        <4> QED
          BY <1>0, <4>1, <4>2 DEF PartsOK, Content
      <3> QED BY <3>1, <3>2
    <2> QED
      BY <1>0, <1>6, <2>1, <2>2, TypeFrame DEF UploadChunk
  <1>7. ASSUME NEW i \in Chunks,
               \/ NoteOther(i)
               \/ \E r \in Runs : NoteChunk(r, i)
        PROVE TypeOK'
    <2>1. FilesOK'
      BY <1>0, <1>7 DEF NoteOther, NoteChunk, FilesOK, Checkpoints
    <2>2. PoolOK'
      BY <1>0, <1>7, SetChunkType DEF NoteOther, NoteChunk, PoolOK, ChunkStates
    <2> QED
      BY <1>0, <1>7, <2>1, <2>2, TypeFrame DEF NoteOther, NoteChunk, remote
  <1>8. ASSUME NEW r \in Runs, NEW i \in Chunks, ChunkFails(r, i) PROVE TypeOK'
    <2>1. PoolOK'
      BY <1>0, <1>8, SetChunkType DEF ChunkFails, ChunkStates
    <2>2. PartsOK'
      <3>1. CASE UNCHANGED part
        BY <1>0, <3>1, TypeFrame
      <3>2. CASE \E left \in PutLeaves(DstKind, part[ShareOf[r]][i], 0, data[r]) :
                   part' = [part EXCEPT ![ShareOf[r]][i] = left]
        <4>1. ShareOf[r] \in Shares
          BY ChunkAssumption
        <4>2. part[ShareOf[r]][i] \in Versions /\ data[r] \in Versions
          BY <1>0, <4>1 DEF PartsOK, Content, LocalOK
        <4> QED
          BY <1>0, <3>2, <4>1, <4>2, LeavesOneOf, VersionTypes DEF PartsOK, Content
      <3> QED BY <1>8, <3>1, <3>2 DEF ChunkFails
    <2> QED
      BY <1>0, <1>8, <2>1, <2>2, TypeFrame DEF ChunkFails
  <1>9. ASSUME NEW r \in Runs, Collect(r) PROVE TypeOK'
    <2>1. PoolOK'
      BY <1>0, <1>9 DEF Collect, PoolOK, ChunkStates
    <2>2. PlaceOK'
      BY <1>0, <1>9, GotoType DEF Collect, Labels
    <2> QED
      BY <1>0, <1>9, <2>1, <2>2, TypeFrame DEF Collect, remote
  <1>10. ASSUME NEW r \in Runs, Uploaded(r) \/ Mark(r) PROVE TypeOK'
    <2>1. PlaceOK'
      BY <1>0, <1>10, GotoType DEF Uploaded, Mark, Labels
    <2> QED
      BY <1>0, <1>10, <2>1, TypeFrame DEF Uploaded, Mark, remote
  <1>11. ASSUME NEW r \in Runs, ReadPart(r) PROVE TypeOK'
    <2>1. ShareOf[r] \in Shares /\ next[r] \in Chunks
      BY <1>11, ChunkAssumption DEF PoolInv, RunInv, InBounds, ReadPart, At
    <2>2. parts' \in [Runs -> Content]
      BY <1>0, <1>11, <2>1 DEF ReadPart, LocalOK, PartsOK, Content
    <2>3. next' \in [Runs -> 1 .. NumChunks + 1]
      BY <1>0, <1>11, <2>1, ChunkAssumption DEF ReadPart, LocalOK, Chunks
    <2>4. PlaceOK'
      BY <1>0, <1>11, GotoType DEF ReadPart, Labels, PlaceOK
    <2>5. LocalOK'
      BY <1>0, <1>11, <2>2, <2>3 DEF ReadPart, LocalOK
    <2> QED
      BY <1>0, <1>11, <2>4, <2>5, TypeFrame DEF ReadPart, remote
  <1>12. ASSUME NEW r \in Runs, Replace(r) PROVE TypeOK'
    <2>1. ObjectsOK'
      BY <1>0, <1>12 DEF Replace, ObjectsOK, LocalOK
    <2>2. PlaceOK'
      BY <1>0, <1>12, GotoType DEF Replace, Labels
    <2> QED
      BY <1>0, <1>12, <2>1, <2>2, TypeFrame DEF Replace
  <1>13. ASSUME NEW r \in Runs, ReplaceFails(r) PROVE TypeOK'
    <2>1. PICK left \in PutLeaves(DstKind, obj[ShareOf[r]], Absent, parts[r]) :
                 obj' = [obj EXCEPT ![ShareOf[r]] = left]
      BY <1>13 DEF ReplaceFails
    <2>2. left \in Content
      BY <1>0, LeavesOneOf, VersionTypes, ChunkAssumption DEF ObjectsOK, LocalOK
    <2>3. ObjectsOK'
      BY <1>0, <2>1, <2>2 DEF ObjectsOK
    <2>4. PlaceOK' /\ AttemptOK'
      BY <1>0, <1>13, AttemptType DEF ReplaceFails
    <2> QED
      BY <1>0, <1>13, <2>3, <2>4, TypeFrame DEF ReplaceFails
  <1>14. ASSUME NEW r \in Runs, DeletePart(r) PROVE TypeOK'
    <2>1. next[r] \in Chunks
      BY <1>14 DEF PoolInv, RunInv, InBounds, DeletePart, At
    <2>2. next' \in [Runs -> 1 .. NumChunks + 1]
      BY <1>0, <1>14, <2>1, ChunkAssumption DEF DeletePart, LocalOK, Chunks
    <2>3. LocalOK'
      BY <1>0, <1>14, <2>2 DEF DeletePart, LocalOK
    <2>4. PartsOK'
      BY <1>0, <1>14, VersionTypes DEF DeletePart, PartsOK, Content
    <2>5. PlaceOK'
      BY <1>0, <1>14, GotoType DEF DeletePart, Labels, PlaceOK
    <2> QED
      BY <1>0, <1>14, <2>3, <2>4, <2>5, TypeFrame DEF DeletePart
  <1>15. ASSUME NEW s \in Others, StartOther(s) PROVE TypeOK'
    <2>1. SharedOK'
      BY <1>0, <1>15, ChunkAssumption DEF StartOther, SharedOK
    <2> QED
      BY <1>0, <1>15, <2>1, TypeFrame DEF StartOther, remote
  <1>16. CASE Update \/ Expire
    <2>1. SharedOK'
      BY <1>0, <1>16, ChunkAssumption, VersionTypes DEF Update, Expire, SharedOK, engine
    <2> QED
      BY <1>0, <1>16, <2>1, TypeFrame DEF Update, Expire, remote
  <1>17. CASE Kill
    <2>1. SharedOK'
      BY <1>0, <1>17, VersionTypes DEF Kill, SharedOK
    <2>5. CrashOK'
      BY <1>0, <1>17, ChunkAssumption DEF Kill, CrashOK
    <2>2. PlaceOK' /\ PoolOK'
      BY <1>17 DEF Kill, PlaceOK, Labels, PoolOK, ChunkStates
    <2>3. PartsOK'
      BY <1>0, <1>17, VersionTypes DEF Kill, PartsOK, Content
    <2>4. ObjectsOK'
      BY <1>0, <1>17, VersionTypes DEF Kill, ObjectsOK
    <2> QED
      BY <1>0, <1>17, <2>1, <2>2, <2>3, <2>4, <2>5, TypeFrame DEF Kill
  <1>18. CASE UNCHANGED vars
    BY <1>0, <1>18, TypeFrame DEF vars, remote
  <1> QED
    BY <1>1, <1>2, <1>3, <1>4, <1>5, <1>6, <1>7, <1>8, <1>9, <1>10, <1>11, <1>12, <1>13, <1>14,
       <1>15, <1>16, <1>17, <1>18
    DEF Next, Advance, Fails

-----------------------------------------------------------------------------
(* What the invariant of a run looks at. *)
seen(r) == <<pc[r], chunk[r], next[r], done[r]>>

LEMMA SeenFrame ==
  ASSUME NEW r \in Runs, RunInv(r), UNCHANGED seen(r)
  PROVE  RunInv(r)'
  BY DEF seen, RunInv, InBounds, PoolClosed, StitchAll, AllDone, At, Working, InState

(* A chunk that is in work is in work inside the `with` block. *)
LEMMA WorkIsInside ==
  ASSUME NEW r \in Runs, RunInv(r), NEW i \in Chunks, chunk[r][i] \in {"running", "stored"}
  PROVE  pc[r] \in {"upload", "drain"}
  BY DEF RunInv, PoolClosed, Working, InState

(* A failed attempt leaves no work behind. *)
LEMMA AttemptInv ==
  ASSUME TypeOK, NEW r \in Runs, RunInv(r), AttemptFails(r), Working(r) = {},
         UNCHANGED <<local, chunk>>
  PROVE  RunInv(r)' /\ \A q \in Runs \ {r} : UNCHANGED seen(q)
  <1>1. pc'[r] \in {"fetch", "failed"} /\ \A q \in Runs \ {r} : pc'[q] = pc[q]
    BY DEF AttemptFails, Goto, TypeOK
  <1>2. \A q \in Runs \ {r} : UNCHANGED seen(q)
    BY <1>1 DEF seen, local
  <1>3. Working(r)' = {}
    BY DEF Working, InState
  <1>4. UNCHANGED done
    BY DEF local
  <1> QED
    BY <1>1, <1>2, <1>3, <1>4 DEF RunInv, InBounds, PoolClosed, StitchAll, At

LEMMA NextRuns == PoolInv /\ [Next]_vars => \A r \in Runs : RunInv(r)'
  <1> SUFFICES ASSUME PoolInv, [Next]_vars PROVE \A r \in Runs : RunInv(r)'
    OBVIOUS
  <1>0. TypeOK /\ \A r \in Runs : RunInv(r)
    BY DEF PoolInv
  (* A step of one run. *)
  <1>a. ASSUME NEW r \in Runs, RunInv(r)', \A q \in Runs \ {r} : UNCHANGED seen(q)
        PROVE  \A q \in Runs : RunInv(q)'
    <2> SUFFICES ASSUME NEW q \in Runs PROVE RunInv(q)'
      OBVIOUS
    <2>1. CASE q = r
      BY <1>a, <2>1
    <2>2. CASE q # r
      BY <1>0, <1>a, <2>2, SeenFrame
    <2> QED BY <2>1, <2>2
  (* A step that changes no run. *)
  <1>b. ASSUME UNCHANGED <<pc, chunk, next, done>>
        PROVE  \A q \in Runs : RunInv(q)'
    <2>1. \A q \in Runs : UNCHANGED seen(q)
      BY <1>b DEF seen
    <2> QED BY <1>0, <2>1, SeenFrame
  <1>1. ASSUME NEW r \in Runs, Start(r) PROVE \A q \in Runs : RunInv(q)'
    <2>1. \A q \in Runs \ {r} : UNCHANGED seen(q)
      BY <1>0, <1>1 DEF Start, Goto, seen, local, TypeOK
    <2>2. RunInv(r)'
      <3>1. pc'[r] = "fetch" /\ Working(r)' = Working(r) /\ done' = done
        BY <1>0, <1>1 DEF Start, Goto, Working, InState, local, TypeOK
      <3> QED
        BY <1>0, <1>1, <3>1 DEF Start, RunInv, InBounds, PoolClosed, StitchAll, At
    <2> QED BY <1>a, <2>1, <2>2
  <1>2. ASSUME NEW r \in Runs, Fetch(r) PROVE \A q \in Runs : RunInv(q)'
    <2>1. \A q \in Runs \ {r} : UNCHANGED seen(q)
      BY <1>0, <1>2 DEF Fetch, Goto, seen, local, TypeOK
    <2>2. RunInv(r)'
      <3>1. pc'[r] = "plan" /\ Working(r)' = Working(r) /\ done' = done
        BY <1>0, <1>2 DEF Fetch, Goto, Working, InState, TypeOK
      <3> QED
        BY <1>0, <1>2, <3>1 DEF Fetch, RunInv, InBounds, PoolClosed, StitchAll, At
    <2> QED BY <1>a, <2>1, <2>2
  <1>3. ASSUME NEW r \in Runs, Plan(r) PROVE \A q \in Runs : RunInv(q)'
    <2>1. \A q \in Runs \ {r} : UNCHANGED seen(q)
      BY <1>0, <1>3 DEF Plan, Goto, seen, local, TypeOK
    <2>2. RunInv(r)'
      <3>1. pc'[r] = "upload" /\ next'[r] = 1
        BY <1>0, <1>3 DEF Plan, Goto, TypeOK
      <3>2. AlreadyDone(data[r]) = {}
        BY ChunkAssumption DEF PoolInv, NoSizes, TypeOK, AlreadyDone, Length
      <3>3. done'[r] = {}
        BY <1>0, <1>3, <3>2 DEF Plan, TypeOK
      <3> QED
        BY <3>1, <3>3, VersionTypes DEF RunInv, InBounds, PoolClosed, StitchAll, At
    <2> QED BY <1>a, <2>1, <2>2
  <1>4. ASSUME NEW r \in Runs, FetchFails(r) \/ Drain(r) \/ ReadFails(r) \/ ReplaceFails(r) \/ DeleteFails(r) \/ MarkFails(r) PROVE \A q \in Runs : RunInv(q)'
    <2>1. Working(r) = {}
      BY <1>0, <1>4
      DEF FetchFails, Drain, ReadFails, ReplaceFails, DeleteFails, MarkFails, At, RunInv, PoolClosed
    <2>2. RunInv(r)' /\ \A q \in Runs \ {r} : UNCHANGED seen(q)
      BY <1>0, <1>4, <2>1, AttemptInv
      DEF FetchFails, Drain, ReadFails, ReplaceFails, DeleteFails, MarkFails
    <2> QED BY <1>a, <2>2
  <1>5. ASSUME NEW r \in Runs, StartChunk(r) PROVE \A q \in Runs : RunInv(q)'
    <2>1. \A q \in Runs \ {r} : UNCHANGED seen(q)
      BY <1>0, <1>5 DEF StartChunk, SetChunk, Goto, seen, local, TypeOK
    <2>2. RunInv(r)'
      <3>1. pc'[r] \in {"upload", "drain"} /\ pc' = pc /\ next' = next /\ done' = done
        BY <1>5 DEF StartChunk, local
      <3> QED
        BY <1>0, <3>1 DEF RunInv, InBounds, PoolClosed, StitchAll, At
    <2> QED BY <1>a, <2>1, <2>2
  <1>6. ASSUME NEW r \in Runs, NEW i \in Chunks, UploadChunk(r, i) \/ NoteChunk(r, i) \/ ChunkFails(r, i) PROVE \A q \in Runs : RunInv(q)'
    <2>1. \A q \in Runs \ {r} : UNCHANGED seen(q)
      BY <1>0, <1>6 DEF UploadChunk, NoteChunk, ChunkFails, SetChunk, Goto, seen, local, TypeOK
    <2>2. RunInv(r)'
      <3>1. pc'[r] \in {"upload", "drain"}
        BY <1>0, <1>6, WorkIsInside DEF UploadChunk, NoteChunk, ChunkFails
      <3>2. pc' = pc /\ next' = next /\ done' = done
        BY <1>6 DEF UploadChunk, NoteChunk, ChunkFails, local
      <3> QED
        BY <1>0, <3>1, <3>2 DEF RunInv, InBounds, PoolClosed, StitchAll, At
    <2> QED BY <1>a, <2>1, <2>2
  <1>7. ASSUME NEW r \in Runs, Collect(r) PROVE \A q \in Runs : RunInv(q)'
    <2>1. \A q \in Runs \ {r} : UNCHANGED seen(q)
      BY <1>0, <1>7 DEF Collect, Goto, seen, local, TypeOK
    <2>2. RunInv(r)'
      <3>1. pc'[r] = "drain" /\ done' = done
        BY <1>0, <1>7 DEF Collect, Goto, local, TypeOK
      <3> QED
        BY <1>0, <3>1 DEF RunInv, InBounds, PoolClosed, StitchAll, At
    <2> QED BY <1>a, <2>1, <2>2
  <1>8. ASSUME NEW r \in Runs, Uploaded(r) PROVE \A q \in Runs : RunInv(q)'
    <2>1. \A q \in Runs \ {r} : UNCHANGED seen(q)
      BY <1>0, <1>8 DEF Uploaded, Goto, seen, local, TypeOK
    <2>2. RunInv(r)'
      <3>1. pc[r] = "upload" /\ pc'[r] = "stitch" /\ next' = next /\ done' = done
        BY <1>0, <1>8 DEF Uploaded, At, Goto, local, TypeOK
      <3>2. AllDone(r)'
        BY <1>8 DEF Uploaded, AllDone, InState
      <3>3. Working(r)' = {}
        BY <3>2 DEF AllDone, InState, Working
      <3> QED
        BY <1>0, <3>1, <3>2, <3>3 DEF RunInv, InBounds, PoolClosed, StitchAll, At
    <2> QED BY <1>a, <2>1, <2>2
  <1>9. ASSUME NEW r \in Runs, ReadPart(r) PROVE \A q \in Runs : RunInv(q)'
    <2>1. \A q \in Runs \ {r} : UNCHANGED seen(q)
      BY <1>0, <1>9 DEF ReadPart, Goto, seen, local, TypeOK
    <2>2. RunInv(r)'
      <3>1. pc[r] = "stitch" /\ pc'[r] \in {"stitch", "replace"} /\ done' = done /\ chunk' = chunk
        BY <1>0, <1>9 DEF ReadPart, At, Goto, TypeOK
      <3>2. next[r] \in Chunks
        BY <1>0, <3>1 DEF RunInv, InBounds
      <3>3. next'[r] \in Chunks
        BY <1>0, <1>9, <3>2, ChunkAssumption DEF ReadPart, Chunks, TypeOK
      <3>4. Working(r)' = {} /\ AllDone(r)'
        BY <1>0, <3>1 DEF RunInv, PoolClosed, StitchAll, At, Working, AllDone, InState
      <3> QED
        BY <1>0, <3>1, <3>3, <3>4 DEF RunInv, InBounds, PoolClosed, StitchAll
    <2> QED BY <1>a, <2>1, <2>2
  <1>10. ASSUME NEW r \in Runs, Replace(r) PROVE \A q \in Runs : RunInv(q)'
    <2>1. \A q \in Runs \ {r} : UNCHANGED seen(q)
      BY <1>0, <1>10 DEF Replace, Goto, seen, local, TypeOK
    <2>2. RunInv(r)'
      <3>1. pc[r] = "replace" /\ pc'[r] = "delete" /\ next' = next /\ done' = done /\ chunk' = chunk
        BY <1>0, <1>10 DEF Replace, At, Goto, local, TypeOK
      <3>2. Working(r)' = {}
        BY <1>0, <3>1 DEF RunInv, PoolClosed, Working, InState
      <3> QED
        BY <1>0, <3>1, <3>2 DEF RunInv, InBounds, PoolClosed, StitchAll, At
    <2> QED BY <1>a, <2>1, <2>2
  <1>11. ASSUME NEW r \in Runs, DeletePart(r) PROVE \A q \in Runs : RunInv(q)'
    <2>1. \A q \in Runs \ {r} : UNCHANGED seen(q)
      BY <1>0, <1>11 DEF DeletePart, Goto, seen, local, TypeOK
    <2>2. RunInv(r)'
      <3>1. /\ pc[r] = "delete" /\ done' = done /\ chunk' = chunk
            /\ pc'[r] = IF next[r] < NumChunks THEN "delete" ELSE "mark"
        BY <1>0, <1>11 DEF DeletePart, At, Goto, TypeOK
      <3>2. next[r] \in Chunks
        BY <1>0, <3>1 DEF RunInv, InBounds
      <3>3. next[r] < NumChunks => next'[r] \in Chunks
        BY <1>0, <1>11, <3>2, ChunkAssumption DEF DeletePart, Chunks, TypeOK
      <3>4. Working(r)' = {}
        BY <1>0, <3>1 DEF RunInv, PoolClosed, Working, InState
      <3> QED
        BY <1>0, <3>1, <3>3, <3>4 DEF RunInv, InBounds, PoolClosed, StitchAll, At
    <2> QED BY <1>a, <2>1, <2>2
  <1>12. ASSUME NEW r \in Runs, Mark(r) PROVE \A q \in Runs : RunInv(q)'
    <2>1. \A q \in Runs \ {r} : UNCHANGED seen(q)
      BY <1>0, <1>12 DEF Mark, Goto, seen, local, TypeOK
    <2>2. RunInv(r)'
      <3>1. pc[r] = "mark" /\ pc'[r] = "finished" /\ done' = done /\ chunk' = chunk
        BY <1>0, <1>12 DEF Mark, At, Goto, local, TypeOK
      <3>2. Working(r)' = {}
        BY <1>0, <3>1 DEF RunInv, PoolClosed, Working, InState
      <3> QED
        BY <1>0, <3>1, <3>2 DEF RunInv, InBounds, PoolClosed, StitchAll, At
    <2> QED BY <1>a, <2>1, <2>2
  <1>13. CASE \/ \E s \in Others : StartOther(s)
              \/ \E i \in Chunks : NoteOther(i)
              \/ Update \/ Expire \/ UNCHANGED vars
    <2>1. UNCHANGED <<pc, chunk, next, done>>
      BY <1>13 DEF StartOther, NoteOther, Update, Expire, vars, local
    <2> QED BY <1>b, <2>1
  <1>14. CASE Kill
    <2> SUFFICES ASSUME NEW q \in Runs PROVE RunInv(q)'
      OBVIOUS
    <2>1. pc'[q] = "idle" /\ chunk'[q] = [i \in Chunks |-> "queued"] /\ done' = done
      BY <1>14 DEF Kill, local
    <2>2. Working(q)' = {}
      BY <2>1 DEF Working, InState
    <2> QED
      BY <1>0, <2>1, <2>2 DEF RunInv, InBounds, PoolClosed, StitchAll, At
  <1> QED
    BY <1>1, <1>2, <1>3, <1>4, <1>5, <1>6, <1>7, <1>8, <1>9, <1>10, <1>11, <1>12, <1>13, <1>14
    DEF Next, Advance, Fails

LEMMA NextSizes == PoolInv /\ [Next]_vars => NoSizes'
  <1> SUFFICES ASSUME PoolInv, [Next]_vars PROVE NoSizes'
    OBVIOUS
  <1>1. CASE UNCHANGED ckpt
    BY <1>1 DEF PoolInv, NoSizes
  <1>2. ASSUME NEW i \in Chunks, NoteOther(i) \/ \E r \in Runs : NoteChunk(r, i) PROVE NoSizes'
    BY <1>2 DEF NoteOther, NoteChunk, PoolInv, NoSizes, TypeOK, Checkpoints
  <1>3. UNCHANGED ckpt \/ \E i \in Chunks : NoteOther(i) \/ \E r \in Runs : NoteChunk(r, i)
    BY DEF vars, Next, Advance, Fails, Start, Fetch, Plan, FetchFails, StartChunk, UploadChunk,
           ChunkFails, Collect, Drain, Uploaded, ReadPart, ReadFails, Replace, ReplaceFails,
           DeletePart, DeleteFails, Mark, MarkFails, Update, StartOther, Expire, Kill
  <1> QED BY <1>1, <1>2, <1>3

THEOREM PoolSafety == Spec => []PoolInv
  <1>1. PoolInv /\ [Next]_vars => PoolInv'
    BY NextType, NextRuns, NextSizes DEF PoolInv
  <1> QED BY InitPool, <1>1, PTL DEF Spec

(* Type correctness. *)
THEOREM ChunkTypes == Spec => []TypeOK
  <1>1. PoolInv => TypeOK
    BY DEF PoolInv
  <1> QED BY <1>1, PoolSafety, PTL

(* The end of the `with` block keeps the uploads of one attempt out of the  *)
(* next, and out of the report of the failure.                               *)
THEOREM NoOverlap == Spec => []AttemptsDoNotOverlap
  <1>1. PoolInv => AttemptsDoNotOverlap
    BY DEF PoolInv, RunInv, PoolClosed, AttemptsDoNotOverlap
  <1> QED BY <1>1, PoolSafety, PTL

-----------------------------------------------------------------------------
(* No two runs execute the same share. *)
SeparateShares == \A q, r \in Runs : ShareOf[q] = ShareOf[r] => q = r

(* From the upload of a chunk to the stitched object: what a run has written *)
(* is of the version that it fetched.                                         *)
Copy(version) == [i \in Chunks |-> version]
ChunksWritten(r) ==
  pc[r] \in {"upload", "stitch"} =>
    \A i \in Chunks : chunk[r][i] \in {"stored", "done"} => part[ShareOf[r]][i] = data[r]
PartsRead(r) == At(r, "stitch") => \A i \in Chunks : i < next[r] => parts[r][i] = data[r]
PartsWhole(r) == At(r, "replace") => parts[r] = Copy(data[r])
ObjectWritten(r) == pc[r] \in {"delete", "mark", "finished"} => obj[ShareOf[r]] = Copy(data[r])
CopyInv(r) == ChunksWritten(r) /\ PartsRead(r) /\ PartsWhole(r) /\ ObjectWritten(r)

WholeInv == PoolInv /\ (\A r \in Runs : CopyInv(r)) /\ NoMixture

(* What it looks at. *)
view(r) ==
  <<pc[r], chunk[r], next[r], data[r], parts[r], part[ShareOf[r]], obj[ShareOf[r]]>>

LEMMA ViewFrame ==
  ASSUME NEW r \in Runs, CopyInv(r), UNCHANGED view(r)
  PROVE  CopyInv(r)'
  BY DEF view, CopyInv, ChunksWritten, PartsRead, PartsWhole, ObjectWritten, At, Copy

(* A run at the start of an attempt, or given up, has nothing to show. *)
LEMMA NothingToShow ==
  ASSUME NEW r \in Runs, pc'[r] \in {"idle", "fetch", "plan", "drain", "failed"}
  PROVE  CopyInv(r)'
  BY DEF CopyInv, ChunksWritten, PartsRead, PartsWhole, ObjectWritten, At

LEMMA NextCopies ==
  ASSUME SeparateShares, WholeInv, PoolInv', [Next]_vars
  PROVE  \A r \in Runs : CopyInv(r)'
  <1>0. TypeOK /\ TypeOK' /\ (\A r \in Runs : CopyInv(r)) /\ \A r \in Runs : ShareOf[r] \in Shares
    BY ChunkAssumption DEF WholeInv, PoolInv
  <1>a. ASSUME NEW r \in Runs, CopyInv(r)', \A q \in Runs \ {r} : UNCHANGED view(q)
        PROVE  \A q \in Runs : CopyInv(q)'
    <2> SUFFICES ASSUME NEW q \in Runs PROVE CopyInv(q)'
      OBVIOUS
    <2>1. CASE q = r
      BY <1>a, <2>1
    <2>2. CASE q # r
      BY <1>0, <1>a, <2>2, ViewFrame
    <2> QED BY <2>1, <2>2
  (* A step of one run that leaves the destination as it is. *)
  <1>b. ASSUME NEW r \in Runs, UNCHANGED remote,
               \A q \in Runs \ {r} : UNCHANGED <<pc[q], chunk[q], next[q], data[q], parts[q]>>
        PROVE  \A q \in Runs \ {r} : UNCHANGED view(q)
    BY <1>b DEF view, remote
  (* A step of one run that writes to its own place at the destination. *)
  <1>c. ASSUME NEW r \in Runs,
               \/ UNCHANGED obj /\ \E c \in Content : part' = [part EXCEPT ![ShareOf[r]] = c]
               \/ UNCHANGED part /\ \E c \in Content : obj' = [obj EXCEPT ![ShareOf[r]] = c],
               \A q \in Runs \ {r} : UNCHANGED <<pc[q], chunk[q], next[q], data[q], parts[q]>>
        PROVE  \A q \in Runs \ {r} : UNCHANGED view(q)
    <2> SUFFICES ASSUME NEW q \in Runs \ {r} PROVE UNCHANGED view(q)
      OBVIOUS
    <2>1. ShareOf[q] # ShareOf[r]
      BY DEF SeparateShares
    <2>2. part'[ShareOf[q]] = part[ShareOf[q]] /\ obj'[ShareOf[q]] = obj[ShareOf[q]]
      BY <1>0, <1>c, <2>1 DEF TypeOK
    <2> QED BY <1>c, <2>2 DEF view
  <1>1. ASSUME NEW r \in Runs,
               Start(r) \/ Fetch(r) \/ FetchFails(r) \/ Drain(r) \/ ReadFails(r) \/ DeleteFails(r)
                 \/ MarkFails(r) \/ Collect(r)
        PROVE  \A q \in Runs : CopyInv(q)'
    <2>1. pc'[r] \in {"fetch", "plan", "drain", "failed"}
      BY <1>0, <1>1
      DEF Start, Fetch, FetchFails, Drain, ReadFails, DeleteFails, MarkFails, Collect, AttemptFails,
          Goto, TypeOK
    <2>2. \A q \in Runs \ {r} : UNCHANGED <<pc[q], chunk[q], next[q], data[q], parts[q]>>
      BY <1>0, <1>1
      DEF Start, Fetch, FetchFails, Drain, ReadFails, DeleteFails, MarkFails, Collect, AttemptFails,
          Goto, local, TypeOK
    <2>3. UNCHANGED remote
      BY <1>1 DEF Start, Fetch, FetchFails, Drain, ReadFails, DeleteFails, MarkFails, Collect
    <2> QED BY <1>a, <1>b, <2>1, <2>2, <2>3, NothingToShow
  <1>2. ASSUME NEW r \in Runs, Plan(r) PROVE \A q \in Runs : CopyInv(q)'
    <2>1. pc'[r] = "upload" /\ chunk'[r] = [i \in Chunks |-> "queued"]
      BY <1>0, <1>2 DEF Plan, Goto, TypeOK
    <2>2. \A q \in Runs \ {r} : UNCHANGED <<pc[q], chunk[q], next[q], data[q], parts[q]>>
      BY <1>0, <1>2 DEF Plan, Goto, TypeOK
    <2>3. CopyInv(r)'
      BY <2>1 DEF CopyInv, ChunksWritten, PartsRead, PartsWhole, ObjectWritten, At
    <2> QED BY <1>2, <1>a, <1>b, <2>2, <2>3 DEF Plan
  <1>3. ASSUME NEW r \in Runs, StartChunk(r) PROVE \A q \in Runs : CopyInv(q)'
    <2>1. UNCHANGED <<remote, pc, local>> /\ pc[r] \in {"upload", "drain"}
      BY <1>3 DEF StartChunk
    <2>2. \A q \in Runs \ {r} : UNCHANGED <<pc[q], chunk[q], next[q], data[q], parts[q]>>
      BY <1>0, <1>3 DEF StartChunk, SetChunk, local, TypeOK
    <2>3. \A i \in Chunks : chunk'[r][i] = chunk[r][i] \/ chunk'[r][i] = "running"
      BY <1>0, <1>3 DEF StartChunk, SetChunk, InState, TypeOK
    <2>4. CopyInv(r)'
      BY <1>0, <2>1, <2>3
      DEF remote, local, CopyInv, ChunksWritten, PartsRead, PartsWhole, ObjectWritten, At
    <2> QED BY <1>a, <1>b, <2>1, <2>2, <2>4
  <1>4. ASSUME NEW r \in Runs, NEW i \in Chunks, UploadChunk(r, i) PROVE \A q \in Runs : CopyInv(q)'
    <2>1. UNCHANGED <<obj, pc, local>> /\ pc[r] \in {"upload", "drain"}
      BY <1>4, WorkIsInside DEF UploadChunk, WholeInv, PoolInv
    <2>2. \A q \in Runs \ {r} : UNCHANGED <<pc[q], chunk[q], next[q], data[q], parts[q]>>
      BY <1>0, <1>4 DEF UploadChunk, SetChunk, local, TypeOK
    <2>3. i \notin done[r]
      BY DEF WholeInv, PoolInv, RunInv
    <2>4. part' = [part EXCEPT ![ShareOf[r]][i] = data[r]]
      BY <1>4, <2>3 DEF UploadChunk
    <2>5. part' = [part EXCEPT ![ShareOf[r]] = [@ EXCEPT ![i] = data[r]]]
          /\ [part[ShareOf[r]] EXCEPT ![i] = data[r]] \in Content
      BY <1>0, <2>4 DEF TypeOK, Content
    <2>6. \A q \in Runs \ {r} : UNCHANGED view(q)
      BY <1>c, <2>1, <2>2, <2>5
    <2>7. part'[ShareOf[r]][i] = data[r]
      BY <1>0, <2>4 DEF TypeOK, Content
    <2>8. \A j \in Chunks \ {i} : chunk'[r][j] = chunk[r][j] /\ part'[ShareOf[r]][j] = part[ShareOf[r]][j]
      BY <1>0, <1>4, <2>4 DEF UploadChunk, SetChunk, TypeOK, Content
    <2>9. CopyInv(r)'
      BY <1>0, <2>1, <2>7, <2>8
      DEF local, CopyInv, ChunksWritten, PartsRead, PartsWhole, ObjectWritten, At
    <2> QED BY <1>a, <2>6, <2>9
  <1>5. ASSUME NEW r \in Runs, NEW i \in Chunks, NoteChunk(r, i) PROVE \A q \in Runs : CopyInv(q)'
    <2>1. UNCHANGED <<remote, pc, local>> /\ pc[r] \in {"upload", "drain"}
      BY <1>5, WorkIsInside DEF NoteChunk, WholeInv, PoolInv
    <2>2. \A q \in Runs \ {r} : UNCHANGED <<pc[q], chunk[q], next[q], data[q], parts[q]>>
      BY <1>0, <1>5 DEF NoteChunk, SetChunk, local, TypeOK
    <2>3. chunk[r][i] = "stored" /\ \A j \in Chunks \ {i} : chunk'[r][j] = chunk[r][j]
      BY <1>0, <1>5 DEF NoteChunk, SetChunk, TypeOK
    <2>4. CopyInv(r)'
      BY <1>0, <2>1, <2>3
      DEF remote, local, CopyInv, ChunksWritten, PartsRead, PartsWhole, ObjectWritten, At
    <2> QED BY <1>a, <1>b, <2>1, <2>2, <2>4
  <1>6. ASSUME NEW r \in Runs, NEW i \in Chunks, ChunkFails(r, i) PROVE \A q \in Runs : CopyInv(q)'
    <2>1. UNCHANGED <<obj, pc, local>> /\ pc[r] \in {"upload", "drain"}
      BY <1>6, WorkIsInside DEF ChunkFails, WholeInv, PoolInv
    <2>2. \A q \in Runs \ {r} : UNCHANGED <<pc[q], chunk[q], next[q], data[q], parts[q]>>
      BY <1>0, <1>6 DEF ChunkFails, SetChunk, local, TypeOK
    <2>3. \E left : part' = [part EXCEPT ![ShareOf[r]][i] = left]
      <3>1. part = [part EXCEPT ![ShareOf[r]][i] = part[ShareOf[r]][i]]
        BY <1>0 DEF TypeOK, Content
      <3> QED BY <1>6, <3>1 DEF ChunkFails
    <2>4. PICK left : part' = [part EXCEPT ![ShareOf[r]][i] = left]
      BY <2>3
    <2>5. part' = [part EXCEPT ![ShareOf[r]] = part'[ShareOf[r]]] /\ part'[ShareOf[r]] \in Content
      BY <1>0, <2>4 DEF TypeOK, Content
    <2>6. \A q \in Runs \ {r} : UNCHANGED view(q)
      BY <1>c, <2>1, <2>2, <2>5
    <2>7. chunk'[r][i] = "failed"
      BY <1>0, <1>6 DEF ChunkFails, SetChunk, TypeOK
    <2>8. \A j \in Chunks \ {i} : chunk'[r][j] = chunk[r][j] /\ part'[ShareOf[r]][j] = part[ShareOf[r]][j]
      BY <1>0, <1>6, <2>4 DEF ChunkFails, SetChunk, TypeOK, Content
    <2>9. CopyInv(r)'
      BY <1>0, <2>1, <2>7, <2>8
      DEF local, CopyInv, ChunksWritten, PartsRead, PartsWhole, ObjectWritten, At
    <2> QED BY <1>a, <2>6, <2>9
  <1>7. ASSUME NEW r \in Runs, Uploaded(r) PROVE \A q \in Runs : CopyInv(q)'
    <2>1. UNCHANGED <<remote, local, chunk>> /\ pc[r] = "upload" /\ pc'[r] = "stitch"
      BY <1>0, <1>7 DEF Uploaded, At, Goto, TypeOK
    <2>2. \A q \in Runs \ {r} : UNCHANGED <<pc[q], chunk[q], next[q], data[q], parts[q]>>
      BY <1>0, <1>7 DEF Uploaded, Goto, local, TypeOK
    <2>3. next'[r] = 1
      BY <2>1 DEF WholeInv, PoolInv, RunInv, InBounds, local
    <2>4. CopyInv(r)'
      BY <1>0, <2>1, <2>3
      DEF remote, local, CopyInv, ChunksWritten, PartsRead, PartsWhole, ObjectWritten, At, Chunks
    <2> QED BY <1>a, <1>b, <2>1, <2>2, <2>4
  <1>8. ASSUME NEW r \in Runs, ReadPart(r) PROVE \A q \in Runs : CopyInv(q)'
    <2>1. /\ UNCHANGED <<remote, data, chunk>> /\ pc[r] = "stitch"
          /\ IF next[r] < NumChunks THEN pc'[r] = "stitch" /\ next'[r] = next[r] + 1
             ELSE pc'[r] = "replace"
      BY <1>0, <1>8 DEF ReadPart, At, Goto, TypeOK
    <2>2. \A q \in Runs \ {r} : UNCHANGED <<pc[q], chunk[q], next[q], data[q], parts[q]>>
      BY <1>0, <1>8 DEF ReadPart, Goto, TypeOK
    <2>3. next[r] \in Chunks /\ AllDone(r)
      BY <2>1 DEF WholeInv, PoolInv, RunInv, InBounds, StitchAll, At
    <2>4. part[ShareOf[r]][next[r]] = data[r]
      BY <1>0, <2>1, <2>3 DEF CopyInv, ChunksWritten, AllDone, InState
    <2>5. /\ parts'[r][next[r]] = data[r]
          /\ \A j \in Chunks \ {next[r]} : parts'[r][j] = parts[r][j]
      BY <1>0, <1>8, <2>3, <2>4 DEF ReadPart, TypeOK, Content
    <2>6. \A j \in Chunks : j <= next[r] => parts'[r][j] = data[r]
      BY <1>0, <2>1, <2>3, <2>5, ChunkAssumption DEF CopyInv, PartsRead, At, Chunks
    <2>7. PartsRead(r)'
      BY <2>1, <2>3, <2>6, ChunkAssumption DEF PartsRead, At, Chunks
    <2>8. PartsWhole(r)'
      <3>1. CASE next[r] < NumChunks
        BY <2>1, <3>1 DEF PartsWhole, At
      <3>2. CASE ~(next[r] < NumChunks)
        <4>1. \A j \in Chunks : parts'[r][j] = data'[r]
          BY <2>1, <2>3, <2>6, <3>2, ChunkAssumption DEF Chunks
        <4>2. parts'[r] \in Content
          BY <1>0 DEF TypeOK
        <4> QED BY <4>1, <4>2 DEF PartsWhole, Copy, Content
      <3> QED BY <3>1, <3>2
    <2>9. ChunksWritten(r)' /\ ObjectWritten(r)'
      BY <1>0, <2>1 DEF CopyInv, ChunksWritten, ObjectWritten, remote
    <2> QED BY <1>a, <1>b, <2>1, <2>2, <2>7, <2>8, <2>9 DEF CopyInv
  <1>9. ASSUME NEW r \in Runs, Replace(r) PROVE \A q \in Runs : CopyInv(q)'
    <2>1. UNCHANGED <<part, local, chunk>> /\ pc[r] = "replace" /\ pc'[r] = "delete"
      BY <1>0, <1>9 DEF Replace, At, Goto, TypeOK
    <2>2. \A q \in Runs \ {r} : UNCHANGED <<pc[q], chunk[q], next[q], data[q], parts[q]>>
      BY <1>0, <1>9 DEF Replace, Goto, local, TypeOK
    <2>3. parts[r] \in Content /\ parts[r] = Copy(data[r])
      BY <1>0, <2>1 DEF TypeOK, CopyInv, PartsWhole, At
    <2>4. \A q \in Runs \ {r} : UNCHANGED view(q)
      BY <1>9, <1>c, <2>1, <2>2, <2>3 DEF Replace
    <2>5. obj'[ShareOf[r]] = Copy(data[r]) /\ data' = data
      BY <1>0, <1>9, <2>1, <2>3 DEF Replace, TypeOK, local
    <2>6. CopyInv(r)'
      BY <2>1, <2>5 DEF CopyInv, ChunksWritten, PartsRead, PartsWhole, ObjectWritten, At, Copy
    <2> QED BY <1>a, <2>4, <2>6
  <1>10. ASSUME NEW r \in Runs, ReplaceFails(r) PROVE \A q \in Runs : CopyInv(q)'
    <2>1. pc'[r] \in {"fetch", "failed"}
      BY <1>0, <1>10 DEF ReplaceFails, AttemptFails, Goto, TypeOK
    <2>2. \A q \in Runs \ {r} : UNCHANGED <<pc[q], chunk[q], next[q], data[q], parts[q]>>
      BY <1>0, <1>10 DEF ReplaceFails, AttemptFails, Goto, local, TypeOK
    <2>3. PICK left : obj' = [obj EXCEPT ![ShareOf[r]] = left]
      BY <1>10 DEF ReplaceFails
    <2>4. left \in Content
      BY <1>0, <2>3 DEF TypeOK
    <2>5. \A q \in Runs \ {r} : UNCHANGED view(q)
      BY <1>10, <1>c, <2>2, <2>3, <2>4 DEF ReplaceFails
    <2> QED BY <1>a, <2>1, <2>5, NothingToShow
  <1>11. ASSUME NEW r \in Runs, DeletePart(r) PROVE \A q \in Runs : CopyInv(q)'
    <2>1. UNCHANGED <<obj, data>> /\ pc[r] = "delete" /\ pc'[r] \in {"delete", "mark"}
      BY <1>0, <1>11 DEF DeletePart, At, Goto, TypeOK
    <2>2. \A q \in Runs \ {r} : UNCHANGED <<pc[q], chunk[q], next[q], data[q], parts[q]>>
      BY <1>0, <1>11 DEF DeletePart, Goto, TypeOK
    <2>3. part' = [part EXCEPT ![ShareOf[r]] = part'[ShareOf[r]]] /\ part'[ShareOf[r]] \in Content
      BY <1>0, <1>11 DEF DeletePart, TypeOK, Content
    <2>4. \A q \in Runs \ {r} : UNCHANGED view(q)
      BY <1>c, <2>1, <2>2, <2>3
    <2>5. CopyInv(r)'
      BY <1>0, <2>1 DEF CopyInv, ChunksWritten, PartsRead, PartsWhole, ObjectWritten, At, Copy
    <2> QED BY <1>a, <2>4, <2>5
  <1>12. ASSUME NEW r \in Runs, Mark(r) PROVE \A q \in Runs : CopyInv(q)'
    <2>1. UNCHANGED <<remote, local>> /\ pc[r] = "mark" /\ pc'[r] = "finished"
      BY <1>0, <1>12 DEF Mark, At, Goto, TypeOK
    <2>2. \A q \in Runs \ {r} : UNCHANGED <<pc[q], chunk[q], next[q], data[q], parts[q]>>
      BY <1>0, <1>12 DEF Mark, Goto, local, TypeOK
    <2>3. CopyInv(r)'
      BY <1>0, <2>1
      DEF CopyInv, ChunksWritten, PartsRead, PartsWhole, ObjectWritten, At, Copy, local, remote
    <2> QED BY <1>a, <1>b, <2>1, <2>2, <2>3
  <1>13. CASE \/ \E s \in Others : StartOther(s)
              \/ \E i \in Chunks : NoteOther(i)
              \/ Update \/ Expire \/ UNCHANGED vars
    <2>1. UNCHANGED <<pc, chunk, local, remote>>
      BY <1>13 DEF StartOther, NoteOther, Update, Expire, vars
    <2>2. \A r \in Runs : UNCHANGED view(r)
      BY <2>1 DEF view, local, remote
    <2> QED BY <1>0, <2>2, ViewFrame
  <1>14. CASE Kill
    BY <1>14, NothingToShow DEF Kill
  <1> QED
    BY <1>1, <1>2, <1>3, <1>4, <1>5, <1>6, <1>7, <1>8, <1>9, <1>10, <1>11, <1>12, <1>13, <1>14
    DEF Next, Advance, Fails

LEMMA NextNoMixture ==
  ASSUME WholeInv, [Next]_vars
  PROVE  NoMixture'
  <1>0. TypeOK /\ NoMixture
    BY DEF WholeInv, PoolInv
  <1>1. Uniform(Absent) /\ \A version \in Versions : Uniform(Copy(version))
    BY DEF Uniform, Absent, Copy
  <1>2. ASSUME NEW r \in Runs, Replace(r) PROVE NoMixture'
    <2>1. Uniform(parts[r])
      BY <1>1, <1>2 DEF WholeInv, CopyInv, PartsWhole, Replace, TypeOK, PoolInv
    <2> QED BY <1>0, <1>2, <2>1 DEF Replace, NoMixture, TypeOK, Uniform
  <1>3. ASSUME NEW r \in Runs, ReplaceFails(r) PROVE NoMixture'
    <2>1. Uniform(parts[r]) /\ ShareOf[r] \in Shares
      BY <1>1, <1>3, ChunkAssumption DEF WholeInv, CopyInv, PartsWhole, ReplaceFails, TypeOK, PoolInv
    <2>2. PICK left \in PutLeaves(DstKind, obj[ShareOf[r]], Absent, parts[r]) :
                 obj' = [obj EXCEPT ![ShareOf[r]] = left]
      BY <1>3 DEF ReplaceFails
    <2>3. left \in {obj[ShareOf[r]], Absent, parts[r]}
      BY LeavesOneOf
    <2>4. Uniform(left)
      BY <1>0, <1>1, <2>1, <2>3 DEF NoMixture
    <2> QED BY <1>0, <2>2, <2>4 DEF NoMixture, TypeOK, Uniform
  <1>4. CASE Kill
    <2>1. \A s \in Shares : obj'[s] = Absent \/ obj'[s] = obj[s]
      BY <1>4 DEF Kill
    <2> QED BY <1>0, <1>1, <2>1 DEF NoMixture, Uniform
  <1>5. CASE UNCHANGED obj
    BY <1>0, <1>5 DEF NoMixture, Uniform
  <1>6. UNCHANGED obj \/ Kill \/ \E r \in Runs : Replace(r) \/ ReplaceFails(r)
    BY DEF vars, remote, Next, Advance, Fails, Start, Fetch, Plan, FetchFails, StartChunk, UploadChunk,
           NoteChunk, ChunkFails, Collect, Drain, Uploaded, ReadPart, ReadFails, DeletePart,
           DeleteFails, Mark, MarkFails, Update, StartOther, NoteOther, Expire
  <1> QED BY <1>2, <1>3, <1>4, <1>5, <1>6

THEOREM WholeSafety == SeparateShares => (Spec => []WholeInv)
  <1> SUFFICES ASSUME SeparateShares PROVE Spec => []WholeInv
    OBVIOUS
  <1>1. Init => WholeInv
    <2> SUFFICES ASSUME Init PROVE WholeInv
      OBVIOUS
    <2>1. \A r \in Runs : CopyInv(r)
      BY DEF Init, CopyInv, ChunksWritten, PartsRead, PartsWhole, ObjectWritten, At
    <2>2. NoMixture
      BY DEF Init, NoMixture, Uniform, Absent
    <2> QED BY <2>1, <2>2, InitPool DEF WholeInv
  <1>2. WholeInv /\ [Next]_vars => WholeInv'
    <2> SUFFICES ASSUME WholeInv, [Next]_vars PROVE WholeInv'
      OBVIOUS
    <2>1. PoolInv'
      BY NextType, NextRuns, NextSizes DEF WholeInv, PoolInv
    <2> QED BY <2>1, NextCopies, NextNoMixture DEF WholeInv
  <1> QED BY <1>1, <1>2, PTL DEF Spec

(* "skip chunks that were already written" never mixes versions: whatever   *)
(* attempts fail and wherever a run is killed, a stitched object is of one   *)
(* version, provided that no two runs execute the same share.                 *)
THEOREM ObjectsAreWhole == SeparateShares => (Spec => []NoMixture)
  <1>1. WholeInv => NoMixture
    BY DEF WholeInv
  <1> QED BY <1>1, WholeSafety, PTL

(* A run that ends well has stored the version that it fetched. *)
THEOREM FinishedMeansStored == SeparateShares => (Spec => []FinishedIsStored)
  <1>1. WholeInv => FinishedIsStored
    BY DEF WholeInv, CopyInv, ObjectWritten, FinishedIsStored, At, Copy
  <1> QED BY <1>1, WholeSafety, PTL

-----------------------------------------------------------------------------
(* Cached bytes are of a version that the source has had. *)
CacheIsOld == cache <= src

LEMMA NextCache ==
  ASSUME TypeOK, TypeOK', CacheIsOld, [Next]_vars
  PROVE  CacheIsOld'
  <1>0. src \in Nat /\ cache \in Nat /\ MaxVersion \in Nat
    BY ChunkAssumption DEF TypeOK, Versions
  <1>1. ASSUME NEW r \in Runs, Fetch(r) PROVE CacheIsOld'
    BY <1>0, <1>1 DEF Fetch, CacheIsOld
  <1>2. CASE Update \/ Expire \/ Kill
    BY <1>0, <1>2 DEF Update, Expire, Kill, engine, CacheIsOld
  <1>3. CASE UNCHANGED <<src, cache>>
    BY <1>3 DEF CacheIsOld
  <1>4. ASSUME NEW r \in Runs, Start(r) \/ Fails(r) \/ Advance(r) PROVE CacheIsOld'
    <2>1. CASE Fails(r)
      <3>1. UNCHANGED <<src, engine>>
        BY <2>1 DEF Fails, FetchFails, ReadFails, ReplaceFails, DeleteFails, MarkFails, ChunkFails
      <3> QED BY <1>3, <3>1 DEF engine
    <2>2. CASE Fetch(r)
      BY <1>1, <2>2
    <2>3. CASE StartChunk(r) \/ \E i \in Chunks : UploadChunk(r, i) \/ NoteChunk(r, i)
      <3>1. UNCHANGED <<src, engine>>
        BY <2>3 DEF StartChunk, UploadChunk, NoteChunk
      <3> QED BY <1>3, <3>1 DEF engine
    <2>4. CASE Plan(r) \/ Collect(r) \/ Drain(r) \/ Uploaded(r)
      <3>1. UNCHANGED <<src, engine>>
        BY <2>4 DEF Plan, Collect, Drain, Uploaded
      <3> QED BY <1>3, <3>1 DEF engine
    <2>5. CASE ReadPart(r) \/ Replace(r) \/ DeletePart(r) \/ Mark(r)
      <3>1. UNCHANGED <<src, engine>>
        BY <2>5 DEF ReadPart, Replace, DeletePart, Mark
      <3> QED BY <1>3, <3>1 DEF engine
    <2>6. CASE Start(r)
      BY <1>3, <2>6 DEF Start
    <2> QED BY <1>4, <2>1, <2>2, <2>3, <2>4, <2>5, <2>6 DEF Advance
  <1>5. CASE \/ \E s \in Others : StartOther(s)
             \/ \E i \in Chunks : NoteOther(i)
             \/ UNCHANGED vars
    BY <1>3, <1>5 DEF StartOther, NoteOther, vars, engine
  <1> QED BY <1>2, <1>4, <1>5 DEF Next

LEMMA VersionOfCopy ==
  /\ VersionOf(Absent) = 0
  /\ \A version : VersionOf(Copy(version)) = version
  BY VersionTypes DEF VersionOf, Uniform, Absent, Copy

(* What a put that fails may leave, as versions of the object. *)
LEMMA LeavesWhole ==
  ASSUME NEW old, NEW version,
         NEW left \in PutLeaves(DstKind, old, Absent, Copy(version))
  PROVE  left = old \/ left = Copy(version) \/ (Truncates /\ left = Absent)
  <1>1. CASE DstKind \in {"local", "sftp"}
    BY <1>1 DEF Truncates, PutLeaves, LocalPutLeaves, SftpPutLeaves
  <1>2. CASE DstKind \in {"s3", "azure_blob", "mysql"}
    BY <1>2 DEF PutLeaves, S3PutLeaves, AzurePutLeaves, MysqlPutLeaves
  <1> QED BY <1>1, <1>2, ChunkAssumption DEF Kinds

(* The state of AtomicPut that a state shows. *)
Shown == [s \in Shares |-> VersionOf(obj[s])]
PhaseOf == [r \in Runs |-> Phase(pc[r])]

LEMMA ShowFrame ==
  /\ UNCHANGED obj => Shown' = Shown
  /\ UNCHANGED pc => PhaseOf' = PhaseOf
  BY DEF Shown, PhaseOf, VersionOf, Uniform, Phase

LEMMA ShowGoto ==
  ASSUME PlaceOK, NEW r \in Runs, NEW label, Goto(r, label)
  PROVE  PhaseOf' = [PhaseOf EXCEPT ![r] = Phase(label)]
  BY DEF PlaceOK, Goto, PhaseOf, Phase

LEMMA ShowWrite ==
  ASSUME ObjectsOK, NEW s \in Shares, NEW content, obj' = [obj EXCEPT ![s] = content]
  PROVE  Shown' = [Shown EXCEPT ![s] = VersionOf(content)]
  BY DEF ObjectsOK, Shown, VersionOf, Uniform

(* A step that shows nothing, or only where a run has got to. *)
LEMMA ShowPhase ==
  ASSUME TypeOK, NEW r \in Runs, NEW label, Goto(r, label), UNCHANGED <<src, data, obj>>
  PROVE  /\ UNCHANGED <<src, data, Shown>>
         /\ PhaseOf[r] = Phase(pc[r])
         /\ PhaseOf' = [PhaseOf EXCEPT ![r] = Phase(label)]
         /\ Phase(label) = Phase(pc[r]) => UNCHANGED PhaseOf
  <1>1. PhaseOf' = [PhaseOf EXCEPT ![r] = Phase(label)]
    BY ShowGoto, TypeParts
  <1>2. PhaseOf[r] = Phase(pc[r])
    BY DEF PhaseOf
  <1>3. PhaseOf = [PhaseOf EXCEPT ![r] = Phase(pc[r])]
    BY DEF PhaseOf
  <1>4. Shown' = Shown
    BY ShowFrame
  <1> QED BY <1>1, <1>2, <1>3, <1>4

(* A failed attempt is a failure there, whatever it leaves of the object. *)
LEMMA ShowFailure ==
  ASSUME TypeOK, NEW r \in Runs, AttemptFails(r), UNCHANGED <<src, data>>,
         \/ pc[r] \notin {"idle", "finished", "failed"} /\ UNCHANGED obj
         \/ /\ Phase(pc[r]) = "putting"
            /\ \E left \in {data[r]} \cup (IF Truncates THEN {0} ELSE {}) :
                 Shown' = [Shown EXCEPT ![ShareOf[r]] = left]
  PROVE  Transfer!Fail(r)
  <1>1. PICK label \in {"fetch", "failed"} : Goto(r, label)
    BY DEF AttemptFails
  <1>2. PhaseOf' = [PhaseOf EXCEPT ![r] = Phase(label)] /\ Phase(label) \in {"taking", "failed"}
    BY <1>1, ShowGoto, TypeParts DEF Phase
  <1>3. PhaseOf[r] = Phase(pc[r])
    BY DEF PhaseOf
  <1>4. pc[r] \notin {"idle", "finished", "failed"} => PhaseOf[r] \in {"taking", "putting"}
    BY <1>3 DEF Phase
  <1>5. \/ PhaseOf[r] \in {"taking", "putting"} /\ UNCHANGED Shown
        \/ /\ PhaseOf[r] = "putting"
           /\ \E left \in {data[r]} \cup (IF Truncates THEN {0} ELSE {}) :
                Shown' = [Shown EXCEPT ![ShareOf[r]] = left]
    BY <1>3, <1>4, ShowFrame
  <1>6. \/ PhaseOf' = [PhaseOf EXCEPT ![r] = "taking"]
        \/ PhaseOf' = [PhaseOf EXCEPT ![r] = "failed"]
    BY <1>2
  <1> QED BY <1>5, <1>6 DEF Transfer!Fail, Transfer!Enter, Shown, PhaseOf

(* Every step is one of AtomicPut, or shows nothing. *)
LEMMA StepIsPut ==
  ASSUME WholeInv, CacheIsOld, [Next]_vars
  PROVE  [Transfer!Next]_(Transfer!vars)
  <1> DEFINE Same == UNCHANGED <<src, Shown, PhaseOf, data>>
  <1>0. TypeOK /\ (\A r \in Runs : CopyInv(r)) /\ \A r \in Runs : ShareOf[r] \in Shares
    BY ChunkAssumption DEF WholeInv, PoolInv
  <1>s. Same => [Transfer!Next]_(Transfer!vars)
    BY DEF Transfer!vars, Shown, PhaseOf
  <1>1. ASSUME NEW r \in Runs, Start(r) PROVE Transfer!Begin(r)
    <2>1. Goto(r, "fetch") /\ UNCHANGED <<src, data, obj>> /\ Phase(pc[r]) \in {"idle", "finished", "failed"}
      BY <1>1 DEF Start, remote, local, Phase
    <2>2. /\ PhaseOf' = [PhaseOf EXCEPT ![r] = "taking"] /\ UNCHANGED <<src, Shown, data>>
          /\ PhaseOf[r] \in {"idle", "finished", "failed"}
      BY <1>0, <2>1, ShowPhase DEF Phase
    <2> QED BY <2>2 DEF Transfer!Begin, Transfer!Enter, Shown, PhaseOf
  <1>2. ASSUME NEW r \in Runs, Fetch(r) PROVE Transfer!Take(r)
    <2>1. PICK version \in 1 .. src : data' = [data EXCEPT ![r] = version]
      <3>1. cache \in Nat /\ src \in Nat /\ cache <= src /\ src >= 1
        BY <1>0, ChunkAssumption DEF TypeOK, Versions, CacheIsOld
      <3>2. (IF cache # 0 THEN cache ELSE src) \in 1 .. src
        BY <3>1
      <3> QED BY <1>2, <3>2 DEF Fetch
    <2>2. Goto(r, "plan") /\ UNCHANGED <<src, obj>> /\ pc[r] = "fetch"
      BY <1>2 DEF Fetch, remote, At
    <2>3. PhaseOf' = [PhaseOf EXCEPT ![r] = "putting"] /\ PhaseOf[r] = "taking" /\ UNCHANGED Shown
      BY <1>0, <2>2, ShowGoto, ShowFrame, TypeParts DEF Phase, PhaseOf
    <2> QED BY <2>1, <2>2, <2>3 DEF Transfer!Take, Transfer!Enter, Shown, PhaseOf
  <1>3. ASSUME NEW r \in Runs,
               Plan(r) \/ Collect(r) \/ Uploaded(r) \/ ReadPart(r) \/ DeletePart(r)
        PROVE  Same
    <2>1. UNCHANGED <<src, data, obj>> /\ Phase(pc[r]) = "putting"
      BY <1>3 DEF Plan, Collect, Uploaded, ReadPart, DeletePart, remote, local, At, Phase
    <2>2. \/ UNCHANGED pc
          \/ \E label \in {"upload", "drain", "stitch", "replace", "mark"} : Goto(r, label)
      BY <1>3 DEF Plan, Collect, Uploaded, ReadPart, DeletePart
    <2>3. CASE UNCHANGED pc
      BY <2>1, <2>3, ShowFrame
    <2>4. ASSUME NEW label \in {"upload", "drain", "stitch", "replace", "mark"}, Goto(r, label)
          PROVE  Same
      <3>1. Phase(label) = "putting"
        BY DEF Phase
      <3> QED BY <1>0, <2>1, <2>4, <3>1, ShowPhase
    <2> QED BY <2>2, <2>3, <2>4
  <1>4. ASSUME UNCHANGED <<src, data, obj, pc>> PROVE Same
    BY <1>4, ShowFrame
  <1>5. ASSUME NEW r \in Runs, Drain(r) \/ FetchFails(r) \/ ReadFails(r) \/ DeleteFails(r) \/ MarkFails(r)
        PROVE  Transfer!Fail(r)
    <2>1. /\ UNCHANGED <<src, data, obj>> /\ AttemptFails(r)
          /\ pc[r] \notin {"idle", "finished", "failed"}
      BY <1>5 DEF Drain, FetchFails, ReadFails, DeleteFails, MarkFails, remote, local, At
    <2> QED BY <1>0, <2>1, ShowFailure
  <1>6. ASSUME NEW r \in Runs, Replace(r) PROVE Transfer!Put(r)
    <2>1. /\ UNCHANGED <<src, data>> /\ pc[r] = "replace" /\ Goto(r, "delete")
          /\ obj' = [obj EXCEPT ![ShareOf[r]] = parts[r]]
      BY <1>6 DEF Replace, local, At
    <2>2. parts[r] = Copy(data[r])
      BY <1>0, <2>1 DEF CopyInv, PartsWhole, At
    <2>3. Shown' = [Shown EXCEPT ![ShareOf[r]] = data[r]]
      <3>1. Shown' = [Shown EXCEPT ![ShareOf[r]] = VersionOf(parts[r])]
        BY <1>0, <2>1, ShowWrite, TypeParts
      <3> QED BY <2>2, <3>1, VersionOfCopy
    <2>4. PhaseOf[r] = "putting"
      BY <2>1 DEF PhaseOf, Phase
    <2>5. PhaseOf' = PhaseOf
      <3>1. PhaseOf' = [PhaseOf EXCEPT ![r] = "putting"]
        BY <1>0, <2>1, ShowGoto, TypeParts DEF Phase
      <3> QED BY <2>4, <3>1 DEF PhaseOf
    <2> QED BY <2>1, <2>3, <2>4, <2>5 DEF Transfer!Put, Shown, PhaseOf
  <1>7. ASSUME NEW r \in Runs, ReplaceFails(r) PROVE Transfer!Fail(r)
    <2>1. /\ UNCHANGED <<src, data>> /\ pc[r] = "replace" /\ AttemptFails(r)
          /\ Phase(pc[r]) = "putting"
      BY <1>7 DEF ReplaceFails, local, At, Phase
    <2>2. PICK left \in PutLeaves(DstKind, obj[ShareOf[r]], Absent, Copy(data[r])) :
                 obj' = [obj EXCEPT ![ShareOf[r]] = left]
      BY <1>0, <1>7, <2>1 DEF ReplaceFails, CopyInv, PartsWhole, At
    <2>3. Shown' = [Shown EXCEPT ![ShareOf[r]] = VersionOf(left)]
      BY <1>0, <2>2, ShowWrite, TypeParts
    <2>4. CASE left = obj[ShareOf[r]]
      <3>1. UNCHANGED obj
        BY <1>0, <2>2, <2>4 DEF TypeOK
      <3> QED BY <1>0, <2>1, <3>1, ShowFailure
    <2>5. CASE left = Copy(data[r]) \/ (Truncates /\ left = Absent)
      <3>1. VersionOf(left) \in {data[r]} \cup (IF Truncates THEN {0} ELSE {})
        BY <2>5, VersionOfCopy
      <3> QED BY <1>0, <2>1, <2>3, <3>1, ShowFailure
    <2> QED BY <2>4, <2>5, LeavesWhole
  <1>8. ASSUME NEW r \in Runs, Mark(r) PROVE Transfer!Finish(r)
    <2>1. Goto(r, "finished") /\ UNCHANGED <<src, data, obj>> /\ pc[r] = "mark"
      BY <1>8 DEF Mark, remote, local, At
    <2>2. /\ PhaseOf' = [PhaseOf EXCEPT ![r] = "finished"] /\ UNCHANGED <<src, Shown, data>>
          /\ PhaseOf[r] = "putting"
      BY <1>0, <2>1, ShowPhase DEF Phase
    <2>3. Shown[ShareOf[r]] = data[r]
      BY <1>0, <2>1, VersionOfCopy DEF CopyInv, ObjectWritten, Shown
    <2> QED BY <2>2, <2>3 DEF Transfer!Finish, Transfer!Enter, Shown, PhaseOf
  <1>9. CASE Update
    <2>1. src' = src + 1 /\ UNCHANGED <<data, Shown, PhaseOf>>
      BY <1>9, ShowFrame DEF Update, remote, local
    <2> QED BY <2>1 DEF Transfer!Next, Transfer!Publish, Shown, PhaseOf
  <1>10. CASE Kill
    <2>1. PICK torn \in BOOLEAN :
             /\ torn => Truncates
             /\ obj' = [s \in Shares |->
                          IF torn /\ \E r \in Runs : ShareOf[r] = s /\ At(r, "replace")
                          THEN Absent ELSE obj[s]]
      BY <1>10 DEF Kill
    <2> DEFINE cut == {s \in Shares : torn /\ \E r \in Runs : ShareOf[r] = s /\ At(r, "replace")}
    <2>2. Shown' = [s \in Shares |-> IF s \in cut THEN 0 ELSE Shown[s]]
      <3>1. \A s \in Shares : VersionOf(obj[s])' = IF s \in cut THEN 0 ELSE Shown[s]
        BY <2>1, VersionOfCopy DEF Shown, VersionOf, Uniform
      <3> QED BY <3>1 DEF Shown
    <2>3. PhaseOf' = [r \in Runs |-> "idle"]
      BY <1>10 DEF Kill, PhaseOf, Phase
    <2>4. cut \in SUBSET {ShareOf[r] : r \in {r \in Runs : PhaseOf[r] = "putting"}}
      BY DEF PhaseOf, Phase, At
    <2>5. Truncates \/ cut = {}
      BY <2>1
    <2>6. UNCHANGED <<src, data>>
      BY <1>10 DEF Kill, local
    <2> HIDE DEF cut
    <2>7. Transfer!Kill
      BY <2>2, <2>3, <2>4, <2>5, <2>6 DEF Transfer!Kill, Shown, PhaseOf
    <2> QED BY <2>7 DEF Transfer!Next
  <1>11. ASSUME NEW r \in Runs,
                \/ StartChunk(r)
                \/ \E i \in Chunks : UploadChunk(r, i) \/ NoteChunk(r, i) \/ ChunkFails(r, i)
         PROVE  Same
    <2>1. UNCHANGED <<src, data, obj, pc>>
      BY <1>11 DEF StartChunk, UploadChunk, NoteChunk, ChunkFails, remote, local
    <2> QED BY <1>4, <2>1
  <1>12. CASE \/ \E s \in Others : StartOther(s)
              \/ \E i \in Chunks : NoteOther(i)
              \/ Expire \/ UNCHANGED vars
    <2>1. UNCHANGED <<src, data, obj, pc>>
      BY <1>12 DEF StartOther, NoteOther, Expire, vars, remote, local
    <2> QED BY <1>4, <1>s, <2>1
  <1> HIDE DEF Same
  <1>13. ASSUME NEW r \in Runs,
                Transfer!Begin(r) \/ Transfer!Take(r) \/ Transfer!Put(r) \/ Transfer!Finish(r) \/ Transfer!Fail(r)
         PROVE  [Transfer!Next]_(Transfer!vars)
    BY <1>13 DEF Transfer!Next
  <1> QED
    BY <1>s, <1>1, <1>2, <1>3, <1>5, <1>6, <1>7, <1>8, <1>9, <1>10, <1>11, <1>12, <1>13
    DEF Next, Advance, Fails

(* Where no two runs execute the same share, the chunks of a large object,   *)
(* their retries and their leftovers do not show: its transfer implements     *)
(* AtomicPut, one whole version in one change of the destination.             *)
THEOREM TransferIsAtomic == SeparateShares => (Spec => PutsAtomically)
  <1> SUFFICES ASSUME SeparateShares PROVE Spec => PutsAtomically
    OBVIOUS
  <1>1. Init => Transfer!Init /\ CacheIsOld
    <2>1. ASSUME Init PROVE Shown = [s \in Shares |-> 0] /\ PhaseOf = [r \in Runs |-> "idle"]
      BY <2>1, VersionOfCopy DEF Init, Shown, PhaseOf, Phase
    <2>2. ASSUME Init PROVE CacheIsOld
      BY <2>2 DEF Init, CacheIsOld
    <2> QED BY <2>1, <2>2 DEF Init, Transfer!Init, Shown, PhaseOf
  <1>2. WholeInv /\ WholeInv' /\ CacheIsOld /\ [Next]_vars => CacheIsOld'
    BY NextCache DEF WholeInv, PoolInv
  <1>3. WholeInv /\ CacheIsOld /\ [Next]_vars => [Transfer!Next]_(Transfer!vars)
    BY StepIsPut
  <1>4. Spec => []WholeInv
    BY WholeSafety
  <1> QED BY <1>1, <1>2, <1>3, <1>4, PTL DEF Spec, PutsAtomically, Transfer!Spec
=============================================================================
