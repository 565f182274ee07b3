------------------------------ MODULE ClipProofs ----------------------------
(***************************************************************************)
(* Theorems of ClipExporter, for every set of clips, chunks and windows:   *)
(* the type invariant, that no clip is handed to the worker twice, that a  *)
(* done clip can be downloaded, that a clip which has ended stays so, and  *)
(* that a clip has the footage its window had in ended chunks.             *)
(***************************************************************************)
EXTENDS ClipExporter, FiniteSetTheorems, TLAPS

-----------------------------------------------------------------------------
(* The type invariant in parts                                             *)

Rows     == clips \in [Clip -> ClipRow] /\ output \subseteq Clip /\ scratch \subseteq Clip
Chunks   == chunkRow \in [Chunk -> Home] /\ local \subseteq Chunk
Queue    == queue \in Seq(Clip)
Counters == restarts \in 0..MaxRestarts /\ faults \in 0..MaxFaults

WorkerState == [pc : WorkerPC, clip : Clip \cup {NoClip}, chunks : Seq(Chunk), at : Nat,
                inPlace : SUBSET Chunk, seen : Home, live : SUBSET Chunk]

Worker ==
    /\ worker \in WorkerState
    /\ worker.pc # "get" => worker.clip \in Clip
    /\ worker.pc \in {"load", "check", "download", "missing"} =>
          worker.at \in 1..Len(worker.chunks)
\* The walk over the chunks begins with the first.
AtFirst == worker.pc \in {"claim", "query"} => worker.at = 1

Requests ==
    /\ booting \in BOOLEAN /\ creating \subseteq Clip /\ removed \subseteq Clip /\ lost \subseteq Clip
    /\ deleting \in [pc : {"none", "file", "row"}, clip : Clip \cup {NoClip}]
\* A request that deletes has a clip to delete.
Named == deleting.pc # "none" => deleting.clip \in Clip

Typed == Rows /\ Chunks /\ Queue /\ Counters /\ Worker /\ AtFirst /\ Requests /\ Named

(***************************************************************************)
(* The parts imply the type invariant.                                     *)
(***************************************************************************)
LEMMA TypeParts == Typed => TypeOK
  BY DEF Typed, Rows, Chunks, Queue, Counters, Worker, WorkerState, Requests, TypeOK

\* What the manager, the uploader and retention do to a chunk.
ChunkMoves(c) == ChunkEnded(c) \/ ChunkUploaded(c) \/ LocalRemoved(c) \/ ChunkExpired(c)

USE DEF vars, clipData, chunkData, requests, budgets

(***************************************************************************)
(* An ordered listing of a finite set is a sequence of its members, each   *)
(* of which it has once.                                                   *)
(***************************************************************************)
LEMMA Listing ==
  ASSUME NEW S, NEW T \in SUBSET S, IsFiniteSet(S), NEW rank \in [S -> Nat],
         NEW q \in InOrder(T, rank)
  PROVE  /\ q \in Seq(T) /\ q \in Seq(S)
         /\ \A i, j \in 1..Len(q) : q[i] = q[j] => i = j
<1>1. Cardinality(T) \in Nat
  BY FS_Subset, FS_CardinalityType
<1>2. q \in [1..Cardinality(T) -> T]
  BY DEF InOrder
<1>3. q \in Seq(T) /\ Len(q) = Cardinality(T)
  BY <1>1, <1>2
<1>4. q \in Seq(S)
  BY <1>1, <1>2
<1>5. ASSUME NEW i \in 1..Len(q), NEW j \in 1..Len(q), i < j
      PROVE  q[i] # q[j]
  <2>1. rank[q[i]] < rank[q[j]]
    BY <1>2, <1>3, <1>5 DEF InOrder
  <2>2. q[i] \in S
    BY <1>2, <1>3
  <2> QED BY <2>1, <2>2
<1>6. ASSUME NEW i \in 1..Len(q), NEW j \in 1..Len(q), q[i] = q[j]
      PROVE  i = j
  BY <1>1, <1>3, <1>5, <1>6
<1> QED BY <1>3, <1>4, <1>6

(***************************************************************************)
(* The chunks of a window are a sequence of chunks.                        *)
(***************************************************************************)
LEMMA Found == \A k \in Clip : \A q \in Overlapping(k) : q \in Seq(Chunk)
<1> SUFFICES ASSUME NEW k \in Clip, NEW q \in Overlapping(k) PROVE q \in Seq(Chunk)
  OBVIOUS
<1> DEFINE S == {c \in Chunk : Ended(c) /\ Overlaps(k, c)}
           from == [c \in Chunk |-> Footage[c].from]
<1>1. S \in SUBSET Chunk /\ IsFiniteSet(Chunk) /\ from \in [Chunk -> Nat]
  BY FootageAssumption
<1>2. q \in InOrder(S, from)
  BY DEF Overlapping
<1> HIDE DEF S, from
<1> QED BY <1>1, <1>2, Listing

(***************************************************************************)
(* What a boot finds to build is a sequence of clips, each once.           *)
(***************************************************************************)
LEMMA Requeue == \A q \in InOrder(Requeued, [k \in Clip |-> k]) :
    /\ q \in Seq(Clip) /\ q \in Seq(Requeued)
    /\ \A i, j \in 1..Len(q) : q[i] = q[j] => i = j
<1> DEFINE id == [k \in Clip |-> k]
<1> SUFFICES ASSUME NEW q \in InOrder(Requeued, id)
             PROVE  /\ q \in Seq(Clip) /\ q \in Seq(Requeued)
                    /\ \A i, j \in 1..Len(q) : q[i] = q[j] => i = j
  OBVIOUS
<1>1. Requeued \in SUBSET Clip
  BY DEF Requeued, Interrupted, InStatus
<1>2. IsFiniteSet(Clip) /\ id \in [Clip -> Nat]
  BY ClipAssumption
<1> HIDE DEF id
<1> QED BY <1>1, <1>2, Listing

-----------------------------------------------------------------------------
(* The parts are preserved                                                 *)

(***************************************************************************)
(* A row that changes its status is a row.                                 *)
(***************************************************************************)
LEMMA RowForms == \A r \in ClipRow, s \in Status :
    [r EXCEPT !.status = s] \in ClipRow /\ NoRow \in ClipRow
  BY DEF ClipRow, NoRow, Status

(***************************************************************************)
(* Rows and the files of clips keep their types.                           *)
(***************************************************************************)
LEMMA RowsStep == Typed /\ [Next]_vars => Rows'
<1> SUFFICES ASSUME Typed, [Next]_vars PROVE Rows'
  OBVIOUS
<1> USE RowForms DEF Typed, Rows, Worker, Requests, Named, Status
<1>1. ASSUME NEW k \in Clip, Create(k) \/ Enqueue(k) \/ DeleteRead(k) PROVE Rows'
  <2>1. [clips[k] EXCEPT !.status = "queued"] \in ClipRow
    OBVIOUS
  <2>2. CASE Create(k)
    <3>1. clips' = [clips EXCEPT ![k] = [clips[k] EXCEPT !.status = "queued"]]
      BY <2>2 DEF Create
    <3> QED BY <2>1, <2>2, <3>1 DEF Create
  <2>3. CASE Enqueue(k) \/ DeleteRead(k)
    BY <2>3 DEF Enqueue, DeleteRead
  <2> QED BY <1>1, <2>2, <2>3
<1>2. CASE DeleteFile
  BY <1>2 DEF DeleteFile
<1>3. CASE DeleteRow
  BY <1>3 DEF DeleteRow, NoRow, ClipRow
<1>4. CASE Get \/ Load \/ CheckChunk \/ Download \/ RaiseMissing \/ Prepare
  BY <1>4 DEF Get, Load, CheckChunk, Download, RaiseMissing, Prepare
<1>5. CASE Claim
  <2>1. worker.clip \in Clip /\ [clips[worker.clip] EXCEPT !.status = "running"] \in ClipRow
    BY <1>5 DEF Claim
  <2>2. clips' \in {clips, [clips EXCEPT ![worker.clip] =
                               [clips[worker.clip] EXCEPT !.status = "running"]]}
    BY <1>5 DEF Claim
  <2> QED BY <1>5, <2>1, <2>2 DEF Claim
<1>6. CASE Query
  BY <1>6 DEF Query
<1>7. CASE Concat
  BY <1>7 DEF Concat, Partial
<1>8. CASE ExportFails
  BY <1>8 DEF ExportFails, Partial
<1>9. CASE Commit
  BY <1>9 DEF Commit, ClipRow
<1>10. CASE Fail
  BY <1>10 DEF Fail, Failed
<1>11. ASSUME NEW c \in Chunk, ChunkMoves(c) PROVE Rows'
  BY <1>11 DEF ChunkMoves, ChunkEnded, ChunkUploaded, LocalRemoved, ChunkExpired
<1>12. CASE Restart
  BY <1>12 DEF Restart, Partial
<1>13. CASE Recover \/ RecoverFails
  <2>1. Reset \in [Clip -> ClipRow]
    BY DEF Reset
  <2> QED BY <1>13, <2>1 DEF Recover, RecoverFails
<1>14. CASE UNCHANGED vars
  BY <1>14
<1>15. CASE DeleteFails \/ DatabaseFails \/ FailRaises
  BY <1>15 DEF DeleteFails, DatabaseFails, FailRaises
<1> QED
  BY <1>1, <1>2, <1>3, <1>4, <1>5, <1>6, <1>7, <1>8, <1>9, <1>10, <1>11, <1>12, <1>13, <1>14, <1>15
  DEF Next, WorkerStep, ChunkMoves

(***************************************************************************)
(* Chunks and counters keep their types.                                   *)
(***************************************************************************)
LEMMA ChunksStep == Typed /\ [Next]_vars => Chunks' /\ Counters'
<1> SUFFICES ASSUME Typed, [Next]_vars PROVE Chunks' /\ Counters'
  OBVIOUS
<1> USE BoundAssumption DEF Typed, Chunks, Counters, Home
<1>1. CASE UNCHANGED <<chunkRow, local, restarts, faults>>
  BY <1>1
<1>2. ASSUME NEW c \in Chunk, ChunkMoves(c)
      PROVE  Chunks' /\ Counters'
  BY <1>2 DEF ChunkMoves, ChunkEnded, ChunkUploaded, LocalRemoved, ChunkExpired
<1>3. CASE ExportFails \/ Restart \/ DeleteFails
  BY <1>3 DEF ExportFails, Restart, DeleteFails
<1>8. CASE DatabaseFails \/ FailRaises \/ RecoverFails
  BY <1>8 DEF DatabaseFails, FailRaises, RecoverFails
<1>4. ASSUME NEW k \in Clip, Create(k) \/ Enqueue(k) \/ DeleteRead(k) \/ DeleteFile \/ DeleteRow
      PROVE  UNCHANGED <<chunkRow, local, restarts, faults>>
  BY <1>4 DEF Create, Enqueue, DeleteRead, DeleteFile, DeleteRow
<1>5. ASSUME DeleteFile \/ DeleteRow
      PROVE  UNCHANGED <<chunkRow, local, restarts, faults>>
  BY <1>5 DEF DeleteFile, DeleteRow
<1>6. ASSUME Get \/ Claim \/ Query \/ Load \/ CheckChunk \/ Download \/ RaiseMissing
      PROVE  UNCHANGED <<chunkRow, local, restarts, faults>>
  BY <1>6 DEF Get, Claim, Query, Load, CheckChunk, Download, RaiseMissing
<1>7. ASSUME Prepare \/ Concat \/ Commit \/ Fail \/ Recover \/ UNCHANGED vars
      PROVE  UNCHANGED <<chunkRow, local, restarts, faults>>
  BY <1>7 DEF Prepare, Concat, Commit, Fail, Recover
<1> QED BY <1>1, <1>2, <1>3, <1>4, <1>5, <1>6, <1>7, <1>8 DEF Next, WorkerStep, ChunkMoves

(***************************************************************************)
(* Queue and requests keep their types.                                    *)
(***************************************************************************)
LEMMA RequestsStep == Typed /\ [Next]_vars => Queue' /\ Requests' /\ Named'
<1> SUFFICES ASSUME Typed, [Next]_vars PROVE Queue' /\ Requests' /\ Named'
  OBVIOUS
<1> USE DEF Typed, Queue, Requests, Named, NoDelete
<1>1. ASSUME NEW k \in Clip, Create(k) PROVE Queue' /\ Requests' /\ Named'
  BY <1>1 DEF Create
<1>2. ASSUME NEW k \in Clip, Enqueue(k) PROVE Queue' /\ Requests' /\ Named'
  BY <1>2 DEF Enqueue
<1>3. ASSUME NEW k \in Clip, DeleteRead(k) PROVE Queue' /\ Requests' /\ Named'
  BY <1>3 DEF DeleteRead
<1>4. CASE DeleteFile
  BY <1>4 DEF DeleteFile
<1>5. CASE DeleteRow
  BY <1>5 DEF DeleteRow
<1>6. CASE Get
  BY <1>6 DEF Get
<1>7. CASE Restart
  BY <1>7 DEF Restart
<1>8. CASE Recover
  BY <1>8, Requeue DEF Recover
<1>9. CASE UNCHANGED <<queue, booting, creating, deleting, removed, lost>>
  BY <1>9
<1>10. ASSUME Claim \/ Query \/ Load \/ CheckChunk \/ Download \/ RaiseMissing
       PROVE  UNCHANGED <<queue, booting, creating, deleting, removed, lost>>
  BY <1>10 DEF Claim, Query, Load, CheckChunk, Download, RaiseMissing
<1>11. ASSUME Prepare \/ Concat \/ ExportFails \/ DatabaseFails \/ Commit \/ Fail \/ UNCHANGED vars
       PROVE  UNCHANGED <<queue, booting, creating, deleting, removed, lost>>
  BY <1>11 DEF Prepare, Concat, ExportFails, DatabaseFails, Commit, Fail
<1>13. CASE DeleteFails
  BY <1>13 DEF DeleteFails
<1>14. CASE FailRaises
  BY <1>14 DEF FailRaises, Worker
<1>15. CASE RecoverFails
  BY <1>15 DEF RecoverFails, InStatus
<1>12. ASSUME NEW c \in Chunk, ChunkMoves(c)
       PROVE  UNCHANGED <<queue, booting, creating, deleting, removed, lost>>
  BY <1>12 DEF ChunkMoves, ChunkEnded, ChunkUploaded, LocalRemoved, ChunkExpired
<1> QED
  BY <1>1, <1>2, <1>3, <1>4, <1>5, <1>6, <1>7, <1>8, <1>9, <1>10, <1>11, <1>12, <1>13, <1>14, <1>15
  DEF Next, WorkerStep, ChunkMoves

(***************************************************************************)
(* A sequence without its head.                                            *)
(***************************************************************************)
LEMMA Shorter == \A q \in Seq(Clip) : q # <<>> =>
    /\ Head(q) \in Clip /\ Head(q) = q[1]
    /\ Len(Tail(q)) = Len(q) - 1 /\ Len(q) >= 1
    /\ \A i \in 1..Len(Tail(q)) : Tail(q)[i] = q[i + 1] /\ i + 1 \in 1..Len(q)
  OBVIOUS

(***************************************************************************)
(* A worker that waits for a clip.                                         *)
(***************************************************************************)
LEMMA IdleType == Idle.pc = "get" /\ Idle.clip = NoClip /\ Idle.at = 1
                  /\ Idle \in WorkerState
  BY DEF Idle, WorkerState, WorkerPC, Home

(***************************************************************************)
(* After a chunk comes the next one, or the cut.                           *)
(***************************************************************************)
LEMMA AdvanceType ==
  ASSUME NEW w \in WorkerState, w.at \in 1..Len(w.chunks)
  PROVE  LET v == Advance(w)
         IN  /\ v \in WorkerState /\ v.clip = w.clip /\ v.pc \in {"prepare", "load"}
             /\ v.pc = "load" => v.at \in 1..Len(v.chunks)
<1>1. Len(w.chunks) \in Nat
  BY DEF WorkerState
<1>2. CASE w.at = Len(w.chunks)
  BY <1>2 DEF Advance, WorkerState, WorkerPC
<1>3. CASE w.at # Len(w.chunks)
  <2>1. w.at + 1 \in 1..Len(w.chunks) /\ w.at + 1 \in Nat
    BY <1>1, <1>3
  <2>2. Advance(w) = [w EXCEPT !.pc = "load", !.at = w.at + 1]
    BY <1>3 DEF Advance
  <2> QED BY <2>1, <2>2 DEF WorkerState, WorkerPC
<1> QED BY <1>2, <1>3

(***************************************************************************)
(* The worker keeps its type, and begins a walk with the first chunk.      *)
(***************************************************************************)
LEMMA WorkerStepKeeps == Typed /\ WorkerStep => Worker' /\ AtFirst'
<1> SUFFICES ASSUME Typed, WorkerStep PROVE Worker' /\ AtFirst'
  OBVIOUS
<1> USE IdleType DEF Typed, Worker, WorkerState, AtFirst, WorkerPC, Home, Goto, Raise
<1>1. CASE Get
  BY <1>1, Shorter DEF Get, Idle, Queue
<1>2. CASE Claim
  BY <1>2 DEF Claim
<1>3. CASE Query
  <2>1. PICK found \in Overlapping(worker.clip) :
            IF ~Exists(worker.clip) \/ found = <<>> THEN worker' = [worker EXCEPT !.pc = "fail"]
            ELSE worker' = [worker EXCEPT !.pc = "check", !.chunks = found,
                                          !.seen = chunkRow[Head(found)],
                                          !.live = InHome("open")]
    BY <1>3 DEF Query
  <2>2. found \in Seq(Chunk)
    BY <1>3, <2>1, Found DEF Query
  <2>3. found # <<>> => Head(found) \in Chunk /\ 1 \in 1..Len(found)
    BY <2>2
  <2>4. (found # <<>> => chunkRow[Head(found)] \in Home) /\ InHome("open") \in SUBSET Chunk
    BY <2>3 DEF Chunks, InHome
  <2> QED BY <1>3, <2>1, <2>2, <2>3, <2>4, ZenonT(60) DEF Query
<1>4. CASE Load
  <2>1. Current \in Chunk /\ chunkRow[Current] \in Home
    BY <1>4 DEF Load, Current, Chunks
  <2> HIDE DEF Current
  <2> QED BY <1>4, <2>1, ZenonT(60) DEF Load
<1>5. CASE CheckChunk
  <2>1. Current \in Chunk
    BY <1>5 DEF CheckChunk, Current
  <2> DEFINE w == [worker EXCEPT !.inPlace = worker.inPlace \cup {Current}]
  <2>2. w \in WorkerState /\ w.at \in 1..Len(w.chunks) /\ w.clip \in Clip
    BY <1>5, <2>1 DEF CheckChunk
  <2>3. CASE worker' = Advance(w)
    <3> HIDE DEF w
    <3> QED BY <2>2, <2>3, AdvanceType
  <2>4. CASE worker' \in {[worker EXCEPT !.pc = "download"], [worker EXCEPT !.pc = "missing"]}
    BY <1>5, <2>4 DEF CheckChunk
  <2> QED BY <1>5, <2>3, <2>4 DEF CheckChunk
<1>6. CASE Download
  <2>1. CASE worker' = Advance(worker)
    BY <1>6, <2>1, AdvanceType DEF Download
  <2>2. CASE worker' = [worker EXCEPT !.pc = "fail"]
    BY <1>6, <2>2 DEF Download
  <2> QED BY <1>6, <2>1, <2>2 DEF Download
<1>7. CASE RaiseMissing
  BY <1>7 DEF RaiseMissing
<1>8. CASE Prepare
  BY <1>8 DEF Prepare
<1>9. CASE Concat
  BY <1>9 DEF Concat, OnConcatError
<1>10. CASE ExportFails
  BY <1>10 DEF ExportFails, OnConcatError
<1>11. CASE Commit
  BY <1>11 DEF Commit
<1>12. CASE Fail
  BY <1>12 DEF Fail
<1>13. CASE DatabaseFails
  BY <1>13 DEF DatabaseFails
<1>14. CASE FailRaises
  BY <1>14 DEF FailRaises
<1> QED
  BY <1>1, <1>2, <1>3, <1>4, <1>5, <1>6, <1>7, <1>8, <1>9, <1>10, <1>11, <1>12, <1>13, <1>14
  DEF WorkerStep

(***************************************************************************)
(* What the worker does not do leaves it alone, or ends it.                *)
(***************************************************************************)
LEMMA WorkerRests == [Next]_vars => WorkerStep \/ Restart \/ worker' = worker
  BY DEF Next, Create, Enqueue, DeleteRead, DeleteFile, DeleteRow, DeleteFails, ChunkEnded,
         ChunkUploaded, LocalRemoved, ChunkExpired, Recover, RecoverFails

(***************************************************************************)
(* Every step keeps the types.                                             *)
(***************************************************************************)
LEMMA TypedStep == Typed /\ [Next]_vars => Typed'
<1> SUFFICES ASSUME Typed, [Next]_vars PROVE Typed'
  OBVIOUS
<1>1. ASSUME Restart PROVE Worker' /\ AtFirst'
  BY <1>1, IdleType DEF Restart, Worker, AtFirst
<1>2. ASSUME worker' = worker PROVE Worker' /\ AtFirst'
  BY <1>2 DEF Typed, Worker, AtFirst
<1>3. Worker' /\ AtFirst'
  BY <1>1, <1>2, WorkerStepKeeps, WorkerRests
<1> QED BY <1>3, RowsStep, ChunksStep, RequestsStep DEF Typed

(***************************************************************************)
(* The first state has them.                                               *)
(***************************************************************************)
LEMMA TypedInit == Init => Typed
<1> SUFFICES ASSUME Init PROVE Typed
  OBVIOUS
<1>1. Rows /\ Chunks
  <2>1. NoRow \in ClipRow
    BY DEF NoRow, ClipRow, Status
  <2>2. Rows
    BY <2>1 DEF Init, Rows
  <2>3. Chunks
    BY DEF Init, Chunks, Home
  <2> QED BY <2>2, <2>3
<1>2. Worker /\ AtFirst
  BY IdleType DEF Init, Worker, AtFirst
<1>3. Queue /\ Counters /\ Requests /\ Named
  <2>1. Queue /\ Counters
    BY BoundAssumption DEF Init, Queue, Counters
  <2>2. Requests /\ Named
    BY DEF Init, Requests, Named, NoDelete
  <2> QED BY <2>1, <2>2
<1> QED BY <1>1, <1>2, <1>3 DEF Typed

(***************************************************************************)
(* The exporter's state is well-typed, and a busy worker has a clip and,   *)
(* on its walk, a chunk in hand.                                           *)
(***************************************************************************)
THEOREM TypeCorrect == Spec => []TypeOK
  BY TypedInit, TypedStep, TypeParts, PTL DEF Spec

-----------------------------------------------------------------------------
(* Who holds a clip                                                        *)

\* The worker's clip has not ended, unless a request has deleted it.
Working ==
    /\ worker.pc = "get" => worker.clip = NoClip
    /\ worker.pc = "claim" => clips[worker.clip].status \in {"queued", "deleted"}
    /\ worker.pc = "fail" => clips[worker.clip].status \in {"queued", "running", "deleted"}
    /\ worker.pc \notin {"get", "claim", "fail"} =>
          clips[worker.clip].status \in {"running", "deleted"}

\* A clip that is about to be queued is nowhere else.
Pending == \A k \in creating : /\ clips[k].status \in {"queued", "deleted"}
                               /\ k # worker.clip

\* A boot has found nothing at work.
Booting == booting => queue = <<>> /\ worker = Idle /\ creating = {}

\* What the worker is about to commit is there, or has been removed since.
Output == worker.pc = "commit" => worker.clip \in output \cup removed

Custody == Working /\ Pending /\ Booting /\ Output /\ HandedOnce /\ DoneIsDownloadable

(***************************************************************************)
(* On its walk and at the cut the worker stays with its clip.              *)
(***************************************************************************)
LEMMA WalkKeeps ==
  ASSUME Typed, Query \/ Load \/ CheckChunk \/ Download \/ RaiseMissing \/ Prepare
  PROVE  /\ worker'.clip = worker.clip /\ worker'.pc \notin {"get", "claim", "commit"}
         /\ worker.pc \notin {"get", "claim", "fail"}
<1> USE DEF Goto, Raise, Typed, Worker, WorkerState
<1>1. CASE Query
  BY <1>1 DEF Query
<1>2. CASE Load \/ RaiseMissing \/ Prepare
  BY <1>2 DEF Load, RaiseMissing, Prepare
<1>3. CASE CheckChunk
  BY <1>3 DEF CheckChunk, Advance
<1>4. CASE Download
  BY <1>4 DEF Download, Advance
<1> QED BY <1>1, <1>2, <1>3, <1>4

(***************************************************************************)
(* The worker's steps keep the custody: it leaves a clip it has claimed    *)
(* only by ending it.                                                      *)
(***************************************************************************)
LEMMA WorkerCustody == Typed /\ Custody /\ WorkerStep => Custody'
<1> SUFFICES ASSUME Typed, Custody, WorkerStep PROVE Custody'
  OBVIOUS
<1> USE ClipAssumption DEF Custody, Working, Pending, Booting, Output, HandedOnce, DoneIsDownloadable
<1>0. worker.pc # "get" => worker.clip \in Clip /\ ~booting
  BY IdleType DEF Typed, Worker
<1>1. CASE Get
  <2>1. queue \in Seq(Clip) /\ queue # <<>> /\ queue' = Tail(queue)
        /\ worker' = [Idle EXCEPT !.pc = "claim", !.clip = Head(queue)]
    BY <1>1 DEF Get, Typed, Queue
  <2>2. worker'.pc = "claim" /\ worker'.clip = queue[1]
    BY <2>1, Shorter DEF Idle
  <2>3. UNCHANGED <<clips, output, creating, removed, booting>>
    BY <1>1 DEF Get
  <2>4. HandedOnce'
    BY <2>1, <2>2, <2>3, Shorter, SMTT(30)
  <2>5. Booting'
    BY <2>1, <2>3
  <2>6. Working' /\ Pending' /\ Output' /\ DoneIsDownloadable'
    BY <2>1, <2>2, <2>3, Shorter
  <2> QED BY <2>4, <2>5, <2>6
<1>2. CASE Claim
  <2>1. CASE Exists(worker.clip)
    <3>1. worker'.pc = "query" /\ worker'.clip = worker.clip
          /\ clips' = [clips EXCEPT ![worker.clip].status = "running"]
      BY <1>2, <2>1 DEF Claim, Goto, Typed, Worker, WorkerState
    <3>2. \A k \in Clip : k # worker.clip => clips'[k] = clips[k]
      BY <3>1 DEF Typed, Rows
    <3>3. clips'[worker.clip].status = "running"
      BY <1>0, <1>2, <3>1 DEF Claim, Typed, Rows, ClipRow
    <3>4. UNCHANGED <<queue, output, creating, removed, booting>> /\ worker.pc = "claim"
      BY <1>2 DEF Claim
    <3>5. creating \subseteq Clip /\ queue \in Seq(Clip)
      BY DEF Typed, Requests, Queue
    <3>6. HandedOnce'
      BY <1>0, <3>1, <3>2, <3>4, <3>5
    <3>7. Working' /\ Pending' /\ Booting' /\ Output' /\ DoneIsDownloadable'
      BY <1>0, <3>1, <3>2, <3>3, <3>4, <3>5
    <3> QED BY <3>6, <3>7
  <2>2. CASE ~Exists(worker.clip)
    <3>1. worker' = Idle /\ clips' = clips
      BY <1>2, <2>2 DEF Claim
    <3>2. UNCHANGED <<queue, output, creating, removed, booting>> /\ worker.pc = "claim"
      BY <1>2 DEF Claim
    <3>3. creating \subseteq Clip /\ queue \in Seq(Clip)
      BY DEF Typed, Requests, Queue
    <3> QED BY <1>0, <3>1, <3>2, <3>3, IdleType
  <2> QED BY <2>1, <2>2
<1>3. CASE Query \/ Load \/ CheckChunk \/ Download \/ RaiseMissing \/ Prepare
  <2>1. UNCHANGED <<clips, output, queue, creating, removed, booting>>
    BY <1>3 DEF Query, Load, CheckChunk, Download, RaiseMissing, Prepare
  <2>2. worker'.clip = worker.clip /\ worker'.pc \notin {"get", "claim", "commit"}
        /\ worker.pc \notin {"get", "claim", "fail"}
    BY <1>3, WalkKeeps
  <2> QED BY <1>0, <2>1, <2>2
<1>4. CASE Concat
  <2>1. UNCHANGED <<clips, queue, creating, removed, booting>> /\ worker.pc = "concat"
    BY <1>4 DEF Concat
  <2>2. /\ worker'.clip = worker.clip /\ worker'.pc \in {"commit", "fail"}
        /\ output \subseteq output' /\ (worker'.pc = "commit" => worker.clip \in output')
    BY <1>4 DEF Concat, Goto, OnConcatError, Partial, Typed, Worker, WorkerState
  <2> QED BY <1>0, <2>1, <2>2
<1>5. CASE ExportFails
  <2>1. UNCHANGED <<clips, queue, creating, removed, booting>> /\ worker.pc \in {"download", "concat"}
    BY <1>5 DEF ExportFails
  <2>2. worker'.clip = worker.clip /\ worker'.pc = "fail" /\ output \subseteq output'
    BY <1>5 DEF ExportFails, Raise, Goto, OnConcatError, Partial, Typed, Worker, WorkerState
  <2> QED BY <1>0, <2>1, <2>2
<1>7. CASE DatabaseFails
  <2>1. UNCHANGED <<clips, output, queue, creating, removed, booting>>
        /\ worker.pc \in {"claim", "query", "load", "prepare", "commit"}
    BY <1>7 DEF DatabaseFails
  <2>2. worker'.clip = worker.clip /\ worker'.pc = "fail"
    BY <1>7 DEF DatabaseFails, Raise, Goto, Typed, Worker, WorkerState
  <2> QED BY <1>0, <2>1, <2>2
<1>8. CASE FailRaises
  <2>1. /\ UNCHANGED <<clips, output, queue, creating, removed, booting>> /\ worker' = Idle
        /\ worker.pc = "fail"
    BY <1>8 DEF FailRaises
  <2>2. creating \subseteq Clip /\ queue \in Seq(Clip)
    BY DEF Typed, Requests, Queue
  <2> QED BY <1>0, <2>1, <2>2, IdleType
<1>6. CASE Commit \/ Fail
  <2>1. /\ UNCHANGED <<queue, output, creating, removed, booting>> /\ worker' = Idle
        /\ worker.pc \in {"commit", "fail"}
    BY <1>6 DEF Commit, Fail
  <2>2. \A k \in Clip : k # worker.clip => clips'[k] = clips[k]
    BY <1>6 DEF Commit, Fail, Typed, Rows
  <2>3. creating \subseteq Clip /\ queue \in Seq(Clip)
    BY DEF Typed, Requests, Queue
  <2>4. clips'[worker.clip].status = "done" =>
            worker.pc = "commit" /\ clips'[worker.clip].path
    <3>1. CASE clips' = clips
      BY <2>1, <3>1
    <3>2. CASE worker.pc = "commit" /\ clips' # clips
      BY <1>0, <1>6, <3>2 DEF Commit, Fail, Typed, Rows
    <3>3. CASE worker.pc = "fail" /\ clips' # clips
      <4>1. clips' = [clips EXCEPT ![worker.clip] = Failed(clips[worker.clip])]
        BY <1>6, <3>3 DEF Commit, Fail
      <4>2. worker.clip \in Clip /\ clips[worker.clip] \in ClipRow
        BY <1>0, <3>3 DEF Typed, Rows
      <4>3. clips'[worker.clip].status = "failed"
        BY <4>1, <4>2 DEF Failed, ClipRow, Typed, Rows
      <4> QED BY <4>3
    <3> QED BY <2>1, <3>1, <3>2, <3>3
  <2>5. HandedOnce' /\ Pending'
    <3>1. \A i \in 1..Len(queue) : /\ queue[i] \in Clip /\ queue[i] # worker.clip
                                   /\ clips'[queue[i]] = clips[queue[i]]
      BY <2>2, <2>3
    <3>2. HandedOnce'
      BY <2>1, <3>1, IdleType
    <3>3. Pending'
      BY <2>1, <2>2, <2>3, IdleType
    <3> QED BY <3>2, <3>3
  <2>6. DoneIsDownloadable'
    BY <2>1, <2>2, <2>4
  <2> QED BY <1>0, <2>1, <2>5, <2>6, IdleType
<1> QED BY <1>1, <1>2, <1>3, <1>4, <1>5, <1>6, <1>7, <1>8 DEF WorkerStep

(***************************************************************************)
(* Requests, the uploader, retention and a boot keep the custody.          *)
(***************************************************************************)
LEMMA OtherCustody == Typed /\ Custody /\ [Next]_vars => WorkerStep \/ Custody'
<1> SUFFICES ASSUME Typed, Custody, [Next]_vars PROVE WorkerStep \/ Custody'
  OBVIOUS
<1> USE ClipAssumption DEF Custody, Working, Pending, Booting, Output, HandedOnce, DoneIsDownloadable
<1>0. worker.pc # "get" => worker.clip \in Clip
  BY DEF Typed, Worker
<1>1. creating \subseteq Clip /\ queue \in Seq(Clip) /\ Idle.pc = "get" /\ Idle.clip = NoClip
  BY IdleType DEF Typed, Requests, Queue
<1>2. ASSUME NEW k \in Clip, Create(k) PROVE Custody'
  <2>1. /\ UNCHANGED <<queue, output, worker, removed, booting>> /\ ~booting
        /\ creating' = creating \cup {k} /\ clips[k].status = "absent"
    BY <1>2 DEF Create
  <2>2. clips'[k].status = "queued" /\ \A c \in Clip : c # k => clips'[c] = clips[c]
    BY <1>2 DEF Create, Typed, Rows, ClipRow
  <2>3. HandedOnce'
    <3>1. \A i \in 1..Len(queue) : queue[i] \in Clip /\ queue[i] # k
      BY <1>1, <2>1
    <3> QED BY <2>1, <2>2, <3>1
  <2>4. worker.pc # "get" => worker.clip # k
    BY <2>1
  <2>5. Working' /\ Pending' /\ Booting' /\ Output'
    BY <1>0, <1>1, <2>1, <2>2, <2>4
  <2>6. DoneIsDownloadable'
    BY <2>1, <2>2
  <2> QED BY <2>3, <2>5, <2>6
<1>3. ASSUME NEW k \in Clip, Enqueue(k) PROVE Custody'
  <2>1. /\ UNCHANGED <<clips, output, worker, removed, booting>>
        /\ creating' = creating \ {k} /\ queue' = Append(queue, k) /\ k \in creating
    BY <1>3 DEF Enqueue
  <2>2. Len(queue') = Len(queue) + 1 /\ Len(queue) \in Nat /\ queue'[Len(queue) + 1] = k
        /\ \A i \in 1..Len(queue) : queue'[i] = queue[i]
    BY <1>1, <2>1
  <2>3. HandedOnce'
    BY <1>1, <2>1, <2>2
  <2> QED BY <1>1, <2>1, <2>3
<1>4. ASSUME NEW k \in Clip, DeleteRead(k) PROVE Custody'
  BY <1>4 DEF DeleteRead
<1>5. CASE DeleteFile
  <2>1. UNCHANGED <<clips, queue, worker, creating, booting>>
        /\ removed' = removed \cup {deleting.clip} /\ output \ {deleting.clip} \subseteq output'
    BY <1>5 DEF DeleteFile
  <2> QED BY <2>1
<1>6. CASE DeleteRow
  <2>1. UNCHANGED <<output, queue, worker, creating, removed, booting>>
    BY <1>6 DEF DeleteRow
  <2>2. \A k \in Clip : clips'[k] = clips[k] \/ clips'[k].status = "deleted"
    BY <1>6 DEF DeleteRow, NoRow, Typed, Rows
  <2>3. HandedOnce'
    <3>1. \A i \in 1..Len(queue) : queue[i] \in Clip
      BY <1>1
    <3> QED BY <2>1, <2>2, <3>1
  <2>4. Working' /\ Pending' /\ Booting' /\ Output'
    BY <1>0, <1>1, <2>1, <2>2
  <2>5. DoneIsDownloadable'
    BY <2>1, <2>2
  <2> QED BY <2>3, <2>4, <2>5
<1>7. ASSUME NEW c \in Chunk, ChunkMoves(c) PROVE Custody'
  <2>1. UNCHANGED <<clips, output, queue, worker, creating, removed, booting>>
    BY <1>7 DEF ChunkMoves, ChunkEnded, ChunkUploaded, LocalRemoved, ChunkExpired
  <2> QED BY <2>1
<1>8. CASE Restart
  <2>1. /\ UNCHANGED <<clips, removed>> /\ output \subseteq output'
        /\ queue' = <<>> /\ worker' = Idle /\ creating' = {}
    BY <1>8 DEF Restart, Partial
  <2> QED BY <1>1, <2>1
<1>9. CASE Recover
  <2>1. /\ queue = <<>> /\ worker = Idle /\ creating = {} /\ ~booting'
        /\ UNCHANGED <<output, worker, creating, removed>>
        /\ queue' \in InOrder(Requeued, [k \in Clip |-> k])
    BY <1>9 DEF Recover
  <2>2. /\ queue' \in Seq(Requeued) /\ \A i, j \in 1..Len(queue') : queue'[i] = queue'[j] => i = j
    BY <2>1, Requeue
  <2>3. \A k \in Requeued : k \in Clip /\ clips'[k].status = "queued"
    BY <1>9 DEF Recover, Reset, Requeued, Interrupted, InStatus, Typed, Rows, ClipRow
  <2>4. \A i \in 1..Len(queue') : queue'[i] \in Requeued
    BY <2>2
  <2>5. \A k \in Clip : clips'[k] = clips[k] \/ clips'[k].status = "queued"
    BY <1>9 DEF Recover, Reset, Interrupted, InStatus, Typed, Rows, ClipRow
  <2>6. HandedOnce'
    BY <1>1, <2>1, <2>2, <2>3, <2>4
  <2> QED BY <1>1, <2>1, <2>5, <2>6
<1>10. CASE UNCHANGED vars
  BY <1>10
<1>11. CASE DeleteFails
  BY <1>11 DEF DeleteFails
<1>12. CASE RecoverFails
  <2>1. /\ queue = <<>> /\ worker = Idle /\ creating = {} /\ ~booting'
        /\ UNCHANGED <<output, queue, worker, creating, removed>>
    BY <1>12 DEF RecoverFails
  <2>2. \A k \in Clip : clips'[k] = clips[k] \/ clips'[k].status = "queued"
    BY <1>12 DEF RecoverFails, Reset, Interrupted, InStatus, Typed, Rows, ClipRow
  <2> QED BY <1>1, <2>1, <2>2
<1> QED BY <1>2, <1>3, <1>4, <1>5, <1>6, <1>7, <1>8, <1>9, <1>10, <1>11, <1>12 DEF Next, ChunkMoves

(***************************************************************************)
(* At first nothing is queued, built or removed.                           *)
(***************************************************************************)
LEMMA CustodyInit == Init => Custody
  BY IdleType DEF Init, Custody, Working, Pending, Booting, Output, HandedOnce,
                  DoneIsDownloadable, NoRow

(***************************************************************************)
(* The custody of clips is an invariant of every behaviour.                *)
(***************************************************************************)
LEMMA CustodyHolds == Spec => [](Typed /\ Custody)
<1>1. Typed /\ Custody /\ [Next]_vars => Typed' /\ Custody'
  BY TypedStep, WorkerCustody, OtherCustody
<1> QED
  BY <1>1, TypedInit, CustodyInit, PTL DEF Spec

(***************************************************************************)
(* No clip is handed to the worker twice, or after it has ended, whatever  *)
(* requests, failures and restarts come in between.                        *)
(***************************************************************************)
THEOREM BuiltOnce == Spec => []HandedOnce
<1>1. Custody => HandedOnce
  BY DEF Custody
<1> QED BY <1>1, CustodyHolds, PTL

(***************************************************************************)
(* A clip that says "done" can be downloaded until a request removes it.   *)
(***************************************************************************)
THEOREM Downloadable == Spec => []DoneIsDownloadable
<1>1. Custody => DoneIsDownloadable
  BY DEF Custody
<1> QED BY <1>1, CustodyHolds, PTL

(***************************************************************************)
(* A step changes a done or a failed clip only by deleting it.             *)
(***************************************************************************)
LEMMA EndedStays ==
  ASSUME Typed, Custody, [Next]_vars, NEW k \in Clip, clips[k].status \in {"done", "failed"}
  PROVE  clips'[k] = clips[k] \/ clips'[k].status = "deleted"
<1> USE DEF Custody, Working, Typed, Rows, Worker
<1>1. ASSUME NEW c \in Clip, Create(c) \/ Enqueue(c) \/ DeleteRead(c)
      PROVE  clips'[k] = clips[k]
  BY <1>1 DEF Create, Enqueue, DeleteRead
<1>2. CASE DeleteRow
  BY <1>2 DEF DeleteRow, NoRow
<1>3. CASE Claim
  BY <1>3 DEF Claim
<1>4. CASE Commit \/ Fail
  BY <1>4 DEF Commit, Fail
<1>5. CASE Recover \/ RecoverFails
  BY <1>5 DEF Recover, RecoverFails, Reset, Interrupted, InStatus
<1>6. ASSUME NEW c \in Chunk, ChunkMoves(c)
      PROVE  clips'[k] = clips[k]
  BY <1>6 DEF ChunkMoves, ChunkEnded, ChunkUploaded, LocalRemoved, ChunkExpired
<1>7. ASSUME DeleteFile \/ Get \/ Query \/ Load \/ CheckChunk \/ Download \/ RaiseMissing
      PROVE  clips'[k] = clips[k]
  BY <1>7 DEF DeleteFile, Get, Query, Load, CheckChunk, Download, RaiseMissing
<1>8. ASSUME Prepare \/ Concat \/ ExportFails \/ Restart \/ UNCHANGED vars
      PROVE  clips'[k] = clips[k]
  BY <1>8 DEF Prepare, Concat, ExportFails, Restart
<1>9. ASSUME DeleteFails \/ DatabaseFails \/ FailRaises
      PROVE  clips'[k] = clips[k]
  BY <1>9 DEF DeleteFails, DatabaseFails, FailRaises
<1> QED BY <1>1, <1>2, <1>3, <1>4, <1>5, <1>6, <1>7, <1>8, <1>9 DEF Next, WorkerStep, ChunkMoves

(***************************************************************************)
(* A done or failed clip stays as it is, or is deleted, in every behaviour.*)
(***************************************************************************)
THEOREM Final == Spec => TerminalIsFinal
<1> DEFINE Stays == \A k \in Clip : clips[k].status \in {"done", "failed"} =>
                       clips'[k] = clips[k] \/ clips'[k].status = "deleted"
<1>1. Typed /\ Custody /\ [Next]_vars => [Stays]_vars
  BY EndedStays
<1>2. TerminalIsFinal <=> [][Stays]_vars
  BY DEF TerminalIsFinal
<1> HIDE DEF Stays
<1> QED BY <1>1, <1>2, CustodyHolds, PTL DEF Spec

-----------------------------------------------------------------------------
(* The footage of a clip                                                   *)

\* Files q are those of the chunks that overlap the window, in order.
Sorted(k, q) ==
    /\ q \in Seq(Chunk) /\ q # <<>>
    /\ \A i \in 1..Len(q) : Overlaps(k, q[i])
    /\ \A i, j \in 1..Len(q) : i < j => Footage[q[i]].from < Footage[q[j]].from

\* Every chunk of the window that had ended and is still there is among them.
Complete(k, q, live, row) ==
    \A c \in Chunk \ live : row[c] # "gone" /\ Overlaps(k, c) => \E i \in 1..Len(q) : q[i] = c

WalkPC == {"load", "check", "download", "missing", "prepare", "concat", "commit"}

Walk == worker.pc \in WalkPC =>
            /\ Sorted(worker.clip, worker.chunks)
            /\ Complete(worker.clip, worker.chunks, worker.live, chunkRow)

(***************************************************************************)
(* Rows of chunks: instants of their files, which are apart.               *)
(***************************************************************************)
LEMMA FootageType ==
  /\ \A c \in Chunk : /\ Footage[c].from \in Nat /\ Footage[c].to \in Nat
                      /\ Footage[c].from < Footage[c].to
  /\ \A c, d \in Chunk : c # d => Footage[c].to <= Footage[d].from \/ Footage[d].to <= Footage[c].from
  BY FootageAssumption

LEMMA WindowType ==
  \A k \in Clip : Window[k].from \in Nat /\ Window[k].to \in Nat /\ Window[k].from < Window[k].to
  BY WindowAssumption

LEMMA InstantType ==
  ASSUME NEW c \in Chunk, NEW t
  PROVE  t \in Instants(c) <=> t \in Nat /\ Footage[c].from <= t /\ t < Footage[c].to
<1>1. Footage[c].from \in Nat /\ Footage[c].to \in Nat
  BY FootageType
<1> QED BY <1>1 DEF Instants

LEMMA Interval ==
  ASSUME NEW a \in Nat, NEW b \in Nat, a <= b
  PROVE  IsFiniteSet(a..(b - 1)) /\ Cardinality(a..(b - 1)) = b - a
<1>1. a \in Int /\ b - 1 \in Int
  OBVIOUS
<1>2. IsFiniteSet(a..(b - 1)) /\ Cardinality(a..(b - 1)) = IF a > b - 1 THEN 0 ELSE (b - 1) - a + 1
  BY <1>1, FS_Interval
<1> QED BY <1>2

(***************************************************************************)
(* An ordered listing of a finite set has all its members, by their ranks. *)
(***************************************************************************)
LEMMA FullListing ==
  ASSUME NEW S, IsFiniteSet(S), NEW rank \in [S -> Nat], NEW q \in InOrder(S, rank)
  PROVE  /\ \A x \in S : \E i \in 1..Len(q) : q[i] = x
         /\ \A i, j \in 1..Len(q) : i < j => rank[q[i]] < rank[q[j]]
<1> DEFINE n == Cardinality(S)
<1>1. n \in Nat /\ q \in [1..n -> S] /\ Len(q) = n
  BY FS_CardinalityType DEF InOrder
<1>2. \A i, j \in 1..n : i < j => rank[q[i]] < rank[q[j]]
  BY <1>1 DEF InOrder
<1>3. q \in Injection(1..n, S)
  <2> SUFFICES ASSUME NEW i \in 1..n, NEW j \in 1..n, q[i] = q[j] PROVE i = j
    BY <1>1 DEF Injection, IsInjective
  <2>1. q[i] \in S /\ rank[q[i]] \in Nat
    BY <1>1
  <2>2. ~(i < j) /\ ~(j < i)
    BY <1>2, <2>1
  <2> QED BY <1>1, <2>2
<1>4. Cardinality(1..n) = n
  BY <1>1, FS_Interval
<1>5. q \in Surjection(1..n, S)
  BY <1>3, <1>4, FS_Injection
<1> QED BY <1>1, <1>2, <1>5 DEF Surjection

(***************************************************************************)
(* A frame is kept by its number among the joined frames.                  *)
(***************************************************************************)
LEMMA KeptFrame ==
  ASSUME NEW k, NEW q, NEW f \in Frames(q),
         Cardinality(Before(q, f)) \in Offset(k, q)..((Offset(k, q) + Window[k].to - Window[k].from) - 1)
  PROVE  f \in Kept(k, q)
BY DEF Kept

(***************************************************************************)
(* Frame t of the i-th file lies in the window.  The frames before it are  *)
(* instants from the first frame on and before t, of which no two are the  *)
(* same; and they are at least those of the first file up to the window.   *)
(* So it is cut off neither at the front nor, whatever the gaps, behind.   *)
(***************************************************************************)
LEMMA FrameKept ==
  ASSUME NEW k \in Clip, NEW q, Sorted(k, q), NEW i \in 1..Len(q), NEW t \in Instants(q[i]),
         Window[k].from <= t, t < Window[k].to
  PROVE  t \in Cut(k, q)
<1> DEFINE F == Window[k].from
           T == Window[k].to
           first == Footage[q[1]].from
           B == Before(q, <<i, t>>)
           from(j) == Footage[q[j]].from
           to(j) == Footage[q[j]].to
<1>1. /\ Len(q) \in Nat /\ 1 \in 1..Len(q) /\ i \in 1..Len(q)
      /\ \A j \in 1..Len(q) : q[j] \in Chunk
  BY DEF Sorted
<1>2. F \in Nat /\ T \in Nat
  BY WindowType
<1>3. /\ \A j \in 1..Len(q) : from(j) \in Nat /\ to(j) \in Nat /\ from(j) < to(j)
      /\ \A j \in 1..Len(q) : \A u : u \in Instants(q[j]) <=> u \in Nat /\ from(j) <= u /\ u < to(j)
  BY <1>1, FootageType, InstantType
<1>4. \A j, l \in 1..Len(q) : j < l => from(j) < from(l) /\ to(j) <= from(l)
  <2> SUFFICES ASSUME NEW j \in 1..Len(q), NEW l \in 1..Len(q), j < l
               PROVE  from(j) < from(l) /\ to(j) <= from(l)
    OBVIOUS
  <2>1. from(j) < from(l)
    BY DEF Sorted
  <2>2. q[j] # q[l] /\ q[j] \in Chunk /\ q[l] \in Chunk
    BY <1>1, <1>3, <2>1
  <2>3. to(j) <= from(l) \/ to(l) <= from(j)
    BY <2>2, FootageType
  <2> QED BY <1>3, <2>1, <2>3
<1>5. t \in Nat /\ from(i) <= t /\ t < to(i)
  BY <1>1, <1>3
<1>6. <<i, t>> \in Frames(q) /\ \A j \in 1..Len(q) : \A u \in Instants(q[j]) : <<j, u>> \in Frames(q)
  BY DEF Frames
<1>7. \A g \in Frames(q) : g[1] \in 1..Len(q) /\ g[2] \in Instants(q[g[1]]) /\ g = <<g[1], g[2]>>
  BY DEF Frames
<1>8. Head(q) = q[1]
  BY DEF Sorted
<1> HIDE DEF from, to, F, T
<1>9. \A g \in B : g \in Frames(q) /\ g[1] \in 1..Len(q) /\ (g[1] < i \/ (g[1] = i /\ g[2] < t))
  BY <1>7 DEF Before
<1>10. \A g \in B : g[2] \in first..(t - 1)
  <2> SUFFICES ASSUME NEW g \in B PROVE g[2] \in first..(t - 1)
    OBVIOUS
  <2> DEFINE j == g[1]  u == g[2]
  <2>1. j \in 1..Len(q) /\ u \in Nat /\ from(j) <= u /\ u < to(j) /\ (j < i \/ (j = i /\ u < t))
    BY <1>3, <1>7, <1>9
  <2> HIDE DEF j, u
  <2>2. from(1) <= from(j) /\ from(1) \in Nat /\ from(j) \in Nat
    BY <1>1, <1>3, <1>4, <2>1
  <2>3. u < t
    <3>1. CASE j < i
      <4>1. to(j) <= from(i) /\ to(j) \in Nat /\ from(i) \in Nat
        BY <1>1, <1>3, <1>4, <2>1, <3>1
      <4> QED BY <1>5, <2>1, <4>1
    <3>2. CASE j = i /\ u < t
      BY <3>2
    <3> QED BY <2>1, <3>1, <3>2
  <2>4. u \in from(1)..(t - 1)
    BY <1>5, <2>1, <2>2, <2>3
  <2> QED BY <2>4 DEF u, from
<1>11. \A g, h \in B : g[2] = h[2] => g = h
  <2> SUFFICES ASSUME NEW g \in B, NEW h \in B, g[2] = h[2] PROVE g = h
    OBVIOUS
  <2>1. /\ g[1] \in 1..Len(q) /\ from(g[1]) <= g[2] /\ g[2] < to(g[1]) /\ g[2] \in Nat
        /\ h[1] \in 1..Len(q) /\ from(h[1]) <= g[2] /\ g[2] < to(h[1])
    BY <1>3, <1>7, <1>9
  <2>2. ~(g[1] < h[1])
    BY <1>3, <1>4, <2>1
  <2>3. ~(h[1] < g[1])
    BY <1>3, <1>4, <2>1
  <2>4. g[1] = h[1]
    BY <1>1, <2>1, <2>2, <2>3
  <2> QED BY <1>7, <1>9, <2>4
<1>12. first \in Nat /\ first <= t
  <2>1. from(1) \in Nat /\ from(i) \in Nat /\ from(1) <= from(i)
    BY <1>1, <1>3, <1>4
  <2> QED BY <1>5, <2>1 DEF from
<1> HIDE DEF B, first
<1>13. IsFiniteSet(B) /\ Cardinality(B) \in Nat /\ Cardinality(B) <= t - first
  <2> DEFINE m == [g \in B |-> g[2]]
             span == first..(t - 1)
  <2>1. m \in Injection(B, span)
    BY <1>10, <1>11 DEF Injection, IsInjective
  <2>2. IsFiniteSet(span) /\ Cardinality(span) = t - first
    BY <1>5, <1>12, Interval
  <2> HIDE DEF m, span
  <2>3. IsFiniteSet(B) /\ Cardinality(B) <= Cardinality(span)
    BY <2>1, <2>2, FS_Injection
  <2> QED BY <2>2, <2>3, FS_CardinalityType
<1>14. ASSUME F > first PROVE F - first <= Cardinality(B)
  <2> DEFINE m == [u \in first..(F - 1) |-> <<1, u>>]
             span == first..(F - 1)
  <2>1. \A u \in span : <<1, u>> \in B
    <3> SUFFICES ASSUME NEW u \in span PROVE <<1, u>> \in B
      OBVIOUS
    <3>1. u \in Nat /\ from(1) <= u /\ u < F
      BY <1>2, <1>12 DEF first, from
    <3>2. F < to(1) /\ to(1) \in Nat
      BY <1>1, <1>3 DEF Sorted, Overlaps, F, to
    <3>3. u < to(1)
      BY <1>2, <3>1, <3>2
    <3>4. <<1, u>> \in Frames(q)
      BY <1>1, <1>3, <1>6, <3>1, <3>3
    <3>5. u < t
      BY <1>2, <1>5, <3>1 DEF F
    <3>6. 1 < i \/ 1 = i
      BY <1>1
    <3> QED BY <3>4, <3>5, <3>6 DEF B, Before
  <2>2. m \in Injection(span, B)
    BY <2>1 DEF Injection, IsInjective
  <2>3. IsFiniteSet(span) /\ Cardinality(span) = F - first
    BY <1>2, <1>12, <1>14, Interval
  <2> HIDE DEF m, span
  <2>4. Cardinality(span) <= Cardinality(B)
    BY <1>13, <2>2, FS_Injection
  <2> QED BY <2>3, <2>4
<1>15. Offset(k, q) = IF F > first THEN F - first ELSE 0
  BY <1>8 DEF Offset, F, first
<1> DEFINE o == Offset(k, q)
           n == Cardinality(B)
<1>16. n \in o..((o + T - F) - 1)
  <2>1. F <= t /\ t < T
    BY DEF F, T
  <2>2. n \in Nat /\ n <= t - first /\ (F > first => F - first <= n)
    BY <1>13, <1>14
  <2>3. o = IF F > first THEN F - first ELSE 0
    BY <1>15
  <2> HIDE DEF o, n
  <2> QED BY <1>2, <1>5, <1>12, <2>1, <2>2, <2>3
<1>17. Cardinality(Before(q, <<i, t>>)) \in Offset(k, q)..((Offset(k, q) + Window[k].to - Window[k].from) - 1)
  BY <1>16 DEF B, F, T
<1>18. <<i, t>> \in Kept(k, q)
  BY <1>6, <1>17, KeptFrame, Zenon
<1>19. <<i, t>>[2] = t
  OBVIOUS
<1> QED BY <1>18, <1>19 DEF Cut

(***************************************************************************)
(* What the query finds, and the walk over it.                             *)
(***************************************************************************)
LEMMA QueryFinds ==
  ASSUME NEW k \in Clip, NEW q \in Overlapping(k), q # <<>>
  PROVE  Sorted(k, q) /\ Complete(k, q, InHome("open"), chunkRow)
<1> DEFINE S == {c \in Chunk : Ended(c) /\ Overlaps(k, c)}
           from == [c \in Chunk |-> Footage[c].from]
           rank == [c \in S |-> Footage[c].from]
<1>1. S \in SUBSET Chunk /\ IsFiniteSet(S) /\ from \in [Chunk -> Nat] /\ rank \in [S -> Nat]
  <2>1. S \in SUBSET Chunk
    OBVIOUS
  <2>2. IsFiniteSet(S)
    BY <2>1, FS_Subset, FootageAssumption
  <2> QED BY <2>1, <2>2, FootageType
<1>2. q \in InOrder(S, from)
  BY DEF Overlapping
<1>3. q \in Seq(S) /\ q \in Seq(Chunk)
  <2> HIDE DEF S, from
  <2> QED BY <1>1, <1>2, Listing, FootageAssumption
<1>4. \A i \in 1..Len(q) : q[i] \in S /\ from[q[i]] = Footage[q[i]].from
  BY <1>3
<1>5. q \in InOrder(S, rank)
  <2>1. q \in [1..Cardinality(S) -> S] /\ \A i, j \in DOMAIN q : i < j => from[q[i]] < from[q[j]]
    BY <1>2 DEF InOrder
  <2>2. \A c \in S : from[c] = rank[c]
    OBVIOUS
  <2> HIDE DEF S, from, rank
  <2> QED BY <2>1, <2>2 DEF InOrder
<1>6. /\ \A c \in S : \E i \in 1..Len(q) : q[i] = c
      /\ \A i, j \in 1..Len(q) : i < j => rank[q[i]] < rank[q[j]]
  <2> HIDE DEF S, rank
  <2> QED BY <1>1, <1>5, FullListing
<1>7. \A i, j \in 1..Len(q) : i < j => Footage[q[i]].from < Footage[q[j]].from
  BY <1>4, <1>6
<1>8. \A c \in Chunk \ InHome("open") :
          chunkRow[c] # "gone" /\ Overlaps(k, c) => \E i \in 1..Len(q) : q[i] = c
  BY <1>6 DEF InHome, Ended
<1>9. \A i \in 1..Len(q) : Overlaps(k, q[i])
  BY <1>4
<1> QED BY <1>3, <1>7, <1>8, <1>9 DEF Sorted, Complete

(***************************************************************************)
(* What retention has deleted stays deleted.                               *)
(***************************************************************************)
LEMMA GoneStays ==
  ASSUME Typed, [Next]_vars, NEW d \in Chunk, chunkRow[d] = "gone" PROVE chunkRow'[d] = "gone"
<1>1. CASE chunkRow' = chunkRow
  BY <1>1
<1>2. ASSUME NEW c \in Chunk, ChunkEnded(c) \/ ChunkUploaded(c) \/ ChunkExpired(c)
      PROVE  chunkRow'[d] = "gone"
  BY <1>2 DEF ChunkEnded, ChunkUploaded, ChunkExpired, Typed, Chunks
<1>3. \/ chunkRow' = chunkRow
      \/ \E c \in Chunk : ChunkEnded(c) \/ ChunkUploaded(c) \/ ChunkExpired(c)
  BY DEF Next, Create, Enqueue, DeleteRead, DeleteFile, DeleteRow, DeleteFails, LocalRemoved,
         Restart, Recover, RecoverFails, WorkerStep, Get, Claim, Query, Load, CheckChunk, Download,
         RaiseMissing, Prepare, Concat, ExportFails, DatabaseFails, Commit, Fail, FailRaises
<1> QED BY <1>1, <1>2, <1>3

(***************************************************************************)
(* From the first chunk on to the commit the worker keeps to its list.     *)
(***************************************************************************)
SameWalk == /\ worker'.clip = worker.clip /\ worker'.chunks = worker.chunks
            /\ worker'.live = worker.live

LEMMA WalkOn ==
  ASSUME Typed, WorkerStep, worker'.pc \in WalkPC
  PROVE  \/ Query
         \/ worker.pc \in WalkPC /\ SameWalk
<1> USE DEF SameWalk, WalkPC, Goto, Raise, OnConcatError, Typed, Worker, WorkerState
<1>1. Get \/ Claim \/ Commit \/ Fail \/ FailRaises \/ DatabaseFails => FALSE
  BY IdleType DEF Get, Claim, Commit, Fail, FailRaises, DatabaseFails, Idle
<1>2. Load \/ RaiseMissing \/ Prepare \/ Concat \/ ExportFails =>
        worker.pc \in WalkPC /\ SameWalk
  BY DEF Load, RaiseMissing, Prepare, Concat, ExportFails
<1>3. CheckChunk \/ Download =>
        worker.pc \in WalkPC /\ SameWalk
  BY DEF CheckChunk, Download, Advance
<1> QED BY <1>1, <1>2, <1>3 DEF WorkerStep

LEMMA WalkStep == Typed /\ Walk /\ [Next]_vars => Walk'
<1> SUFFICES ASSUME Typed, Walk, [Next]_vars, worker'.pc \in WalkPC
             PROVE  /\ Sorted(worker'.clip, worker'.chunks)
                    /\ Complete(worker'.clip, worker'.chunks, worker'.live, chunkRow')
  BY DEF Walk
<1>1. ASSUME NEW k, NEW q, NEW l, Complete(k, q, l, chunkRow) PROVE Complete(k, q, l, chunkRow')
  BY <1>1, GoneStays DEF Complete
<1>2. CASE worker.pc \in WalkPC /\ SameWalk
  <2>1. /\ Sorted(worker.clip, worker.chunks)
        /\ Complete(worker.clip, worker.chunks, worker.live, chunkRow)
    BY <1>2 DEF Walk
  <2>2. Complete(worker.clip, worker.chunks, worker.live, chunkRow')
    BY <1>1, <2>1
  <2> QED BY <1>2, <2>1, <2>2 DEF SameWalk
<1>3. CASE Query
  <2>1. PICK found \in Overlapping(worker.clip) :
            IF ~Exists(worker.clip) \/ found = <<>> THEN worker' = [worker EXCEPT !.pc = "fail"]
            ELSE worker' = [worker EXCEPT !.pc = "check", !.chunks = found,
                                          !.seen = chunkRow[Head(found)],
                                          !.live = InHome("open")]
    BY <1>3 DEF Query, Raise, Goto
  <2>2. worker.pc = "query" /\ worker.clip \in Clip /\ worker \in WorkerState
    BY <1>3 DEF Query, Typed, Worker
  <2>3. found # <<>> /\ worker'.chunks = found /\ worker'.clip = worker.clip
        /\ worker'.live = InHome("open")
    BY <2>1, <2>2 DEF WalkPC, WorkerState
  <2>4. Sorted(worker.clip, found) /\ Complete(worker.clip, found, InHome("open"), chunkRow)
    BY <2>2, <2>3, QueryFinds
  <2>5. Complete(worker.clip, found, InHome("open"), chunkRow')
    BY <1>1, <2>4
  <2> QED BY <2>3, <2>4, <2>5
<1>4. CASE Restart
  BY <1>4, IdleType DEF Restart, WalkPC
<1>5. CASE worker' = worker
  BY <1>2, <1>5 DEF SameWalk
<1> QED BY <1>2, <1>3, <1>4, <1>5, WalkOn, WorkerRests

(***************************************************************************)
(* When FFmpeg has been told to cut, the clip has all the footage of its   *)
(* window that was in an ended chunk when the worker looked and is still   *)
(* there: whatever retention deletes while the worker is on its walk, its  *)
(* list has every such chunk that is left, and the cut keeps every frame   *)
(* of the window, although gaps shift frames forward.                      *)
(***************************************************************************)
THEOREM Covers == Spec => []ClipCovers
<1>1. Typed /\ Walk => ClipCovers
  <2> SUFFICES ASSUME Typed, Walk, worker.pc = "commit", NEW c \in Chunk \ worker.live,
                      chunkRow[c] # "gone",
                      NEW t \in Instants(c),
                      t \in Window[worker.clip].from..(Window[worker.clip].to - 1)
               PROVE  t \in Cut(worker.clip, worker.chunks)
    BY DEF ClipCovers
  <2> DEFINE k == worker.clip  q == worker.chunks
  <2>1. k \in Clip /\ Sorted(k, q) /\ Complete(k, q, worker.live, chunkRow)
    BY DEF Typed, Worker, Walk, WalkPC
  <2> HIDE DEF k, q
  <2>2. /\ t \in Nat /\ Footage[c].from <= t /\ t < Footage[c].to
        /\ Footage[c].from \in Nat /\ Footage[c].to \in Nat
    BY InstantType, FootageType
  <2>3. Window[k].from <= t /\ t < Window[k].to /\ Window[k].from \in Nat /\ Window[k].to \in Nat
    BY <2>1, <2>2, WindowType DEF k
  <2>4. Overlaps(k, c)
    BY <2>2, <2>3 DEF Overlaps
  <2>5. PICK i \in 1..Len(q) : q[i] = c
    BY <2>1, <2>4 DEF Complete
  <2>6. t \in Cut(k, q)
    BY <2>1, <2>3, <2>5, FrameKept
  <2> QED BY <2>6 DEF k, q
<1>2. Init => Walk
  BY IdleType DEF Init, Walk, WalkPC
<1> QED BY <1>1, <1>2, TypedInit, TypedStep, WalkStep, PTL DEF Spec
=============================================================================
