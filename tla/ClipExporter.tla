---------------------------- MODULE ClipExporter ----------------------------
(***************************************************************************)
(* app/recorder/clip_exporter.py and the clip handlers of                  *)
(* app/api/__init__.py: a clip is queued by a request, built by the one    *)
(* worker thread out of the chunks that overlap its window, and deleted by *)
(* another request.  While the worker goes through a window chunk by       *)
(* chunk, the uploader moves those same chunks to the bucket and removes   *)
(* the local files, and retention deletes them.                            *)
(*                                                                         *)
(* Time is whole units.  A file is as long as its row says.                *)
(***************************************************************************)
EXTENDS Naturals, Sequences, FiniteSets

CONSTANTS
    Clip,         \* clip ids
    Chunk,
    Footage,      \* chunk -> its started_at and, once it has one, its ended_at
    Window,       \* clip -> its start_utc and end_utc
    NoClip,
    MaxRestarts,  \* bound: restarts of the service
    MaxFaults     \* bound: failing downloads, FFmpeg runs and database calls

ASSUME ClipAssumption   == Clip \subseteq Nat /\ IsFiniteSet(Clip) /\ NoClip \notin Clip
ASSUME FootageAssumption ==
    /\ IsFiniteSet(Chunk)
    /\ Footage \in [Chunk -> [from : Nat, to : Nat]]
    /\ \A c, d \in Chunk : /\ Footage[c].from < Footage[c].to
                           /\ c # d => Footage[c].to <= Footage[d].from \/ Footage[d].to <= Footage[c].from
\* create_clip refuses any other window.
ASSUME WindowAssumption ==
    Window \in [Clip -> [from : Nat, to : Nat]] /\ \A k \in Clip : Window[k].from < Window[k].to
ASSUME BoundAssumption  == MaxRestarts \in Nat /\ MaxFaults \in Nat

VARIABLES
    clips,      \* the clips table: the status, and whether output_path is set
    output,     \* clips whose file is in CLIP_EXPORT_DIR
    scratch,    \* clips with a scratch directory there
    chunkRow,   \* the chunks table, as far as it says where the footage is
    local,      \* chunks whose file is in the buffer directory
    queue,      \* ClipExporter._queue
    worker,     \* the thread of _work_loop
    booting,    \* init_app has not finished: no requests yet
    creating,   \* clips whose POST has committed but not queued
    deleting,   \* the DELETE request in progress
    removed,    \* clips whose file a DELETE has removed
    lost,       \* clips a failing call has left behind, until the next boot
    restarts, faults

clipData  == <<clips, output, scratch>>
chunkData == <<chunkRow, local>>
requests  == <<booting, creating, deleting, removed, lost>>
budgets   == <<restarts, faults>>
vars      == <<clips, output, scratch, chunkRow, local, queue, worker, booting,
               creating, deleting, removed, lost, restarts, faults>>

-----------------------------------------------------------------------------
Status  == {"absent", "queued", "running", "done", "failed", "deleted"}
ClipRow == [status : Status, path : BOOLEAN]
NoRow   == [status |-> "absent", path |-> FALSE]
\* "open": no ended_at yet, because it is being recorded or was abandoned.
Home    == {"open", "buffered", "uploaded", "gone"}

WorkerPC == {"get", "claim", "query", "load", "check", "download", "missing",
             "prepare", "concat", "commit", "fail"}
Idle     == [pc |-> "get", clip |-> NoClip, chunks |-> <<>>, at |-> 1,
             inPlace |-> {}, seen |-> "gone", live |-> {}]
NoDelete == [pc |-> "none", clip |-> NoClip]

\* The members of S in the order of their ranks, as a query returns them.
InOrder(S, rank) ==
    {q \in [1..Cardinality(S) -> S] : \A i, j \in DOMAIN q : i < j => rank[q[i]] < rank[q[j]]}

Exists(k)     == clips[k].status \notin {"absent", "deleted"}
InStatus(s)   == {k \in Clip : clips[k].status = s}
InHome(h)     == {c \in Chunk : chunkRow[c] = h}
Current       == worker.chunks[worker.at]      \* the chunk being materialized

Init ==
    /\ clips = [k \in Clip |-> NoRow]
    /\ output = {} /\ scratch = {}
    /\ chunkRow = [c \in Chunk |-> "open"] /\ local = Chunk
    /\ queue = <<>>
    /\ worker = Idle
    /\ booting = FALSE /\ creating = {}
    /\ deleting = NoDelete /\ removed = {} /\ lost = {}
    /\ restarts = 0 /\ faults = 0

-----------------------------------------------------------------------------
(* Requests                                                                *)

(* create_clip commits the row, then queues the clip.                      *)
Create(k) ==
    /\ ~booting /\ clips[k].status = "absent"
    /\ clips' = [clips EXCEPT ![k].status = "queued"]
    /\ creating' = creating \cup {k}
    /\ UNCHANGED <<output, scratch, chunkData, queue, worker, booting, deleting, removed, lost, budgets>>

Enqueue(k) ==
    /\ k \in creating
    /\ queue' = Append(queue, k)
    /\ creating' = creating \ {k}
    /\ UNCHANGED <<clipData, chunkData, worker, booting, deleting, removed, lost, budgets>>

(* delete_clip reads the row, removes the file, and deletes the row.       *)
DeleteRead(k) ==
    /\ ~booting /\ deleting = NoDelete
    /\ Exists(k) /\ clips[k].status # "running"
    /\ deleting' = [pc |-> IF clips[k].path THEN "file" ELSE "row", clip |-> k]
    /\ UNCHANGED <<clipData, chunkData, queue, worker, booting, creating, removed, lost, budgets>>

DeleteFile ==
    /\ deleting.pc = "file"
    /\ output' \in {output, output \ {deleting.clip}}      \* an OSError is logged
    /\ removed' = removed \cup {deleting.clip}
    /\ deleting' = [deleting EXCEPT !.pc = "row"]
    /\ UNCHANGED <<clips, scratch, chunkData, queue, worker, booting, creating, lost, budgets>>

DeleteRow ==
    /\ deleting.pc = "row"
    /\ clips' = [clips EXCEPT ![deleting.clip] = [NoRow EXCEPT !.status = "deleted"]]
    /\ deleting' = NoDelete
    /\ UNCHANGED <<output, scratch, chunkData, queue, worker, booting, creating, removed, lost, budgets>>

(* The commit fails: the file is gone, the row stays.                      *)
DeleteFails ==
    /\ deleting.pc = "row"
    /\ faults < MaxFaults /\ faults' = faults + 1
    /\ deleting' = NoDelete
    /\ UNCHANGED <<clipData, chunkData, queue, worker, booting, creating, removed, lost, restarts>>

-----------------------------------------------------------------------------
(* The worker                                                              *)

Goto(p) == worker' = [worker EXCEPT !.pc = p]
Raise   == Goto("fail")

Get ==
    /\ worker.pc = "get" /\ queue # <<>>
    /\ queue' = Tail(queue)
    /\ worker' = [Idle EXCEPT !.pc = "claim", !.clip = Head(queue)]
    /\ UNCHANGED <<clipData, chunkData, requests, budgets>>

(* A clip that was deleted meanwhile is dropped.                           *)
Claim ==
    /\ worker.pc = "claim"
    /\ IF Exists(worker.clip)
       THEN clips' = [clips EXCEPT ![worker.clip].status = "running"] /\ Goto("query")
       ELSE worker' = Idle /\ UNCHANGED clips
    /\ UNCHANGED <<output, scratch, chunkData, queue, requests, budgets>>

(* The overlapping chunks that have a row with an end; none is a failure.  *)
(* A row whose ended_at is NULL fails the comparison, whatever it covers.  *)
(* The window is read again from the clip's row: without the row it raises.*)
MutantOverlaps(k, c) == Footage[c].from >= Window[k].from /\ Footage[c].from < Window[k].to
Overlaps(k, c) == Footage[c].to > Window[k].from /\ Footage[c].from < Window[k].to

Ended(c) == chunkRow[c] \notin {"open", "gone"}

Overlapping(k) == InOrder({c \in Chunk : Ended(c) /\ Overlaps(k, c)},
                          [c \in Chunk |-> Footage[c].from])

Query ==
    /\ worker.pc = "query"
    /\ \E found \in Overlapping(worker.clip) :
          IF ~Exists(worker.clip) \/ found = <<>>
          THEN Raise /\ UNCHANGED scratch
          ELSE /\ worker' = [worker EXCEPT !.pc = "check", !.chunks = found,
                                           !.seen = chunkRow[Head(found)],
                                           !.live = InHome("open")]
               /\ scratch' = scratch \cup {worker.clip}
    /\ UNCHANGED <<clips, output, chunkData, queue, requests, budgets>>

(* The progress commit expired the instances: the next one is read anew,   *)
(* which raises if retention has deleted it.                               *)
Load ==
    /\ worker.pc = "load"
    /\ IF chunkRow[Current] = "gone"
       THEN Raise
       ELSE worker' = [worker EXCEPT !.pc = "check", !.seen = chunkRow[Current]]
    /\ UNCHANGED <<clipData, chunkData, queue, requests, budgets>>

(* _materialize_chunk, from the row as it was read.                        *)
MutantAdvance(w) == IF w.at > Len(w.chunks) THEN [w EXCEPT !.pc = "prepare"]
                                            ELSE [w EXCEPT !.pc = "load", !.at = @ + 1]
Advance(w) == IF w.at = Len(w.chunks) THEN [w EXCEPT !.pc = "prepare"]
                                      ELSE [w EXCEPT !.pc = "load", !.at = @ + 1]

CheckChunk ==
    /\ worker.pc = "check"
    /\ IF worker.seen = "buffered" /\ Current \in local
       THEN worker' = Advance([worker EXCEPT !.inPlace = @ \cup {Current}])
       ELSE Goto(IF worker.seen = "uploaded" THEN "download" ELSE "missing")
    /\ UNCHANGED <<clipData, chunkData, queue, requests, budgets>>

Download ==
    /\ worker.pc = "download"
    /\ IF chunkRow[Current] = "gone" THEN Raise ELSE worker' = Advance(worker)
    /\ UNCHANGED <<clipData, chunkData, queue, requests, budgets>>

(* "Chunk not available (no S3, no local)"                                 *)
RaiseMissing ==
    /\ worker.pc = "missing"
    /\ Raise
    /\ UNCHANGED <<clipData, chunkData, queue, requests, budgets>>

(* The offsets need the rows of the first chunk and of the clip.           *)
Prepare ==
    /\ worker.pc = "prepare"
    /\ IF Exists(worker.clip) /\ chunkRow[Head(worker.chunks)] # "gone"
       THEN Goto("concat") ELSE Raise
    /\ UNCHANGED <<clipData, chunkData, queue, requests, budgets>>

(* What FFmpeg is told to write: the files one after the other, without    *)
(* the time between them; of that, the window's length from the window's   *)
(* start, or from the first frame if that is later.                        *)
Instants(c) == Footage[c].from..(Footage[c].to - 1)

\* Frame <<i, t>> is that of instant t in the i-th file.
Frames(chunks) == UNION {{i} \X Instants(chunks[i]) : i \in 1..Len(chunks)}

\* The frames before one when the files are joined.
Before(chunks, f) == {g \in Frames(chunks) : g[1] < f[1] \/ (g[1] = f[1] /\ g[2] < f[2])}

Offset(k, chunks) == LET first == Footage[Head(chunks)].from
                     IN  IF Window[k].from > first THEN Window[k].from - first ELSE 0

\* The frames -ss and -t keep.
Kept(k, chunks) ==
    LET last == Offset(k, chunks) + Window[k].to - Window[k].from
    IN  {f \in Frames(chunks) : Cardinality(Before(chunks, f)) \in Offset(k, chunks)..(last - 1)}

Cut(k, chunks) == {f[2] : f \in Kept(k, chunks)}

(* FFmpeg reads what is used in place only now.  When it fails it may      *)
(* leave a file under the clip's name all the same.                        *)
MutantOnConcatError == "commit"
OnConcatError == "fail"

Partial == {output, output \cup {worker.clip}}

Concat ==
    /\ worker.pc = "concat"
    /\ IF worker.inPlace \subseteq local
       THEN output' = output \cup {worker.clip} /\ Goto("commit")
       ELSE output' \in Partial /\ Goto(OnConcatError)
    /\ UNCHANGED <<clips, scratch, chunkData, queue, requests, budgets>>

(* A download or FFmpeg fails for reasons of its own.                      *)
ExportFails ==
    /\ faults < MaxFaults /\ faults' = faults + 1
    /\ \/ worker.pc = "download" /\ Raise /\ UNCHANGED output
       \/ worker.pc = "concat" /\ Goto(OnConcatError) /\ output' \in Partial
    /\ UNCHANGED <<clips, scratch, chunkData, queue, requests, restarts>>

Commit ==
    /\ worker.pc = "commit"
    /\ clips' = IF Exists(worker.clip)
                THEN [clips EXCEPT ![worker.clip] = [status |-> "done", path |-> TRUE]]
                ELSE clips
    /\ scratch' = scratch \ {worker.clip}
    /\ worker' = Idle
    /\ UNCHANGED <<output, chunkData, queue, requests, budgets>>

(* Any of _process's own database calls raises.                            *)
DatabaseFails ==
    /\ worker.pc \in {"claim", "query", "load", "prepare", "commit"}
    /\ faults < MaxFaults /\ faults' = faults + 1
    /\ Raise
    /\ UNCHANGED <<clipData, chunkData, queue, requests, restarts>>

(* The scratch directory is removed, then _fail marks the clip.            *)
Failed(row) == [row EXCEPT !.status = "failed"]

Fail ==
    /\ worker.pc = "fail"
    /\ clips' = IF Exists(worker.clip) THEN [clips EXCEPT ![worker.clip] = Failed(@)] ELSE clips
    /\ scratch' = scratch \ {worker.clip}
    /\ worker' = Idle
    /\ UNCHANGED <<output, chunkData, queue, requests, budgets>>

(* Marking it fails as well: "Could not mark clip failed", and the worker  *)
(* goes on to the next one.                                                *)
FailRaises ==
    /\ worker.pc = "fail"
    /\ faults < MaxFaults /\ faults' = faults + 1
    /\ lost' = lost \cup {worker.clip}
    /\ scratch' = scratch \ {worker.clip}
    /\ worker' = Idle
    /\ UNCHANGED <<clips, output, chunkData, queue, booting, creating, deleting, removed, restarts>>

WorkerStep == \/ Get \/ Claim \/ Query \/ Load \/ CheckChunk \/ Download \/ RaiseMissing
              \/ Prepare \/ Concat \/ ExportFails \/ DatabaseFails
              \/ Commit \/ Fail \/ FailRaises

-----------------------------------------------------------------------------
(* The manager, the uploader and retention, seen from the chunks; restarts *)

(* _finalize_chunk_db sets ended_at; a chunk nothing finalizes stays open. *)
ChunkEnded(c) ==
    /\ chunkRow[c] = "open"
    /\ chunkRow' = [chunkRow EXCEPT ![c] = "buffered"]
    /\ UNCHANGED <<clipData, local, queue, worker, requests, budgets>>

ChunkUploaded(c) ==
    /\ chunkRow[c] = "buffered"
    /\ chunkRow' = [chunkRow EXCEPT ![c] = "uploaded"]
    /\ UNCHANGED <<clipData, local, queue, worker, requests, budgets>>

LocalRemoved(c) ==
    /\ chunkRow[c] \in {"uploaded", "gone"} /\ c \in local
    /\ local' = local \ {c}
    /\ UNCHANGED <<clipData, chunkRow, queue, worker, requests, budgets>>

ChunkExpired(c) ==
    /\ chunkRow[c] = "uploaded"
    /\ chunkRow' = [chunkRow EXCEPT ![c] = "gone"]
    /\ UNCHANGED <<clipData, local, queue, worker, requests, budgets>>

Restart ==
    /\ restarts < MaxRestarts
    /\ restarts' = restarts + 1
    /\ queue' = <<>> /\ worker' = Idle
    /\ booting' = TRUE /\ creating' = {} /\ deleting' = NoDelete /\ lost' = {}
    /\ output' \in IF worker.pc = "concat" THEN Partial ELSE {output}
    /\ UNCHANGED <<clips, scratch, chunkData, removed, faults>>

(* _recover_interrupted: what was running is queued again, and what is     *)
(* queued goes back into the queue in the order of the ids.                *)
MutantInterrupted == InStatus("running") \cup InStatus("failed")
NoInterrupted == {}
Interrupted == InStatus("running")

MutantRequeued == InStatus("queued") \cup Interrupted \cup InStatus("failed")
Requeued == InStatus("queued") \cup Interrupted

Reset == [k \in Clip |-> IF k \in Interrupted THEN [clips[k] EXCEPT !.status = "queued"]
                                               ELSE clips[k]]

Recover ==
    /\ booting
    /\ booting' = FALSE
    /\ clips' = Reset
    /\ queue' \in InOrder(Requeued, [k \in Clip |-> k])
    /\ UNCHANGED <<output, scratch, chunkData, worker, creating, deleting, removed, lost, budgets>>

(* "Clip recovery failed", before or after the reset was committed: the    *)
(* boot goes on, and nothing is queued.                                    *)
RecoverFails ==
    /\ booting
    /\ faults < MaxFaults /\ faults' = faults + 1
    /\ booting' = FALSE
    /\ clips' \in {clips, Reset}
    /\ lost' = lost \cup InStatus("queued") \cup InStatus("running")
    /\ UNCHANGED <<output, scratch, chunkData, queue, worker, creating, deleting, removed, restarts>>

-----------------------------------------------------------------------------
Next ==
    \/ \E k \in Clip : Create(k) \/ Enqueue(k) \/ DeleteRead(k)
    \/ DeleteFile \/ DeleteRow \/ DeleteFails
    \/ WorkerStep
    \/ \E c \in Chunk : ChunkEnded(c) \/ ChunkUploaded(c) \/ LocalRemoved(c) \/ ChunkExpired(c)
    \/ Restart \/ Recover \/ RecoverFails

Spec == Init /\ [][Next]_vars

(***************************************************************************)
(* The worker and the boot run, and an accepted request ends.              *)
(***************************************************************************)
FairSpec ==
    /\ Spec
    /\ WF_vars(WorkerStep) /\ WF_vars(Recover \/ RecoverFails)
    /\ \A k \in Clip : WF_vars(Enqueue(k))
    /\ WF_vars(DeleteFile \/ DeleteRow \/ DeleteFails)

-----------------------------------------------------------------------------
(* Properties                                                              *)

(***************************************************************************)
(* Every variable has its type; the worker has a clip and, while it goes   *)
(* through the window, a chunk in hand.                                    *)
(***************************************************************************)
TypeOK ==
    /\ clips \in [Clip -> ClipRow]
    /\ output \subseteq Clip /\ scratch \subseteq Clip
    /\ chunkRow \in [Chunk -> Home] /\ local \subseteq Chunk
    /\ queue \in Seq(Clip)
    /\ worker \in [pc : WorkerPC, clip : Clip \cup {NoClip}, chunks : Seq(Chunk), at : Nat,
                   inPlace : SUBSET Chunk, seen : Home, live : SUBSET Chunk]
    /\ worker.pc # "get" => worker.clip \in Clip
    /\ worker.pc \in {"load", "check", "download", "missing"} =>
          worker.at \in 1..Len(worker.chunks)
    /\ booting \in BOOLEAN /\ creating \subseteq Clip /\ removed \subseteq Clip /\ lost \subseteq Clip
    /\ deleting \in [pc : {"none", "file", "row"}, clip : Clip \cup {NoClip}]
    /\ restarts \in 0..MaxRestarts /\ faults \in 0..MaxFaults

(***************************************************************************)
(* A clip that says "done" can be downloaded until a DELETE has removed    *)
(* its file, whatever failed or was interrupted on the way.                *)
(***************************************************************************)
DoneIsDownloadable ==
    \A k \in Clip \ removed : clips[k].status = "done" => clips[k].path /\ k \in output

(***************************************************************************)
(* A clip has all the footage of its window in chunks that had ended when  *)
(* the worker looked for them and still exist, although gaps between       *)
(* chunks shift what is behind them.  A chunk that was open by then, being *)
(* recorded or abandoned, is missing from the clip, which is done all the  *)
(* same.                                                                   *)
(***************************************************************************)
ClipCovers ==
    worker.pc = "commit" => \A c \in Chunk \ worker.live : chunkRow[c] # "gone" =>
        Instants(c) \cap (Window[worker.clip].from..(Window[worker.clip].to - 1))
            \subseteq Cut(worker.clip, worker.chunks)

(***************************************************************************)
(* The worker never builds a clip twice, and never one that has already    *)
(* ended: a clip is handed over once, also by a boot.                      *)
(***************************************************************************)
HandedOnce ==
    /\ \A i, j \in 1..Len(queue) : queue[i] = queue[j] => i = j
    /\ \A i \in 1..Len(queue) : /\ clips[queue[i]].status \in {"queued", "deleted"}
                                /\ queue[i] \notin creating
                                /\ queue[i] # worker.clip

(***************************************************************************)
(* A done or failed clip stays as it is, or is deleted.                    *)
(***************************************************************************)
TerminalIsFinal ==
    [][\A k \in Clip : clips[k].status \in {"done", "failed"} =>
            clips'[k] = clips[k] \/ clips'[k].status = "deleted"]_vars

(***************************************************************************)
(* A clip that was accepted ends, also across restarts, unless the call    *)
(* that should have ended or queued it failed: then it stays as it is, and *)
(* the next boot takes it up again.                                        *)
(***************************************************************************)
EveryClipEnds ==
    \A k \in Clip : (clips[k].status \in {"queued", "running"})
                       ~> (k \in lost \/ clips[k].status \in {"done", "failed", "deleted"})
=============================================================================
