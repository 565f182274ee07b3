------------------------------ MODULE Uploader ------------------------------
(***************************************************************************)
(* The life of a recorded chunk between the buffer directory and object    *)
(* storage: app/recorder/uploader.py, with the two places of               *)
(* app/recorder/manager.py that create a chunk's row and hand the chunk    *)
(* over.                                                                   *)
(*                                                                         *)
(* Four parties touch the same rows and files, each with a database round  *)
(* trip, a queue wait or a transfer between any two of its steps:          *)
(*                                                                         *)
(*   - a recorder thread, which opens, inserts and finalizes a chunk;      *)
(*   - the upload worker, a single thread fed by an in-memory queue;       *)
(*   - the retry job, every five minutes;                                  *)
(*   - the operator, who renames a source and restarts the service.        *)
(*                                                                         *)
(* The rows, the buffer directory and the bucket outlive a restart; the    *)
(* queue, the worker, the retry job and the recorders do not.              *)
(***************************************************************************)
EXTENDS Naturals, Sequences, FiniteSets

CONSTANTS
    Chunk,         \* the chunks that are ever recorded
    Label,         \* display names their source may be given
    Key,           \* object keys
    KeyOf,         \* <<chunk, label>> -> key; different chunks may share one
    NoChunk,       \* "no chunk"
    NoKey,         \* a NULL s3_key
    MaxQueue,      \* bound: items waiting in the upload queue
    MaxRestarts,   \* bound: restarts of the service
    MaxDbFaults,   \* bound: failing database round trips
    StopAllowed    \* whether stop() may be called

ASSUME KeyOfAssumption == KeyOf \in [Chunk \X Label -> Key]
ASSUME NullAssumption == NoChunk \notin Chunk /\ NoKey \notin Key
ASSUME BoundAssumption ==
    /\ MaxQueue \in Nat \ {0}
    /\ MaxRestarts \in Nat
    /\ MaxDbFaults \in Nat
    /\ StopAllowed \in BOOLEAN

VARIABLES
    \* ---- durable ----
    rows,       \* the chunks table
    buffer,     \* chunks whose file is in the buffer directory
    s3,         \* the bucket: key -> the chunk whose footage is under it
    label,      \* the source's display name
    \* ---- in memory ----
    live,       \* what the recorder threads are doing with each chunk
    queue,      \* S3Uploader._queue
    running,    \* S3Uploader._running
    worker,     \* the thread of _work_loop
    retry,      \* the retry job
    \* ---- time ----
    old,        \* chunks whose row was inserted more than 15 minutes ago
    \* ---- bookkeeping of the model ----
    captured,   \* chunks whose buffer file was ever created
    restarts,
    dbFaults

durable == <<rows, buffer, s3, label>>
budgets == <<restarts, dbFaults>>
vars    == <<rows, buffer, s3, label, live, queue, running, worker, retry,
             old, captured, restarts, dbFaults>>

-----------------------------------------------------------------------------
(* State                                                                   *)

Status == {"absent", "pending", "uploading", "uploaded", "failed"}
Row    == [status : Status, ended : BOOLEAN, local : BOOLEAN,
           key : Key \cup {NoKey}]
NoRow  == [status |-> "absent", ended |-> FALSE, local |-> FALSE, key |-> NoKey]

Item     == [chunk : Chunk, key : Key]
Sentinel == [chunk |-> NoChunk, key |-> NoKey]

Stage     == {"none", "opening", "recording", "unrowed", "closed"}
WorkerPC  == {"get", "check", "missing", "mark", "put", "commit", "remove",
              "except", "exited", "dead"}
RetryPC   == {"idle", "stuck", "enqueue"}
Candidate == [chunk : Chunk, local : BOOLEAN, key : Key \cup {NoKey}]

Idle       == [pc |-> "get", chunk |-> NoChunk, key |-> NoKey]
RetryIdle  == [pc |-> "idle", todo |-> {}]

HasRow(c)  == rows[c].status # "absent"
InStatus(s) == {c \in Chunk : rows[c].status = s}
KeysOf(c)  == {KeyOf[<<c, l>>] : l \in Label}
Contested(c, k) == \E d \in Chunk \ {c} : k \in KeysOf(d)

Init ==
    /\ rows = [c \in Chunk |-> NoRow]
    /\ buffer = {}
    /\ s3 = [k \in Key |-> NoChunk]
    /\ label \in Label
    /\ live = [c \in Chunk |-> "none"]
    /\ queue = <<>>
    /\ running = TRUE
    /\ worker = Idle
    /\ retry = RetryIdle
    /\ old = {}
    /\ captured = {}
    /\ restarts = 0 /\ dbFaults = 0

-----------------------------------------------------------------------------
(* The recorder threads, seen from the chunk                               *)

(* FFmpeg is started on a new path.                                        *)
Open(c) ==
    /\ live[c] = "none"
    /\ live' = [live EXCEPT ![c] = "opening"]
    /\ UNCHANGED <<durable, queue, running, worker, retry, old, captured, budgets>>

(* FFmpeg creates its output file, at any time while it runs, or never.    *)
WriteFile(c) ==
    /\ live[c] \in {"opening", "recording"}
    /\ c \notin captured
    /\ captured' = captured \cup {c}
    /\ buffer' = buffer \cup {c}
    /\ UNCHANGED <<rows, s3, label, live, queue, running, worker, retry, old, budgets>>

(* _create_chunk_db; a recorder that was stopped meanwhile still gets its  *)
(* row, which nothing will ever finalize.                                  *)
CreateChunk(c) ==
    /\ live[c] \in {"opening", "unrowed"}
    /\ live' = [live EXCEPT ![c] = IF @ = "opening" THEN "recording" ELSE "closed"]
    /\ rows' = [rows EXCEPT ![c] = [NoRow EXCEPT !.status = "pending", !.local = TRUE]]
    /\ UNCHANGED <<buffer, s3, label, queue, running, worker, retry, old, captured, budgets>>

(* _finalize_chunk_db: the row ends and its upload is queued under the     *)
(* label of the moment.  Without a row it returns and nothing is queued.   *)
MutantEnqueueItem(c) == queue
EnqueueItem(c) == Append(queue, [chunk |-> c, key |-> KeyOf[<<c, label>>]])

Finalize(c) ==
    /\ live[c] = "recording"
    /\ Len(queue) < MaxQueue
    /\ live' = [live EXCEPT ![c] = "closed"]
    /\ rows' = [rows EXCEPT ![c].ended = TRUE]
    /\ queue' = EnqueueItem(c)
    /\ UNCHANGED <<buffer, s3, label, running, worker, retry, old, captured, budgets>>

FinalizeUnrowed(c) ==
    /\ live[c] = "opening"
    /\ live' = [live EXCEPT ![c] = "unrowed"]
    /\ UNCHANGED <<durable, queue, running, worker, retry, old, captured, budgets>>

(* The watchdog's _safe_stop stops the recorder and leaves the row alone.  *)
Abandon(c) ==
    /\ live[c] = "recording"
    /\ live' = [live EXCEPT ![c] = "closed"]
    /\ UNCHANGED <<durable, queue, running, worker, retry, old, captured, budgets>>

(* A database round trip of the insert or of the finalization raises: the  *)
(* thread ends.  The refresh of chunk.id after the commit can raise too,   *)
(* and then the row has ended but was never queued.                        *)
RecorderDbFault(c) ==
    /\ dbFaults < MaxDbFaults
    /\ live[c] \in {"opening", "recording"}
    /\ live' = [live EXCEPT ![c] = "closed"]
    /\ \/ UNCHANGED rows
       \/ live[c] = "recording" /\ rows' = [rows EXCEPT ![c].ended = TRUE]
    /\ dbFaults' = dbFaults + 1
    /\ UNCHANGED <<buffer, s3, label, queue, running, worker, retry, old, captured, restarts>>

-----------------------------------------------------------------------------
(* The upload worker                                                       *)

(* _set_status                                                             *)
SetStatus(c, s) == rows' = [rows EXCEPT ![c].status = s]

WorkerGoto(p) == worker' = [worker EXCEPT !.pc = p]

(* The end of an iteration of _work_loop: task_done, then the loop test.   *)
FinishItem == worker' = [Idle EXCEPT !.pc = IF running THEN "get" ELSE "exited"]

WorkerGet ==
    /\ worker.pc = "get"
    /\ queue # <<>>
    /\ queue' = Tail(queue)
    /\ worker' = IF Head(queue) = Sentinel
                 THEN [Idle EXCEPT !.pc = "exited"]
                 ELSE [pc |-> "check", chunk |-> Head(queue).chunk, key |-> Head(queue).key]
    /\ UNCHANGED <<durable, live, running, retry, old, captured, budgets>>

CheckFile ==
    /\ worker.pc = "check"
    /\ WorkerGoto(IF worker.chunk \in buffer THEN "mark" ELSE "missing")
    /\ UNCHANGED <<durable, live, queue, running, retry, old, captured, budgets>>

MarkMissing ==
    /\ worker.pc = "missing"
    /\ SetStatus(worker.chunk, "failed")
    /\ FinishItem
    /\ UNCHANGED <<buffer, s3, label, live, queue, running, retry, old, captured, budgets>>

MarkUploading ==
    /\ worker.pc = "mark"
    /\ SetStatus(worker.chunk, "uploading")
    /\ WorkerGoto("put")
    /\ UNCHANGED <<buffer, s3, label, live, queue, running, retry, old, captured, budgets>>

(* upload_file: the object appears, whole, under the item's key.           *)
StoreObject == s3' = [s3 EXCEPT ![worker.key] = worker.chunk]

PutObject ==
    /\ worker.pc = "put"
    /\ StoreObject
    /\ WorkerGoto("commit")
    /\ UNCHANGED <<rows, buffer, label, live, queue, running, retry, old, captured, budgets>>

(* It raises: nothing was stored, or it was and the answer got lost.       *)
MutantOnPutError == "commit"
OnPutError == "except"

PutFails ==
    /\ worker.pc = "put"
    /\ StoreObject \/ UNCHANGED s3
    /\ WorkerGoto(OnPutError)
    /\ UNCHANGED <<rows, buffer, label, live, queue, running, retry, old, captured, budgets>>

(* The row is committed as uploaded: it gains its key and loses its path.  *)
MutantUploadedRow(row, k) == [row EXCEPT !.status = "uploaded", !.local = FALSE]
UploadedRow(row, k) == [row EXCEPT !.status = "uploaded", !.key = k, !.local = FALSE]

CommitUploaded ==
    /\ worker.pc = "commit"
    /\ rows' = [rows EXCEPT ![worker.chunk] = UploadedRow(@, worker.key)]
    /\ WorkerGoto("remove")
    /\ UNCHANGED <<buffer, s3, label, live, queue, running, retry, old, captured, budgets>>

(* os.remove of the buffer file; an OSError is only logged.                *)
RemoveLocal ==
    /\ worker.pc = "remove"
    /\ buffer' \in {buffer, buffer \ {worker.chunk}}
    /\ FinishItem
    /\ UNCHANGED <<rows, s3, label, live, queue, running, retry, old, captured, budgets>>

(* The except branch of _work_loop.                                        *)
HandleFailure ==
    /\ worker.pc = "except"
    /\ SetStatus(worker.chunk, "failed")
    /\ FinishItem
    /\ UNCHANGED <<buffer, s3, label, live, queue, running, retry, old, captured, budgets>>

(* A database round trip of the worker raises.  Inside _upload that leads  *)
(* to the except branch; inside the except branch it leaves _work_loop     *)
(* and ends the thread, which nothing ever starts again.                   *)
WorkerDbFault ==
    /\ dbFaults < MaxDbFaults
    /\ worker.pc \in {"missing", "mark", "commit", "except"}
    /\ IF worker.pc = "except" THEN worker' = [Idle EXCEPT !.pc = "dead"]
                               ELSE WorkerGoto("except")
    /\ dbFaults' = dbFaults + 1
    /\ UNCHANGED <<durable, live, queue, running, retry, old, captured, restarts>>

Worker == \/ WorkerGet \/ CheckFile \/ MarkMissing \/ MarkUploading \/ PutObject
          \/ PutFails \/ CommitUploaded \/ RemoveLocal \/ HandleFailure \/ WorkerDbFault

-----------------------------------------------------------------------------
(* The retry job: two queries, then one step per candidate.  A candidate   *)
(* is the row as the first query that returned it saw it; the second query *)
(* hands back the same object without refreshing it.                       *)

Snapshot(c) == [chunk |-> c, local |-> rows[c].local, key |-> rows[c].key]
MutantStuckRows == {}
StuckRows   == InStatus("uploading") \cap old

RetryQueryFailed ==
    /\ retry.pc = "idle"
    /\ retry' = [pc |-> "stuck", todo |-> {Snapshot(c) : c \in InStatus("failed")}]
    /\ UNCHANGED <<durable, live, queue, running, worker, old, captured, budgets>>

RetryQueryStuck ==
    /\ retry.pc = "stuck"
    /\ LET known == {t.chunk : t \in retry.todo}
           todo  == retry.todo \cup {Snapshot(c) : c \in StuckRows \ known}
       IN  retry' = [pc |-> IF todo = {} THEN "idle" ELSE "enqueue", todo |-> todo]
    /\ UNCHANGED <<durable, live, queue, running, worker, old, captured, budgets>>

(* A row without a path, or whose file is gone, is skipped for good.       *)
MutantRetryKey(t) == t.key
RetryKey(t) == IF t.key # NoKey THEN t.key ELSE KeyOf[<<t.chunk, label>>]

RetryOne(t) ==
    /\ retry.pc = "enqueue"
    /\ t \in retry.todo
    /\ IF t.local /\ t.chunk \in buffer
       THEN /\ Len(queue) < MaxQueue
            /\ queue' = Append(queue, [chunk |-> t.chunk, key |-> RetryKey(t)])
       ELSE UNCHANGED queue
    /\ retry' = IF retry.todo = {t} THEN RetryIdle
                ELSE [retry EXCEPT !.todo = @ \ {t}]
    /\ UNCHANGED <<durable, live, running, worker, old, captured, budgets>>

RetryDbFault ==
    /\ dbFaults < MaxDbFaults
    /\ retry.pc # "idle"
    /\ retry' = RetryIdle
    /\ dbFaults' = dbFaults + 1
    /\ UNCHANGED <<durable, live, queue, running, worker, old, captured, restarts>>

Retry == \/ RetryQueryFailed \/ RetryQueryStuck \/ RetryDbFault
         \/ \E t \in retry.todo : RetryOne(t)

-----------------------------------------------------------------------------
(* Time, the operator and the process                                      *)

Age(c) ==
    /\ HasRow(c) /\ c \notin old
    /\ old' = old \cup {c}
    /\ UNCHANGED <<durable, live, queue, running, worker, retry, captured, budgets>>

Rename(l) ==
    /\ l # label
    /\ label' = l
    /\ UNCHANGED <<rows, buffer, s3, live, queue, running, worker, retry, old, captured, budgets>>

(* The process dies and init_app builds a new uploader.                    *)
Restart ==
    /\ restarts < MaxRestarts
    /\ restarts' = restarts + 1
    /\ live' = [c \in Chunk |-> IF live[c] = "none" THEN "none" ELSE "closed"]
    /\ queue' = <<>>
    /\ running' = TRUE
    /\ worker' = Idle
    /\ retry' = RetryIdle
    /\ UNCHANGED <<durable, old, captured, dbFaults>>

(* stop(): the flag first, then the sentinel.                              *)
Stop ==
    /\ StopAllowed /\ running /\ Len(queue) < MaxQueue
    /\ running' = FALSE
    /\ queue' = Append(queue, Sentinel)
    /\ UNCHANGED <<durable, live, worker, retry, old, captured, budgets>>

-----------------------------------------------------------------------------
Next ==
    \/ \E c \in Chunk :
          \/ Open(c) \/ WriteFile(c) \/ CreateChunk(c) \/ Finalize(c)
          \/ FinalizeUnrowed(c) \/ Abandon(c) \/ RecorderDbFault(c)
          \/ Age(c)
    \/ Worker
    \/ Retry
    \/ \E l \in Label : Rename(l)
    \/ Restart
    \/ Stop

Spec == Init /\ [][Next]_vars

(***************************************************************************)
(* What the scheduling owes: the worker thread runs, the scheduler fires   *)
(* the retry job again and again, time passes, and an upload that is tried *)
(* over and over goes through in the end.  Nothing is owed by the          *)
(* recorders, the operator or the database.                                *)
(***************************************************************************)
WorkerStep == \/ WorkerGet \/ CheckFile \/ MarkMissing \/ MarkUploading
              \/ PutObject \/ PutFails \/ CommitUploaded \/ RemoveLocal \/ HandleFailure
RetryStep  == \/ RetryQueryFailed \/ RetryQueryStuck
              \/ \E t \in retry.todo : RetryOne(t)

Fairness ==
    /\ WF_vars(WorkerStep)
    /\ SF_vars(PutObject)
    /\ WF_vars(RetryStep)
    /\ \A c \in Chunk : WF_vars(Age(c))

FairSpec == Spec /\ Fairness

-----------------------------------------------------------------------------
(* Properties                                                              *)

(***************************************************************************)
(* Every variable has its type; a worker in an iteration has a chunk and a *)
(* key in hand.                                                            *)
(***************************************************************************)
TypeOK ==
    /\ rows \in [Chunk -> Row]
    /\ buffer \subseteq Chunk
    /\ s3 \in [Key -> Chunk \cup {NoChunk}]
    /\ label \in Label
    /\ live \in [Chunk -> Stage]
    /\ queue \in Seq(Item \cup {Sentinel})
    /\ running \in BOOLEAN
    /\ worker \in [pc : WorkerPC, chunk : Chunk \cup {NoChunk}, key : Key \cup {NoKey}]
    /\ worker.pc \in {"get", "exited", "dead"}
          \/ (worker.chunk \in Chunk /\ worker.key \in Key)
    /\ retry \in [pc : RetryPC, todo : SUBSET Candidate]
    /\ old \subseteq Chunk /\ captured \subseteq Chunk
    /\ restarts \in 0..MaxRestarts /\ dbFaults \in 0..MaxDbFaults

(***************************************************************************)
(* Footage that was captured and has a row can be fetched at every moment, *)
(* whatever the interleaving of worker, retry job, renames, faults and     *)
(* restarts: from the buffer file the row names, or, once the row names a  *)
(* key, from the object under it.  (Two chunks whose metadata build the    *)
(* same key overwrite each other; that much is left open here.)            *)
(***************************************************************************)
InBuffer(c) == rows[c].key = NoKey /\ rows[c].local /\ c \in buffer
InS3(c)     == /\ rows[c].key # NoKey
               /\ s3[rows[c].key] # NoChunk
               /\ s3[rows[c].key] = c \/ Contested(c, rows[c].key)

AlwaysServable == \A c \in captured : HasRow(c) => InBuffer(c) \/ InS3(c)

(***************************************************************************)
(* Why it holds: the inductive strengthening, one reason per part.         *)
(***************************************************************************)
Busy == worker.pc \notin {"get", "exited", "dead"}

(* Whatever is under way concerns a row and a key built for that row.      *)
Genuine(c, k) == HasRow(c) /\ k \in KeysOf(c)
WorkerGenuine == Busy => Genuine(worker.chunk, worker.key)
QueueGenuine  == \A i \in 1..Len(queue) :
                    queue[i] # Sentinel => Genuine(queue[i].chunk, queue[i].key)
RetryGenuine  == \A t \in retry.todo :
                    HasRow(t.chunk) /\ t.key \in KeysOf(t.chunk) \cup {NoKey}
WorkGenuine   == WorkerGenuine /\ QueueGenuine /\ RetryGenuine

(* A recorder inserts a row once, and finalizes only what it inserted.     *)
RowOncePerChunk ==
    \A c \in Chunk :
        /\ live[c] \in {"none", "opening", "unrowed"} => ~HasRow(c)
        /\ live[c] = "recording" => HasRow(c)
        /\ live[c] = "none" => c \notin captured

(* The bucket only holds what some chunk's metadata put there, a row only  *)
(* names a key that was stored under, and commits follow the transfer.     *)
KeysStored ==
    /\ \A k \in Key : s3[k] # NoChunk => k \in KeysOf(s3[k])
    /\ \A c \in Chunk : rows[c].key # NoKey =>
          rows[c].key \in KeysOf(c) /\ s3[rows[c].key] # NoChunk
    /\ worker.pc = "commit" => s3[worker.key] # NoChunk

(* The file is kept until the row names a key.                             *)
FileKept ==
    /\ \A c \in Chunk :
          /\ ~HasRow(c) => rows[c].key = NoKey
          /\ HasRow(c) /\ rows[c].key = NoKey => rows[c].local
          /\ c \in captured /\ rows[c].key = NoKey => c \in buffer
    /\ worker.pc = "remove" => rows[worker.chunk].key # NoKey
    /\ buffer \subseteq captured
    /\ worker.pc \in {"mark", "put", "commit"} => worker.chunk \in captured

IInv == TypeOK /\ WorkGenuine /\ RowOncePerChunk /\ KeysStored /\ FileKept

(***************************************************************************)
(* The uploader implements the abstract store: in particular a row that    *)
(* names an object never goes back to the buffer and never loses it.       *)
(***************************************************************************)
Place(c) == CASE HasRow(c) /\ InS3(c)                         -> "stored"
              [] HasRow(c) /\ c \in captured /\ InBuffer(c)   -> "buffered"
              [] OTHER                                        -> "nowhere"

Store == INSTANCE ChunkStore WITH place <- [c \in Chunk |-> Place(c)]

ImplementsStore == Store!Spec

(***************************************************************************)
(* Whatever the uploads do, a finalized chunk ends up in object storage,   *)
(* unless a restart empties the queue first.                               *)
(***************************************************************************)
EndedIsStored ==
    \A c \in Chunk : (rows[c].ended /\ c \in captured /\ restarts = 0)
                       ~> (rows[c].key # NoKey \/ restarts > 0)

(***************************************************************************)
(* An upload the service was restarted in the middle of is picked up by    *)
(* the retry job and ends up in object storage.                            *)
(***************************************************************************)
InterruptedIsStored ==
    \A c \in Chunk : (rows[c].status = "uploading") ~> (rows[c].key # NoKey)
=============================================================================
