--------------------------- MODULE UploaderProofs ---------------------------
(***************************************************************************)
(* Proofs about Uploader, for any chunks, labels, keys and bounds.         *)
(***************************************************************************)
EXTENDS Uploader, TLAPS

(***************************************************************************)
(* What is appended to and taken from the queue.                           *)
(***************************************************************************)
LEMMA QueueFacts ==
    ASSUME NEW S, NEW q \in Seq(S), NEW x \in S
    PROVE  /\ Append(q, x) \in Seq(S)
           /\ \A i \in 1..Len(Append(q, x)) :
                 Append(q, x)[i] = x \/ (i \in 1..Len(q) /\ Append(q, x)[i] = q[i])
           /\ q # <<>> => /\ Head(q) \in S /\ Head(q) = q[1] /\ 1 \in 1..Len(q)
                          /\ Tail(q) \in Seq(S)
                          /\ \A i \in 1..Len(Tail(q)) :
                                i + 1 \in 1..Len(q) /\ Tail(q)[i] = q[i + 1]
  OBVIOUS

(***************************************************************************)
(* A key built from a chunk's metadata is a key.                           *)
(***************************************************************************)
LEMMA KeysOfType == \A c \in Chunk : KeysOf(c) \subseteq Key
  BY KeyOfAssumption DEF KeysOf

(***************************************************************************)
(* build_s3_key gives a key, and one of the keys of that chunk.            *)
(***************************************************************************)
LEMMA KeyBuilt == \A c \in Chunk, l \in Label :
                     KeyOf[<<c, l>>] \in KeysOf(c) /\ KeyOf[<<c, l>>] \in Key
  BY KeyOfAssumption DEF KeysOf

(***************************************************************************)
(* The forms of a row that the actions build are rows.                     *)
(***************************************************************************)
LEMMA RowForms ==
    /\ [NoRow EXCEPT !.status = "pending", !.local = TRUE] \in Row
    /\ \A row \in Row :
          /\ [row EXCEPT !.ended = TRUE] \in Row
          /\ \A s \in Status : [row EXCEPT !.status = s] \in Row
          /\ \A k \in Key : UploadedRow(row, k) \in Row
  BY DEF Row, NoRow, Status, UploadedRow

(***************************************************************************)
(* Updating one row of the table, by _set_status or by the commit of an    *)
(* upload, leaves a table.                                                 *)
(***************************************************************************)
LEMMA RowsUpdated ==
    ASSUME NEW R \in [Chunk -> Row], NEW c \in Chunk, NEW k \in Key, NEW s \in Status
    PROVE  /\ [R EXCEPT ![c].status = s] \in [Chunk -> Row]
           /\ [R EXCEPT ![c] = UploadedRow(@, k)] \in [Chunk -> Row]
  <1>1. R[c] \in Row /\ [R[c] EXCEPT !.status = s] \in Row /\ UploadedRow(R[c], k) \in Row
    BY RowForms
  <1> QED
    BY <1>1

USE DEF vars, durable, budgets

(***************************************************************************)
(* Type correctness of the rows, the queue and the threads.                *)
(***************************************************************************)
LEMMA InitTypeOK == Init => TypeOK
  BY NullAssumption, BoundAssumption
     DEF Init, TypeOK, Row, NoRow, Status, Stage, Idle, RetryIdle, WorkerPC, RetryPC

(***************************************************************************)
(* Every step keeps the types: the induction step of TypeCorrect.          *)
(***************************************************************************)
LEMMA NextTypeOK == TypeOK /\ [Next]_vars => TypeOK'
<1> SUFFICES ASSUME TypeOK, [Next]_vars PROVE TypeOK'
  OBVIOUS
<1> USE NullAssumption, BoundAssumption DEF TypeOK
<1>1. CASE \E c \in Chunk : Open(c) \/ WriteFile(c) \/ FinalizeUnrowed(c) \/ Abandon(c)
                            \/ Age(c)
  BY <1>1 DEF Open, WriteFile, FinalizeUnrowed, Abandon, Age, Stage
<1>2. CASE \E c \in Chunk : CreateChunk(c) \/ RecorderDbFault(c)
  <2> PICK c \in Chunk : CreateChunk(c) \/ RecorderDbFault(c)
    BY <1>2
  <2>1. rows' \in [Chunk -> Row]
    BY RowForms DEF CreateChunk, RecorderDbFault
  <2> QED
    BY <2>1 DEF CreateChunk, RecorderDbFault, Stage
<1>3. CASE \E c \in Chunk : Finalize(c)
  <2> PICK c \in Chunk : Finalize(c)
    BY <1>3
  <2>1. [chunk |-> c, key |-> KeyOf[<<c, label>>]] \in Item
    BY KeyBuilt DEF Item
  <2>2. queue' \in Seq(Item \cup {Sentinel})
    BY <2>1, QueueFacts DEF Finalize, EnqueueItem
  <2>3. rows' \in [Chunk -> Row]
    BY RowForms DEF Finalize
  <2> QED
    BY <2>2, <2>3 DEF Finalize, Stage
<1>4. CASE WorkerGet
  <2>1. /\ Head(queue) \in Item \cup {Sentinel}
        /\ queue' \in Seq(Item \cup {Sentinel})
    BY <1>4, QueueFacts DEF WorkerGet
  <2> QED
    BY <1>4, <2>1 DEF WorkerGet, Item, Idle, WorkerPC
<1>5. CASE CheckFile \/ PutObject \/ PutFails \/ RemoveLocal
  BY <1>5 DEF CheckFile, PutObject, PutFails, RemoveLocal, StoreObject, OnPutError,
              WorkerGoto, FinishItem, Idle, WorkerPC
<1>6. CASE MarkMissing \/ MarkUploading \/ HandleFailure \/ CommitUploaded
  <2>1. worker.chunk \in Chunk /\ worker.key \in Key
    BY <1>6 DEF MarkMissing, MarkUploading, HandleFailure, CommitUploaded
  <2>2. rows' \in [Chunk -> Row]
    <3>1. ASSUME NEW s \in Status, SetStatus(worker.chunk, s)
          PROVE  rows' \in [Chunk -> Row]
      BY <2>1, <3>1, RowsUpdated DEF SetStatus
    <3>2. ASSUME CommitUploaded PROVE rows' \in [Chunk -> Row]
      <4>1. rows' = [rows EXCEPT ![worker.chunk] = UploadedRow(@, worker.key)]
        BY <3>2 DEF CommitUploaded
      <4>2. "uploaded" \in Status
        BY DEF Status
      <4> QED
        BY <2>1, <4>1, <4>2, RowsUpdated
    <3> QED
      BY <1>6, <3>1, <3>2 DEF MarkMissing, MarkUploading, HandleFailure, Status
  <2> QED
    BY <1>6, <2>1, <2>2 DEF MarkMissing, MarkUploading, HandleFailure, CommitUploaded,
                      SetStatus, WorkerGoto, FinishItem, Idle, WorkerPC
<1>7. CASE WorkerDbFault
  BY <1>7 DEF WorkerDbFault, WorkerGoto, Idle, WorkerPC
<1>8. CASE RetryQueryFailed \/ RetryQueryStuck \/ RetryDbFault
  <2>1. \A c \in Chunk : Snapshot(c) \in Candidate
    BY DEF Snapshot, Candidate, Row
  <2>2. \A S \in SUBSET Chunk : {Snapshot(c) : c \in S} \subseteq Candidate
    BY <2>1
  <2>3. CASE RetryQueryFailed
    BY <2>2, <2>3 DEF RetryQueryFailed, InStatus, RetryPC
  <2>4. CASE RetryQueryStuck
    <3>1. StuckRows \ {t.chunk : t \in retry.todo} \in SUBSET Chunk
      BY DEF StuckRows, InStatus
    <3> QED
      BY <2>2, <2>4, <3>1 DEF RetryQueryStuck, RetryPC
  <2>5. CASE RetryDbFault
    BY <2>5 DEF RetryDbFault, RetryIdle, RetryPC
  <2> QED
    BY <1>8, <2>3, <2>4, <2>5
<1>9. CASE \E t \in retry.todo : RetryOne(t)
  <2> PICK t \in retry.todo : RetryOne(t)
    BY <1>9
  <2>1. [chunk |-> t.chunk, key |-> RetryKey(t)] \in Item
    BY KeyBuilt DEF RetryKey, Item, Candidate
  <2>2. queue' = Append(queue, [chunk |-> t.chunk, key |-> RetryKey(t)]) \/ queue' = queue
    BY DEF RetryOne
  <2>3. queue' \in Seq(Item \cup {Sentinel})
    BY <2>1, <2>2, QueueFacts
  <2> QED
    BY <2>3 DEF RetryOne, RetryIdle, RetryPC
<1>10. CASE \E l \in Label : Rename(l)
  BY <1>10 DEF Rename
<1>11. CASE Restart
  BY <1>11 DEF Restart, Stage, Idle, RetryIdle, WorkerPC, RetryPC
<1>12. CASE Stop
  BY <1>12, QueueFacts DEF Stop
<1>13. CASE UNCHANGED vars
  BY <1>13
<1> QED
  BY <1>1, <1>2, <1>3, <1>4, <1>5, <1>6, <1>7, <1>8, <1>9, <1>10, <1>11, <1>12, <1>13
     DEF Next, Worker, Retry

(***************************************************************************)
(* The rows, the bucket, the queue and the threads always have their       *)
(* types: the worker between a get and the end of an iteration has a chunk *)
(* and a key in hand.                                                      *)
(***************************************************************************)
THEOREM TypeCorrect == Spec => []TypeOK
  BY InitTypeOK, NextTypeOK, PTL DEF Spec

-----------------------------------------------------------------------------
(***************************************************************************)
(* What the worker's status updates do to the rows.                        *)
(***************************************************************************)
LEMMA StatusUpdate ==
    ASSUME TypeOK, MarkMissing \/ MarkUploading \/ HandleFailure
    PROVE  /\ worker.chunk \in Chunk /\ Busy
           /\ rows'[worker.chunk].status # "absent"
           /\ \A c \in Chunk : /\ rows'[c].key = rows[c].key
                               /\ rows'[c].local = rows[c].local
                               /\ c # worker.chunk => rows'[c] = rows[c]
<1>1. worker.chunk \in Chunk /\ Busy
  BY DEF TypeOK, MarkMissing, MarkUploading, HandleFailure, Busy
<1>2. ASSUME NEW s, SetStatus(worker.chunk, s), s # "absent"
      PROVE  /\ rows'[worker.chunk].status # "absent"
             /\ \A c \in Chunk : /\ rows'[c].key = rows[c].key
                                 /\ rows'[c].local = rows[c].local
                                 /\ c # worker.chunk => rows'[c] = rows[c]
  <2>1. rows' = [rows EXCEPT ![worker.chunk].status = s] /\ rows \in [Chunk -> Row]
    BY <1>2 DEF SetStatus, TypeOK
  <2>2. rows'[worker.chunk] = [rows[worker.chunk] EXCEPT !.status = s]
    BY <1>1, <2>1
  <2>3. rows[worker.chunk] \in Row
    BY <1>1, <2>1
  <2>4. /\ rows'[worker.chunk].status = s
        /\ rows'[worker.chunk].key = rows[worker.chunk].key
        /\ rows'[worker.chunk].local = rows[worker.chunk].local
    BY <2>2, <2>3 DEF Row
  <2> QED
    BY <1>1, <1>2, <2>1, <2>4 DEF HasRow
<1> QED
  BY <1>1, <1>2 DEF MarkMissing, MarkUploading, HandleFailure

(***************************************************************************)
(* The end of a recording changes whether a row has ended, nothing else.   *)
(***************************************************************************)
LEMMA EndedRow ==
    ASSUME TypeOK, NEW d \in Chunk, Finalize(d) \/ RecorderDbFault(d), NEW c \in Chunk
    PROVE  rows'[c].status = rows[c].status /\ rows'[c].key = rows[c].key
<1>1. rows' = rows \/ rows' = [rows EXCEPT ![d].ended = TRUE]
  BY DEF Finalize, RecorderDbFault
<1>2. rows \in [Chunk -> Row] /\ rows[c] \in Row
  BY DEF TypeOK
<1>3. ASSUME rows' = [rows EXCEPT ![d].ended = TRUE]
      PROVE  rows'[c] = rows[c] \/ rows'[c] = [rows[c] EXCEPT !.ended = TRUE]
  BY <1>2, <1>3
<1>4. /\ [rows[c] EXCEPT !.ended = TRUE].status = rows[c].status
      /\ [rows[c] EXCEPT !.ended = TRUE].key = rows[c].key
  BY <1>2 DEF Row
<1> QED
  BY <1>1, <1>3, <1>4

(***************************************************************************)
(* A row, once inserted, stays, and so does the key it names.              *)
(***************************************************************************)
LEMMA RowsStep ==
    ASSUME TypeOK, WorkGenuine, RowOncePerChunk, [Next]_vars
    PROVE  \A c \in Chunk :
              /\ HasRow(c) => HasRow(c)'
              /\ HasRow(c) /\ rows[c].key # NoKey => rows'[c].key # NoKey
<1>1. CASE rows' = rows
  BY <1>1 DEF HasRow
<1>2. CASE \E d \in Chunk : CreateChunk(d)
  BY <1>2 DEF CreateChunk, RowOncePerChunk, HasRow, TypeOK
<1>3. CASE \E d \in Chunk : Finalize(d) \/ RecorderDbFault(d)
  BY <1>3, EndedRow DEF HasRow
<1>4. CASE MarkMissing \/ MarkUploading \/ HandleFailure
  BY <1>4, StatusUpdate DEF HasRow
<1>5. CASE CommitUploaded
  BY <1>5, NullAssumption DEF CommitUploaded, UploadedRow, HasRow, TypeOK, Row
<1>6. rows' = rows \/ (\E d \in Chunk : CreateChunk(d) \/ Finalize(d) \/ RecorderDbFault(d))
      \/ MarkMissing \/ MarkUploading \/ HandleFailure \/ CommitUploaded
  BY DEF Next, Worker, Retry, Open, WriteFile, FinalizeUnrowed, Abandon, Age, WorkerGet,
         CheckFile, PutObject, PutFails, RemoveLocal, WorkerDbFault, RetryQueryFailed,
         RetryQueryStuck, RetryOne, RetryDbFault, Rename, Restart, Stop
<1> QED
  BY <1>1, <1>2, <1>3, <1>4, <1>5, <1>6

(***************************************************************************)
(* A recorder inserts a row once and finalizes only what it inserted:      *)
(* _create_chunk_db and _finalize_chunk_db keep RowOncePerChunk.           *)
(***************************************************************************)
LEMMA NextRowOncePerChunk ==
    ASSUME TypeOK, WorkGenuine, RowOncePerChunk, [Next]_vars
    PROVE  RowOncePerChunk'
<1> USE DEF TypeOK, RowOncePerChunk
<1>1. CASE \E d \in Chunk : Open(d) \/ WriteFile(d) \/ FinalizeUnrowed(d) \/ Abandon(d)
  BY <1>1 DEF Open, WriteFile, FinalizeUnrowed, Abandon, HasRow
<1>2. CASE \E d \in Chunk : CreateChunk(d) \/ Finalize(d) \/ RecorderDbFault(d)
  <2> PICK d \in Chunk : CreateChunk(d) \/ Finalize(d) \/ RecorderDbFault(d)
    BY <1>2
  <2>1. CASE CreateChunk(d)
    BY <2>1 DEF CreateChunk, HasRow
  <2>2. CASE Finalize(d)
    BY <2>2 DEF Finalize, HasRow, Row
  <2>3. CASE RecorderDbFault(d)
    BY <2>3 DEF RecorderDbFault, HasRow, Row
  <2> QED
    BY <2>1, <2>2, <2>3
<1>3. CASE MarkMissing \/ MarkUploading \/ HandleFailure
  <2>1. HasRow(worker.chunk) /\ live' = live /\ captured' = captured
    BY <1>3, StatusUpdate DEF WorkGenuine, WorkerGenuine, Genuine, MarkMissing, MarkUploading, HandleFailure
  <2> QED
    BY <1>3, <2>1, StatusUpdate DEF HasRow
<1>4. CASE CommitUploaded
  BY <1>4 DEF CommitUploaded, UploadedRow, HasRow, Row, WorkGenuine, WorkerGenuine, Busy, Genuine
<1>5. CASE Restart
  BY <1>5 DEF Restart, HasRow
<1>6. CASE UNCHANGED <<rows, live, captured>>
  BY <1>6 DEF HasRow
<1> QED
  BY <1>1, <1>2, <1>3, <1>4, <1>5, <1>6
     DEF Next, Worker, Retry, Age, WorkerGet, CheckFile, PutObject, PutFails, RemoveLocal,
         WorkerDbFault, RetryQueryFailed, RetryQueryStuck, RetryOne, RetryDbFault, Rename, Stop

(***************************************************************************)
(* Whatever is queued, retried or being uploaded concerns an existing row  *)
(* and a key built from its metadata: every step keeps WorkGenuine.        *)
(***************************************************************************)
LEMMA NextWorkGenuine ==
    ASSUME TypeOK, WorkGenuine, RowOncePerChunk, KeysStored, [Next]_vars
    PROVE  WorkGenuine'
<1> USE DEF WorkGenuine
<1>1. ASSUME NEW c \in Chunk, NEW k, Genuine(c, k) PROVE Genuine(c, k)'
  BY <1>1, RowsStep DEF Genuine, KeysOf
<1>2. /\ \A i \in 1..Len(queue) : queue[i] # Sentinel => queue[i].chunk \in Chunk
      /\ \A t \in retry.todo : t.chunk \in Chunk
  BY DEF TypeOK, Item, Candidate
<1>3. ASSUME Busy' => Busy /\ worker'.chunk = worker.chunk /\ worker'.key = worker.key
      PROVE  WorkerGenuine'
  <2>1. Busy => worker.chunk \in Chunk
    BY DEF TypeOK, Busy
  <2> QED
    BY <1>1, <1>3, <2>1 DEF WorkerGenuine
<1>4. UNCHANGED worker => WorkerGenuine'
  BY <1>3 DEF Busy
<1>5. ASSUME \A i \in 1..Len(queue') :
                \/ queue'[i] = Sentinel
                \/ \E j \in 1..Len(queue) : queue'[i] = queue[j]
                \/ \E c \in Chunk : \E k \in KeysOf(c) :
                      HasRow(c) /\ queue'[i] = [chunk |-> c, key |-> k]
      PROVE  QueueGenuine'
  <2> SUFFICES ASSUME NEW i \in 1..Len(queue'), queue'[i] # Sentinel
               PROVE  Genuine(queue[i].chunk, queue[i].key)'
    BY DEF QueueGenuine
  <2>1. \E c \in Chunk : \E k : Genuine(c, k) /\ queue'[i].chunk = c /\ queue'[i].key = k
    <3>1. CASE \E j \in 1..Len(queue) : queue'[i] = queue[j]
      BY <1>2, <3>1 DEF QueueGenuine
    <3>2. CASE \E c \in Chunk : \E k \in KeysOf(c) : HasRow(c) /\ queue'[i] = [chunk |-> c, key |-> k]
      BY <3>2 DEF Genuine
    <3> QED
      BY <1>5, <3>1, <3>2
  <2> QED
    BY <1>1, <2>1
<1>6. UNCHANGED queue => QueueGenuine'
  BY <1>5
<1>7. ASSUME NEW c \in Chunk, NEW k \in KeysOf(c), HasRow(c),
             queue' = Append(queue, [chunk |-> c, key |-> k])
      PROVE  QueueGenuine'
  <2>1. [chunk |-> c, key |-> k] \in Item
    BY <1>7, KeysOfType DEF Item
  <2>2. \A i \in 1..Len(queue') :
           queue'[i] = [chunk |-> c, key |-> k] \/ (i \in 1..Len(queue) /\ queue'[i] = queue[i])
    BY <1>7, <2>1, QueueFacts DEF TypeOK
  <2> QED
    BY <1>5, <1>7, <2>2
<1>8. ASSUME \A t \in retry'.todo : t \in retry.todo \/ \E c \in Chunk : HasRow(c) /\ t = Snapshot(c)
      PROVE  RetryGenuine'
  <2> SUFFICES ASSUME NEW t \in retry'.todo
               PROVE  HasRow(t.chunk)' /\ t.key \in KeysOf(t.chunk) \cup {NoKey}
    BY DEF RetryGenuine, KeysOf
  <2>1. CASE t \in retry.todo
    BY <1>2, <2>1, RowsStep DEF RetryGenuine
  <2>2. CASE \E c \in Chunk : HasRow(c) /\ t = Snapshot(c)
    BY <2>2, RowsStep DEF Snapshot, KeysStored
  <2> QED
    BY <1>8, <2>1, <2>2
<1>9. retry'.todo \subseteq retry.todo => RetryGenuine'
  BY <1>8
<1>10. CASE UNCHANGED <<queue, worker, retry>>
  BY <1>4, <1>6, <1>9, <1>10
<1>11. CASE \E c \in Chunk : Finalize(c)
  <2> PICK c \in Chunk : Finalize(c)
    BY <1>11
  <2>1. HasRow(c) /\ KeyOf[<<c, label>>] \in KeysOf(c)
    BY KeyBuilt DEF Finalize, RowOncePerChunk, TypeOK
  <2>2. QueueGenuine'
    BY <1>7, <2>1 DEF Finalize, EnqueueItem
  <2> QED
    BY <1>4, <1>9, <2>2 DEF Finalize
<1>12. CASE WorkerGet
  <2>1. /\ queue[1] = Head(queue) /\ 1 \in 1..Len(queue)
        /\ \A i \in 1..Len(queue') : i + 1 \in 1..Len(queue) /\ queue'[i] = queue[i + 1]
    BY <1>12, QueueFacts DEF WorkerGet, TypeOK
  <2>2. QueueGenuine'
    BY <1>5, <2>1
  <2>3. CASE Head(queue) = Sentinel
    <3>1. WorkerGenuine'
      BY <1>3, <1>12, <2>3 DEF WorkerGet, Busy, Idle
    <3> QED
      BY <1>9, <1>12, <2>2, <3>1 DEF WorkerGet
  <2>4. CASE Head(queue) # Sentinel
    <3>1. Genuine(Head(queue).chunk, Head(queue).key) /\ Head(queue).chunk \in Chunk
      BY <1>2, <2>1, <2>4 DEF QueueGenuine
    <3>2. worker'.chunk = Head(queue).chunk /\ worker'.key = Head(queue).key
      BY <1>12, <2>4 DEF WorkerGet
    <3>3. WorkerGenuine'
      BY <1>1, <3>1, <3>2 DEF WorkerGenuine
    <3> QED
      BY <1>9, <1>12, <2>2, <3>3 DEF WorkerGet
  <2> QED
    BY <2>3, <2>4
<1>13. CASE CheckFile \/ MarkUploading \/ PutObject \/ PutFails \/ CommitUploaded
            \/ MarkMissing \/ RemoveLocal \/ HandleFailure \/ WorkerDbFault
  <2>1. /\ UNCHANGED <<queue, retry>>
        /\ Busy' => Busy /\ worker'.chunk = worker.chunk /\ worker'.key = worker.key
    BY <1>13 DEF CheckFile, MarkUploading, PutObject, PutFails, CommitUploaded, MarkMissing,
                 RemoveLocal, HandleFailure, WorkerDbFault, WorkerGoto, FinishItem, Idle, Busy, TypeOK
  <2> QED
    BY <1>3, <1>6, <1>9, <2>1
<1>14. CASE RetryQueryFailed \/ RetryQueryStuck \/ RetryDbFault
  <2>1. /\ \A t \in retry'.todo : t \in retry.todo \/ \E c \in Chunk : HasRow(c) /\ t = Snapshot(c)
        /\ UNCHANGED <<queue, worker>>
    BY <1>14 DEF RetryQueryFailed, RetryQueryStuck, RetryDbFault, InStatus, StuckRows, RetryIdle, HasRow
  <2> QED
    BY <1>4, <1>6, <1>8, <2>1
<1>15. CASE \E t \in retry.todo : RetryOne(t)
  <2> PICK t \in retry.todo : RetryOne(t)
    BY <1>15
  <2>1. retry'.todo \subseteq retry.todo /\ UNCHANGED worker
    BY DEF RetryOne, RetryIdle
  <2>2. RetryKey(t) \in KeysOf(t.chunk) /\ HasRow(t.chunk) /\ t.chunk \in Chunk
    BY <1>2, KeyBuilt DEF RetryKey, RetryGenuine, TypeOK
  <2>3. queue' = Append(queue, [chunk |-> t.chunk, key |-> RetryKey(t)]) \/ queue' = queue
    BY DEF RetryOne
  <2> QED
    BY <1>4, <1>6, <1>7, <1>9, <2>1, <2>2, <2>3
<1>16. CASE Restart
  <2>1. WorkerGenuine'
    BY <1>3, <1>16 DEF Restart, Busy, Idle
  <2>2. QueueGenuine'
    BY <1>16 DEF Restart, QueueGenuine
  <2> QED
    BY <1>9, <1>16, <2>1, <2>2 DEF Restart, RetryIdle
<1>17. CASE Stop
  <2>1. \A i \in 1..Len(queue') :
           queue'[i] = Sentinel \/ (i \in 1..Len(queue) /\ queue'[i] = queue[i])
    BY <1>17, QueueFacts DEF Stop, TypeOK
  <2>2. QueueGenuine'
    BY <1>5, <2>1
  <2> QED
    BY <1>4, <1>9, <1>17, <2>2 DEF Stop
<1> QED
  BY <1>10, <1>11, <1>12, <1>13, <1>14, <1>15, <1>16, <1>17
     DEF Next, Worker, Retry, Open, WriteFile, CreateChunk, FinalizeUnrowed, Abandon,
         RecorderDbFault, Age, Rename

(***************************************************************************)
(* An object, once stored, is only ever replaced by another.               *)
(***************************************************************************)
LEMMA S3Step ==
    ASSUME TypeOK, WorkGenuine, KeysStored, [Next]_vars
    PROVE  /\ \A k \in Key : s3[k] # NoChunk => s3'[k] # NoChunk
           /\ \A k \in Key : s3'[k] # NoChunk => k \in KeysOf(s3'[k])
<1> USE DEF TypeOK, WorkGenuine
<1>1. CASE UNCHANGED s3
  BY <1>1 DEF KeysStored
<1>2. CASE worker.pc = "put" /\ StoreObject
  <2>1. worker.chunk \in Chunk /\ worker.key \in Key /\ worker.key \in KeysOf(worker.chunk)
    BY <1>2 DEF WorkerGenuine, Genuine, Busy
  <2> QED
    BY <1>2, <2>1, NullAssumption DEF StoreObject, KeysStored
<1> QED
  BY <1>1, <1>2
     DEF Next, Worker, Retry, Open, WriteFile, CreateChunk, Finalize, FinalizeUnrowed, Abandon,
         RecorderDbFault, Age, WorkerGet, CheckFile, MarkMissing, MarkUploading, PutObject,
         PutFails, CommitUploaded, RemoveLocal, HandleFailure, WorkerDbFault, RetryQueryFailed,
         RetryQueryStuck, RetryOne, RetryDbFault, Rename, Restart, Stop

(***************************************************************************)
(* A row names a key only after something was stored under it: every step  *)
(* keeps KeysStored.                                                       *)
(***************************************************************************)
LEMMA NextKeysStored ==
    ASSUME TypeOK, WorkGenuine, RowOncePerChunk, KeysStored, [Next]_vars
    PROVE  KeysStored'
<1> DEFINE RowKeys == \A c \in Chunk : rows[c].key # NoKey =>
                         rows[c].key \in KeysOf(c) /\ s3[rows[c].key] # NoChunk
           Commits == worker.pc = "commit" => s3[worker.key] # NoChunk
<1> USE KeysOfType
<1>1. (\A k \in Key : s3[k] # NoChunk => k \in KeysOf(s3[k]))'
  BY S3Step DEF KeysOf
<1>2. ASSUME \A c \in Chunk : rows'[c].key = rows[c].key \/ rows'[c].key = NoKey
      PROVE  RowKeys'
  BY <1>2, S3Step DEF KeysStored, KeysOf
<1>3. ASSUME worker'.pc = "commit" => worker'.key \in Key /\ s3'[worker'.key] # NoChunk
      PROVE  Commits'
  BY <1>3
<1>4. CASE UNCHANGED <<rows, worker>>
  BY <1>1, <1>2, <1>3, <1>4, S3Step DEF KeysStored, TypeOK
<1>5. CASE \E c \in Chunk : CreateChunk(c) \/ Finalize(c) \/ RecorderDbFault(c)
  <2>1. \A c \in Chunk : rows'[c].key = rows[c].key \/ rows'[c].key = NoKey
    <3>1. CASE \E c \in Chunk : CreateChunk(c)
      BY <3>1 DEF CreateChunk, NoRow, TypeOK
    <3>2. CASE \E c \in Chunk : Finalize(c) \/ RecorderDbFault(c)
      BY <3>2, EndedRow
    <3> QED
      BY <1>5, <3>1, <3>2
  <2>2. UNCHANGED worker
    BY <1>5 DEF CreateChunk, Finalize, RecorderDbFault
  <2> QED
    BY <1>1, <1>2, <1>3, <2>1, <2>2, S3Step DEF KeysStored, TypeOK
<1>6. CASE MarkMissing \/ MarkUploading \/ HandleFailure
  <2>1. worker'.pc # "commit"
    BY <1>6 DEF MarkMissing, MarkUploading, HandleFailure, WorkerGoto, FinishItem, Idle, TypeOK
  <2> QED
    BY <1>1, <1>2, <1>3, <1>6, <2>1, StatusUpdate DEF KeysStored
<1>7. CASE CommitUploaded
  <2>1. /\ worker.chunk \in Chunk /\ worker.key \in Key
        /\ worker.key \in KeysOf(worker.chunk) /\ s3[worker.key] # NoChunk
    BY <1>7 DEF CommitUploaded, WorkGenuine, WorkerGenuine, Genuine, Busy, KeysStored, TypeOK
  <2>2. /\ rows'[worker.chunk].key = worker.key
        /\ \A c \in Chunk : c # worker.chunk => rows'[c] = rows[c]
        /\ UNCHANGED s3
    BY <1>7, <2>1 DEF CommitUploaded, UploadedRow, TypeOK, Row
  <2>3. ASSUME NEW c \in Chunk, rows'[c].key # NoKey
        PROVE  rows'[c].key \in KeysOf(c) /\ s3'[rows'[c].key] # NoChunk
    <3>1. CASE c = worker.chunk
      BY <2>1, <2>2, <3>1
    <3>2. CASE c # worker.chunk
      BY <2>2, <2>3, <3>2 DEF KeysStored
    <3> QED
      BY <3>1, <3>2
  <2>5. RowKeys'
    BY <2>3 DEF KeysOf
  <2>4. worker'.pc # "commit"
    BY <1>7 DEF CommitUploaded, WorkerGoto, TypeOK
  <2> QED
    BY <1>1, <1>3, <2>4, <2>5 DEF KeysStored
<1>8. CASE PutObject
  <2>1. worker.key \in Key /\ worker.chunk \in Chunk
    BY <1>8 DEF PutObject, TypeOK
  <2>2. s3'[worker'.key] # NoChunk /\ worker'.key = worker.key /\ UNCHANGED rows
    BY <1>8, <2>1, NullAssumption DEF PutObject, StoreObject, WorkerGoto, TypeOK
  <2> QED
    BY <1>1, <1>2, <1>3, <2>1, <2>2 DEF KeysStored
<1>9. CASE WorkerGet \/ CheckFile \/ PutFails \/ RemoveLocal \/ WorkerDbFault \/ Restart
  <2>1. worker'.pc # "commit" /\ UNCHANGED rows
    BY <1>9 DEF WorkerGet, CheckFile, PutFails, RemoveLocal, WorkerDbFault, Restart, OnPutError,
                WorkerGoto, FinishItem, Idle, TypeOK
  <2> QED
    BY <1>1, <1>2, <1>3, <2>1 DEF KeysStored
<1> QED
  BY <1>4, <1>5, <1>6, <1>7, <1>8, <1>9
     DEF Next, Worker, Retry, Open, WriteFile, FinalizeUnrowed, Abandon, Age,
         RetryQueryFailed, RetryQueryStuck, RetryOne, RetryDbFault, Rename, Stop

(***************************************************************************)
(* The buffer file is removed only after the row names a key: every step   *)
(* keeps FileKept.                                                         *)
(***************************************************************************)
LEMMA NextFileKept ==
    ASSUME TypeOK, WorkGenuine, RowOncePerChunk, KeysStored, FileKept, [Next]_vars
    PROVE  FileKept'
<1> USE DEF TypeOK, FileKept
<1>1. CASE UNCHANGED <<rows, buffer, captured, worker>>
  BY <1>1 DEF HasRow
<1>2. CASE \E c \in Chunk : WriteFile(c)
  BY <1>2 DEF WriteFile, HasRow
<1>3. CASE \E c \in Chunk : CreateChunk(c)
  <2> PICK c \in Chunk : CreateChunk(c)
    BY <1>3
  <2>1. /\ rows'[c].local /\ rows'[c].key = NoKey
        /\ rows[c].key = NoKey
        /\ \A d \in Chunk : d # c => rows'[d] = rows[d]
        /\ UNCHANGED <<buffer, captured, worker>>
    BY DEF CreateChunk, NoRow, RowOncePerChunk
  <2>2. worker.pc = "remove" => worker.chunk # c
    BY <2>1
  <2>3. worker.pc = "remove" => worker.chunk \in Chunk
    OBVIOUS
  <2> QED
    BY <2>1, <2>2, <2>3 DEF HasRow
<1>4. CASE \E c \in Chunk : Finalize(c) \/ RecorderDbFault(c)
  <2>1. /\ \A c \in Chunk : /\ rows'[c].key = rows[c].key /\ rows'[c].local = rows[c].local
                            /\ rows'[c].status = rows[c].status
        /\ UNCHANGED <<buffer, captured, worker>>
    BY <1>4 DEF Finalize, RecorderDbFault, Row
  <2> QED
    BY <2>1 DEF HasRow
<1>5. CASE MarkMissing \/ MarkUploading \/ HandleFailure
  <2>1. /\ worker'.pc # "remove" /\ UNCHANGED <<buffer, captured>>
        /\ worker'.pc \in {"mark", "put", "commit"} => worker'.chunk \in captured
    BY <1>5 DEF MarkMissing, MarkUploading, HandleFailure, WorkerGoto, FinishItem, Idle
  <2>2. HasRow(worker.chunk)
    BY <1>5, StatusUpdate DEF WorkGenuine, WorkerGenuine, Genuine
  <2> QED
    BY <1>5, <2>1, <2>2, StatusUpdate DEF HasRow
<1>6. CASE CommitUploaded
  <2>1. worker.chunk \in Chunk /\ worker.key \in Key
    BY <1>6 DEF CommitUploaded
  <2>2. /\ rows'[worker.chunk].key = worker.key /\ rows'[worker.chunk].status = "uploaded"
        /\ \A c \in Chunk : c # worker.chunk => rows'[c] = rows[c]
        /\ UNCHANGED <<buffer, captured>>
        /\ worker'.chunk = worker.chunk /\ worker'.pc = "remove"
    BY <1>6, <2>1 DEF CommitUploaded, UploadedRow, Row, WorkerGoto
  <2> QED
    BY <2>1, <2>2, NullAssumption DEF HasRow
<1>7. CASE RemoveLocal
  <2>1. worker.chunk \in Chunk /\ rows[worker.chunk].key # NoKey
        /\ worker'.pc \in {"get", "exited"}
    BY <1>7 DEF RemoveLocal, FinishItem, Idle
  <2> QED
    BY <1>7, <2>1 DEF RemoveLocal, HasRow
<1>8. CASE WorkerGet \/ CheckFile \/ PutObject \/ PutFails \/ WorkerDbFault \/ Restart
  <2>1. worker'.pc # "remove" /\ UNCHANGED <<rows, buffer, captured>>
    BY <1>8 DEF WorkerGet, CheckFile, PutObject, PutFails, WorkerDbFault, Restart, OnPutError,
                WorkerGoto, FinishItem, Idle
  <2>2. worker'.pc \in {"mark", "put", "commit"} => worker'.chunk \in captured
    BY <1>8 DEF WorkerGet, CheckFile, PutObject, PutFails, WorkerDbFault, Restart, OnPutError,
                WorkerGoto, FinishItem, Idle
  <2> QED
    BY <2>1, <2>2 DEF HasRow
<1> QED
  BY <1>1, <1>2, <1>3, <1>4, <1>5, <1>6, <1>7, <1>8
     DEF Next, Worker, Retry, Open, FinalizeUnrowed, Abandon, Age,
         RetryQueryFailed, RetryQueryStuck, RetryOne, RetryDbFault, Rename, Stop

-----------------------------------------------------------------------------

(***************************************************************************)
(* The inductive invariant holds before anything is recorded.              *)
(***************************************************************************)
LEMMA InitIInv == Init => IInv
<1> SUFFICES ASSUME Init PROVE IInv
  OBVIOUS
<1>1. TypeOK
  BY InitTypeOK
<1>2. WorkGenuine /\ RowOncePerChunk /\ KeysStored /\ FileKept
  BY DEF Init, NoRow, Idle, RetryIdle, WorkGenuine, WorkerGenuine, QueueGenuine, RetryGenuine,
         Busy, RowOncePerChunk, KeysStored, FileKept, HasRow
<1> QED
  BY <1>1, <1>2 DEF IInv

(***************************************************************************)
(* The inductive invariant is inductive.                                   *)
(***************************************************************************)
LEMMA NextIInv == IInv /\ [Next]_vars => IInv'
  BY NextTypeOK, NextWorkGenuine, NextRowOncePerChunk, NextKeysStored, NextFileKept DEF IInv

(***************************************************************************)
(* The inductive invariant implies that captured footage can be fetched.   *)
(***************************************************************************)
LEMMA IInvServable == IInv => AlwaysServable
  BY DEF IInv, TypeOK, KeysStored, FileKept, AlwaysServable, InBuffer, InS3, Contested, Row

(***************************************************************************)
(* The inductive invariant holds in every state of the uploader.           *)
(***************************************************************************)
THEOREM InvariantHolds == Spec => []IInv
  BY InitIInv, NextIInv, PTL DEF Spec

(***************************************************************************)
(* The chunk's footage is fetchable at every moment.                       *)
(***************************************************************************)
THEOREM Servable == Spec => []AlwaysServable
  BY InvariantHolds, IInvServable, PTL

(***************************************************************************)
(* The refinement: a chunk whose row names a key is stored for good, and   *)
(* before that it can only become buffered, then stored.                   *)
(***************************************************************************)
PlaceIs(c) == IF rows[c].key # NoKey THEN "stored"
              ELSE IF HasRow(c) /\ c \in captured THEN "buffered" ELSE "nowhere"

LEMMA PlaceOf == IInv => \A c \in Chunk : Place(c) = PlaceIs(c)
<1> SUFFICES ASSUME IInv, NEW c \in Chunk PROVE Place(c) = PlaceIs(c)
  OBVIOUS
<1>1. InS3(c) <=> rows[c].key # NoKey
  BY DEF IInv, TypeOK, KeysStored, InS3, Contested, Row
<1>2. rows[c].key # NoKey => HasRow(c)
  BY DEF IInv, FileKept
<1>3. HasRow(c) /\ c \in captured /\ rows[c].key = NoKey => InBuffer(c)
  BY DEF IInv, FileKept, InBuffer
<1> QED
  BY <1>1, <1>2, <1>3 DEF Place, PlaceIs, InBuffer

(***************************************************************************)
(* The same after a step.                                                  *)
(***************************************************************************)
LEMMA PlaceOfNext == IInv' => (\A c \in Chunk : Place(c) = PlaceIs(c))'
  BY PlaceOf, PTL

(***************************************************************************)
(* What a step of the uploader does to the place of a chunk: nothing, or   *)
(* one of the abstract moves.                                              *)
(***************************************************************************)
LEMMA PlaceStep ==
    ASSUME IInv, IInv', [Next]_vars
    PROVE  \/ \A c \in Chunk : Place(c)' = Place(c)
           \/ \E c \in Chunk :
                 /\ \A d \in Chunk \ {c} : Place(d)' = Place(d)
                 /\ \/ Place(c) = "nowhere" /\ Place(c)' = "buffered"
                    \/ Place(c) = "buffered" /\ Place(c)' = "stored"
                    \/ Place(c)' = Place(c)
<1>1. \A c \in Chunk : Place(c) = PlaceIs(c)
  BY PlaceOf
<1>2. \A c \in Chunk : Place(c)' = PlaceIs(c)'
  BY PlaceOfNext
<1> USE DEF PlaceIs
<1>3. TypeOK /\ WorkGenuine /\ RowOncePerChunk /\ FileKept
  BY DEF IInv
<1>4. CASE UNCHANGED <<rows, captured>>
  BY <1>1, <1>2, <1>4 DEF HasRow
<1>5. CASE \E c \in Chunk : WriteFile(c)
  BY <1>1, <1>2, <1>3, <1>5 DEF WriteFile, HasRow, TypeOK
<1>6. CASE \E c \in Chunk : CreateChunk(c)
  <2> PICK c \in Chunk : CreateChunk(c)
    BY <1>6
  <2>1. /\ rows'[c].key = NoKey /\ rows[c].key = NoKey /\ ~HasRow(c)
        /\ \A d \in Chunk \ {c} : rows'[d] = rows[d]
        /\ UNCHANGED captured
    BY <1>3 DEF CreateChunk, NoRow, TypeOK, RowOncePerChunk, FileKept
  <2>2. \A d \in Chunk \ {c} : Place(d)' = Place(d)
    BY <1>1, <1>2, <2>1 DEF HasRow
  <2>3. Place(c) = "nowhere" /\ Place(c)' \in {"nowhere", "buffered"}
    BY <1>1, <1>2, <2>1
  <2> QED
    BY <2>2, <2>3
<1>7. CASE \E c \in Chunk : Finalize(c) \/ RecorderDbFault(c)
  <2>1. /\ \A c \in Chunk : rows'[c].key = rows[c].key /\ rows'[c].status = rows[c].status
        /\ UNCHANGED captured
    <3>1. UNCHANGED captured
      BY <1>7 DEF Finalize, RecorderDbFault
    <3>2. rows' = rows \/ \E c \in Chunk : rows' = [rows EXCEPT ![c].ended = TRUE]
      BY <1>7 DEF Finalize, RecorderDbFault
    <3>3. ASSUME NEW c \in Chunk
          PROVE  rows'[c].key = rows[c].key /\ rows'[c].status = rows[c].status
      BY <1>3, <3>2 DEF TypeOK, Row
    <3> QED
      BY <3>1, <3>3
  <2> QED
    BY <1>1, <1>2, <2>1 DEF HasRow
<1>8. CASE MarkMissing \/ MarkUploading \/ HandleFailure
  <2>1. HasRow(worker.chunk) /\ UNCHANGED captured
    BY <1>3, <1>8, StatusUpdate
       DEF WorkGenuine, WorkerGenuine, Genuine, MarkMissing, MarkUploading, HandleFailure
  <2> QED
    BY <1>1, <1>2, <1>3, <1>8, <2>1, StatusUpdate DEF HasRow
<1>9. CASE CommitUploaded
  <2>1. worker.chunk \in Chunk /\ worker.key \in Key /\ worker.chunk \in captured
        /\ HasRow(worker.chunk)
    BY <1>3, <1>9 DEF CommitUploaded, TypeOK, FileKept, WorkGenuine, WorkerGenuine, Genuine, Busy
  <2>2. /\ rows'[worker.chunk].key = worker.key
        /\ \A c \in Chunk : c # worker.chunk => rows'[c] = rows[c]
        /\ UNCHANGED captured
    BY <1>3, <1>9, <2>1 DEF CommitUploaded, UploadedRow, TypeOK, Row
  <2>3. \A d \in Chunk \ {worker.chunk} : Place(d)' = Place(d)
    BY <1>1, <1>2, <2>1, <2>2 DEF HasRow
  <2> QED
    BY <1>1, <1>2, <2>1, <2>2, <2>3, NullAssumption DEF HasRow
<1> QED
  BY <1>4, <1>5, <1>6, <1>7, <1>8, <1>9
     DEF Next, Worker, Retry, Open, FinalizeUnrowed, Abandon, Age, WorkerGet, CheckFile,
         PutObject, PutFails, RemoveLocal, WorkerDbFault, RetryQueryFailed, RetryQueryStuck,
         RetryOne, RetryDbFault, Rename, Restart, Stop

(***************************************************************************)
(* The initial states are initial states of the abstract store.            *)
(***************************************************************************)
LEMMA InitStore == Init => Store!Init
<1> SUFFICES ASSUME Init PROVE Store!Init
  OBVIOUS
<1>1. \A c \in Chunk : Place(c) = "nowhere"
  BY InitIInv, PlaceOf DEF Init, NoRow, HasRow, PlaceIs
<1> QED
  BY <1>1 DEF Store!Init

(***************************************************************************)
(* Every step of the uploader is a step of the abstract store, or a        *)
(* stutter.                                                                *)
(***************************************************************************)
LEMMA NextStore ==
    IInv /\ IInv' /\ [Next]_vars => [Store!Next]_[c \in Chunk |-> Place(c)]
<1> SUFFICES ASSUME IInv, IInv', [Next]_vars
             PROVE  [Store!Next]_[c \in Chunk |-> Place(c)]
  OBVIOUS
<1>1. CASE \A c \in Chunk : Place(c)' = Place(c)
  BY <1>1
<1>2. ASSUME NEW c \in Chunk,
             \A d \in Chunk \ {c} : Place(d)' = Place(d),
             Place(c) = "nowhere" /\ Place(c)' = "buffered"
      PROVE  Store!Capture(c)
  BY <1>2 DEF Store!Capture
<1>3. ASSUME NEW c \in Chunk,
             \A d \in Chunk \ {c} : Place(d)' = Place(d),
             Place(c) = "buffered" /\ Place(c)' = "stored"
      PROVE  Store!Store(c)
  BY <1>3 DEF Store!Store
<1> QED
  BY <1>1, <1>2, <1>3, PlaceStep DEF Store!Next

(***************************************************************************)
(* The uploader implements the abstract store: a captured chunk moves from *)
(* the buffer to the object store and never back or away.                  *)
(***************************************************************************)
THEOREM Refinement == Spec => ImplementsStore
  BY InvariantHolds, InitStore, NextStore, PTL DEF Spec, ImplementsStore, Store!Spec
=============================================================================
