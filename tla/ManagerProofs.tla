---------------------------- MODULE ManagerProofs ---------------------------
(***************************************************************************)
(* Theorems of Manager, for any number of recorders, files and threads and *)
(* with every overlap of timers, requests and threads allowed: the type    *)
(* invariant, and that a chunk is handed to the uploader at most once.     *)
(***************************************************************************)
EXTENDS Manager, TLAPS

-----------------------------------------------------------------------------
(* The type invariant, in two halves: numbers and the rest.                *)

Numbers == /\ backoff \in BackoffBase..BackoffMax /\ wait \in 0..BackoffMax
           /\ patches \in 0..MaxPatches /\ faults \in 0..MaxFaults /\ restarts \in 0..MaxRestarts

\* A thread past its first step holds a recorder.
Holding(t) == /\ task[t].pc \in {"close", "wait", "teardown", "finalize"} =>
                    task[t].rec \in Rec /\ task[t].kind \in {"rotate", "stop", "discard"}
              /\ task[t].pc = "query" /\ task[t].kind = "rotate" => task[t].rec \in Rec

Placed == task \in [Task -> TaskState] /\ \A t \in Task : Holding(t)

Objects == /\ recorder \in Rec \cup {NoRec}
           /\ rec \in [Rec -> Recorder]
           /\ row \in [Path -> RowState]
           /\ proc \in [Path -> {"none", "running", "exited"}]

Flags == /\ dbEnabled \in BOOLEAN /\ registered \in BOOLEAN /\ disabled \in BOOLEAN
         /\ online \in BOOLEAN /\ patch \in {"none", "enable", "disable"}

Clashes == clash \subseteq Rec

(***************************************************************************)
(* The type invariant is the five parts, without the threads' own.         *)
(***************************************************************************)
LEMMA TypeParts == TypeOK <=> /\ Numbers /\ Objects /\ Flags /\ Clashes
                              /\ task \in [Task -> TaskState]
  BY DEF TypeOK, Numbers, Objects, Flags, Clashes

(***************************************************************************)
(* A new recorder.                                                         *)
(***************************************************************************)
LEMMA RecorderType == NewRecorder \in Recorder /\ NewRecorder.path = NoPath /\ ~NewRecorder.loop
  BY DEF NewRecorder, Recorder

(***************************************************************************)
(* The forms of a recorder that the actions build are recorders.           *)
(***************************************************************************)
LEMMA RecorderForms == \A q \in Recorder :
    /\ [q EXCEPT !.stop = TRUE] \in Recorder
    /\ [q EXCEPT !.loop = FALSE] \in Recorder
    /\ [q EXCEPT !.ffmpeg = NoPath] \in Recorder
    /\ \A b \in BOOLEAN : [q EXCEPT !.status = "recording", !.loop = b] \in Recorder
  BY DEF Recorder

(***************************************************************************)
(* A thread that is not running.                                           *)
(***************************************************************************)
LEMMA TaskType == NoTask \in TaskState /\ NoTask.pc = "begin" /\ NoTask.kind = "none" /\ NoTask.rec = NoRec
  BY DEF NoTask, TaskState

USE DEF vars, table, state, budgets

(***************************************************************************)
(* The counters stay within their bounds and the backoff below its cap.    *)
(***************************************************************************)
LEMMA NumbersInit == Init => Numbers
  BY BackoffAssumption, BoundAssumption DEF Init, Numbers

(***************************************************************************)
(* Every step keeps the counters within their bounds and the backoff below *)
(* its cap.                                                                *)
(***************************************************************************)
LEMMA NumbersStep == Numbers /\ [Next]_vars => Numbers'
<1> SUFFICES ASSUME Numbers, [Next]_vars PROVE Numbers'
  OBVIOUS
<1> USE BackoffAssumption, BoundAssumption DEF Numbers
<1>1. CASE UNCHANGED <<backoff, wait, patches, faults, restarts>>
  BY <1>1
<1>2. CASE WatchdogQuiet
  BY <1>2 DEF WatchdogQuiet, Remaining
<1>3. ASSUME NEW t \in Task, WatchdogReconnect(t) PROVE Numbers'
  BY <1>3 DEF WatchdogReconnect, NextBackoff
<1>4. ASSUME NEW t \in Task, PatchEnable(t) \/ PatchDisable(t) PROVE Numbers'
  BY <1>4 DEF PatchEnable, PatchDisable
<1>5. ASSUME NEW t \in Task, OpenTimeout(t) \/ DatabaseFails(t) PROVE Numbers'
  BY <1>5 DEF OpenTimeout, DatabaseFails
<1>6. ASSUME NEW r \in Rec, PipeBreaks(r) PROVE Numbers'
  BY <1>6 DEF PipeBreaks
<1>7. CASE GoOffline \/ Restart
  BY <1>7 DEF GoOffline, Restart
<1>8. CASE \/ PatchCommit \/ PatchReject \/ GoOnline
           \/ \E r \in Rec : StreamLost(r)
           \/ \E t \in Task : Rescan(t) \/ RotateAll(t) \/ TaskStep(t)
  <2>1. ASSUME NEW t \in Task, TaskStep(t) PROVE UNCHANGED <<backoff, wait, patches, faults, restarts>>
    BY <2>1 DEF TaskStep, LaunchQuery, RotateQuery, Probe, Started, Create, BeginStop, CloseFifos,
                FFmpegExits, HandBack, Finalize
  <2>2. ASSUME NEW t \in Task, Rescan(t) \/ RotateAll(t) PROVE UNCHANGED <<backoff, wait, patches, faults, restarts>>
    BY <2>2 DEF Rescan, RotateAll
  <2>3. ASSUME NEW r \in Rec, StreamLost(r) PROVE UNCHANGED <<backoff, wait, patches, faults, restarts>>
    BY <2>3 DEF StreamLost
  <2>4. ASSUME PatchCommit \/ PatchReject \/ GoOnline PROVE UNCHANGED <<backoff, wait, patches, faults, restarts>>
    BY <2>4 DEF PatchCommit, PatchReject, GoOnline
  <2> QED BY <1>1, <1>8, <2>1, <2>2, <2>3, <2>4, SMTT(30)
<1> QED
  BY <1>1, <1>2, <1>3, <1>4, <1>5, <1>6, <1>7, <1>8 DEF Next, Timer

(***************************************************************************)
(* The flags are Boolean.                                                  *)
(***************************************************************************)
LEMMA FlagsStep == Flags /\ [Next]_vars => Flags'
<1> SUFFICES ASSUME Flags, [Next]_vars PROVE Flags'
  OBVIOUS
<1> USE DEF Flags
<1>1. CASE UNCHANGED <<dbEnabled, registered, disabled, online, patch>>
  BY <1>1
<1>2. ASSUME NEW t \in Task, TaskStep(t) \/ OpenTimeout(t) \/ DatabaseFails(t) PROVE Flags'
  <2>1. CASE RotateQuery(t)
    BY <2>1 DEF RotateQuery
  <2>2. CASE ~RotateQuery(t)
    BY <1>1, <1>2, <2>2 DEF TaskStep, OpenTimeout, LaunchQuery, Probe, Started, Create, BeginStop,
                            CloseFifos, FFmpegExits, HandBack, Finalize, DatabaseFails
  <2> QED BY <2>1, <2>2
<1>3. ASSUME NEW t \in Task, Rescan(t) \/ RotateAll(t) \/ WatchdogReconnect(t) PROVE Flags'
  BY <1>3 DEF Rescan, RotateAll, WatchdogReconnect
<1>4. ASSUME NEW t \in Task, PatchEnable(t) PROVE Flags'
  BY <1>4 DEF PatchEnable
<1>5. ASSUME NEW t \in Task, PatchDisable(t) PROVE Flags'
  BY <1>5 DEF PatchDisable
<1>6. CASE PatchCommit \/ PatchReject
  BY <1>6 DEF PatchCommit, PatchReject
<1>7. CASE WatchdogQuiet \/ GoOffline \/ GoOnline \/ Restart
  BY <1>7 DEF WatchdogQuiet, GoOffline, GoOnline, Restart
<1>8. ASSUME NEW r \in Rec, StreamLost(r) \/ PipeBreaks(r) PROVE Flags'
  BY <1>8 DEF StreamLost, PipeBreaks
<1> QED
  BY <1>1, <1>2, <1>3, <1>4, <1>5, <1>6, <1>7, <1>8 DEF Next, Timer

(***************************************************************************)
(* Threads are well-typed, and hold a recorder where they use one.         *)
(***************************************************************************)
LEMMA BeganPlaced ==
  ASSUME Placed, Objects, NEW t \in Task,
         Rescan(t) \/ RotateAll(t) \/ WatchdogReconnect(t) \/ PatchEnable(t) \/ PatchDisable(t)
  PROVE  Placed'
<1> USE TaskType DEF Placed, Holding, Objects
<1>1. Launching(t) \in [Task -> TaskState]
      /\ \A u \in Task : u # t => Launching(t)[u] = task[u]
      /\ Launching(t)[t].pc = "query" /\ Launching(t)[t].kind = "launch"
  BY DEF Launching, TaskState, NoTask
<1>0. ASSUME task' = Launching(t) PROVE Placed'
  <2>1. ASSUME NEW u \in Task PROVE Holding(u)'
    <3>1. CASE u = t
      BY <1>0, <3>1 DEF Launching, TaskState, NoTask
    <3>2. CASE u # t
      BY <1>1, <1>0, <2>1, <3>2
    <3> QED BY <3>1, <3>2
  <2> QED BY <1>1, <1>0, <2>1
<1>2. CASE Rescan(t) \/ PatchEnable(t)
  BY <1>0, <1>2 DEF Rescan, PatchEnable
<1>3. CASE RotateAll(t)
  <2>1. [NoTask EXCEPT !.kind = "rotate"] \in TaskState /\ [NoTask EXCEPT !.kind = "rotate"].pc = "begin"
    BY DEF TaskState, NoTask
  <2> QED BY <1>3, <2>1 DEF RotateAll
<1>4. CASE WatchdogReconnect(t)
  <2>1. CASE recorder = NoRec
    <3>1. task' = Launching(t)
      BY <1>4, <2>1 DEF WatchdogReconnect
    <3> QED BY <1>0, <3>1
  <2>2. CASE recorder # NoRec
    <3>1. PICK u \in Task \ {t} :
             task' = [Launching(t) EXCEPT ![u] = [NoTask EXCEPT !.kind = "discard", !.rec = recorder]]
      BY <1>4, <2>2 DEF WatchdogReconnect, FreeTasks
    <3>2. [NoTask EXCEPT !.kind = "discard", !.rec = recorder] \in TaskState
          /\ [NoTask EXCEPT !.kind = "discard", !.rec = recorder].pc = "begin"
      BY DEF TaskState, NoTask
    <3> QED BY <1>1, <3>1, <3>2
  <2> QED BY <2>1, <2>2
<1>5. CASE PatchDisable(t)
  BY <1>5 DEF PatchDisable, StopOwn, Stopping, TaskState, NoTask
<1> QED BY <1>2, <1>3, <1>4, <1>5

(***************************************************************************)
(* A thread's own steps leave it well-typed and with a recorder.           *)
(***************************************************************************)
LEMMA StepPlaced ==
  ASSUME Placed, Objects, NEW t \in Task, TaskStep(t) \/ OpenTimeout(t) \/ DatabaseFails(t)
  PROVE  Placed'
<1> USE TaskType DEF Placed, Holding, Objects
<1>1. ASSUME End(t) PROVE Placed'
  BY <1>1 DEF End
<1>2. ASSUME NEW p \in {"open", "create"}, Goto(t, p) PROVE Placed'
  BY <1>2 DEF Goto, TaskState
<1>3. ASSUME NEW r \in Rec \cup {NoRec}, NEW p \in Path, NEW fresh \in BOOLEAN, BeginStart(t, r, p, fresh)
      PROVE  Placed'
  BY <1>3, ZenonT(60) DEF BeginStart, TaskState
<1>4. CASE LaunchQuery(t)
  BY <1>1, <1>3, <1>4 DEF LaunchQuery, FreshRecs, FreshPaths
<1>5. CASE RotateQuery(t)
  BY <1>1, <1>3, <1>5 DEF RotateQuery, FreshPaths
<1>6. CASE Probe(t) \/ Started(t) \/ Create(t) \/ OpenTimeout(t) \/ DatabaseFails(t)
  BY <1>1, <1>2, <1>6 DEF Probe, Started, Create, OpenTimeout, DatabaseFails
<1>7. CASE BeginStop(t)
  <2> DEFINE r == IF task[t].kind = "rotate" THEN recorder ELSE task[t].rec
  <2>1. r \in Rec \cup {NoRec}
    BY DEF TaskState
  <2>2. CASE r = NoRec
    BY <1>1, <1>7, <2>2 DEF BeginStop
  <2>3. CASE r # NoRec
    <3>1. task' = [task EXCEPT ![t].pc = "close", ![t].rec = r]
      BY <1>7, <2>3 DEF BeginStop
    <3>2. task[t].kind \in {"rotate", "stop", "discard"}
      BY <1>7 DEF BeginStop
    <3> QED BY <2>1, <2>3, <3>1, <3>2, ZenonT(60) DEF TaskState
  <2> QED BY <2>2, <2>3
<1>8. CASE CloseFifos(t)
  <2>1. rec[task[t].rec].ffmpeg \in Path \cup {NoPath}
    BY <1>8 DEF CloseFifos, Recorder
  <2>2. AfterClose(task[t].rec) \in {"wait", "teardown"}
    BY DEF AfterClose
  <2> QED BY <1>8, <2>1, <2>2, ZenonT(60) DEF CloseFifos, TaskState
<1>9. CASE FFmpegExits(t)
  <2>1. CASE Goto(t, "teardown")
    BY <1>9, <2>1 DEF FFmpegExits, Goto, TaskState
  <2> QED BY <1>1, <1>9, <2>1 DEF FFmpegExits
<1>10. CASE HandBack(t)
  <2>1. rec[task[t].rec].path \in Path \cup {NoPath}
    BY <1>10 DEF HandBack, Recorder
  <2>2. ASSUME task' = [task EXCEPT ![t].pc = "finalize", ![t].path = rec[task[t].rec].path] PROVE Placed'
    BY <1>10, <2>1, <2>2 DEF HandBack, TaskState
  <2>3. ASSUME task' = [task EXCEPT ![t].pc = "query", ![t].path = NoPath] PROVE Placed'
    BY <1>10, <2>3 DEF HandBack, TaskState
  <2>4. \/ End(t)
        \/ task' = [task EXCEPT ![t].pc = "finalize", ![t].path = rec[task[t].rec].path]
        \/ task' = [task EXCEPT ![t].pc = "query", ![t].path = NoPath]
    BY <1>10 DEF HandBack, TaskState
  <2> QED BY <1>1, <2>2, <2>3, <2>4
<1>11. CASE Finalize(t)
  <2>1. ASSUME task' = [task EXCEPT ![t].pc = "query", ![t].path = NoPath] PROVE Placed'
    BY <1>11, <2>1, ZenonT(60) DEF Finalize, TaskState
  <2> QED BY <1>1, <1>11, <2>1 DEF Finalize
<1> QED BY <1>4, <1>5, <1>6, <1>7, <1>8, <1>9, <1>10, <1>11 DEF TaskStep

(***************************************************************************)
(* So does every step.                                                     *)
(***************************************************************************)
LEMMA PlacedStep == Placed /\ Objects /\ [Next]_vars => Placed'
<1> SUFFICES ASSUME Placed, Objects, [Next]_vars PROVE Placed'
  OBVIOUS
<1>1. CASE UNCHANGED task
  BY <1>1 DEF Placed, Holding
<1>2. CASE Restart
  BY <1>2, TaskType DEF Restart, Placed, Holding
<1>3. CASE \/ WatchdogQuiet \/ PatchCommit \/ PatchReject \/ GoOffline \/ GoOnline
           \/ \E r \in Rec : StreamLost(r) \/ PipeBreaks(r)
  BY <1>1, <1>3 DEF WatchdogQuiet, PatchCommit, PatchReject, GoOffline, GoOnline, StreamLost, PipeBreaks
<1> QED
  BY <1>1, <1>2, <1>3, BeganPlaced, StepPlaced DEF Next, Timer

(***************************************************************************)
(* Recorders, rows and processes are well-typed.                           *)
(***************************************************************************)
LEMMA ObjectsStep == Placed /\ Objects /\ [Next]_vars => Objects'
<1> SUFFICES ASSUME Placed, Objects, [Next]_vars PROVE Objects'
  OBVIOUS
<1> USE DEF Objects
<1>1. CASE UNCHANGED <<recorder, rec, row, proc>>
  BY <1>1
<1>2. ASSUME NEW t \in Task, NEW r, NEW p \in Path, NEW fresh \in BOOLEAN,
             BeginStart(t, r, p, fresh)
      PROVE  rec' \in [Rec -> Recorder] /\ row' \in [Path -> RowState]
             /\ proc' \in [Path -> {"none", "running", "exited"}]
  <2>1. CASE fresh
    BY <1>2, <2>1, RecorderType DEF BeginStart, Recorder, RowState
  <2>2. CASE ~fresh
    BY <1>2, <2>2, ZenonT(60) DEF BeginStart, Recorder, RowState
  <2> QED BY <2>1, <2>2
<1>3. ASSUME NEW t \in Task, TaskStep(t) \/ OpenTimeout(t) \/ DatabaseFails(t) PROVE Objects'
  <2>1. CASE LaunchQuery(t)
    BY <1>2, <2>1 DEF LaunchQuery, FreshRecs, FreshPaths
  <2>2. CASE RotateQuery(t)
    BY <1>2, <2>2 DEF RotateQuery, FreshPaths
  <2>3. task[t].path \in Path \cup {NoPath} /\ task[t].rec \in Rec \cup {NoRec}
    BY DEF Placed, TaskState
  <2>4. CASE Probe(t)
    BY <2>3, <2>4 DEF Probe, Recorder
  <2>5. CASE Started(t)
    <3>1. (~rec[task[t].rec].stop) \in BOOLEAN
      OBVIOUS
    <3>2. rec' \in [Rec -> Recorder]
      BY <2>5, <3>1, RecorderForms DEF Started
    <3> QED BY <2>3, <2>5, <3>2 DEF Started
  <2>6. CASE Create(t)
    BY <2>6 DEF Create, RowState
  <2>7. CASE BeginStop(t)
    <3>1. UNCHANGED <<recorder, row, proc>>
      BY <2>7 DEF BeginStop
    <3>2. UNCHANGED rec \/ \E r : rec' = [rec EXCEPT ![r].stop = TRUE]
      BY <2>7 DEF BeginStop
    <3> QED BY <3>1, <3>2, RecorderForms, ZenonT(60)
  <2>8. CASE CloseFifos(t)
    BY <2>8, RecorderForms DEF CloseFifos
  <2>9. CASE FFmpegExits(t)
    <3>1. UNCHANGED rec \/ rec' = [rec EXCEPT ![task[t].rec].ffmpeg = NoPath]
      BY <2>9 DEF FFmpegExits
    <3>2. UNCHANGED <<recorder, row>> /\ proc' = [proc EXCEPT ![task[t].path] = "exited"]
      BY <2>9 DEF FFmpegExits
    <3>3. \A r \in Rec : [rec[r] EXCEPT !.ffmpeg = NoPath] \in Recorder
      BY RecorderForms
    <3>4. rec' \in [Rec -> Recorder]
      BY <3>1, <3>3
    <3>5. proc' \in [Path -> {"none", "running", "exited"}]
      BY <3>2
    <3> QED BY <3>2, <3>4, <3>5
  <2>10. CASE HandBack(t)
    BY <2>10, ZenonT(60) DEF HandBack, Released, Recorder
  <2>11. CASE Finalize(t)
    <3>1. RowEnds(task[t].path) \in [Path -> RowState]
      BY DEF RowEnds, RowState
    <3> QED BY <2>11, <3>1 DEF Finalize
  <2>12. CASE OpenTimeout(t)
    BY <2>12, ZenonT(60) DEF OpenTimeout, Recorder
  <2>13. CASE DatabaseFails(t)
    <3>1. RowEnds(task[t].path) \in [Path -> RowState]
      BY DEF RowEnds, RowState
    <3> QED BY <2>13, <3>1 DEF DatabaseFails
  <2> QED BY <1>3, <2>1, <2>2, <2>4, <2>5, <2>6, <2>7, <2>8, <2>9, <2>10, <2>11, <2>12, <2>13 DEF TaskStep
<1>4. ASSUME NEW t \in Task, Rescan(t) \/ RotateAll(t) \/ PatchEnable(t) PROVE Objects'
  BY <1>1, <1>4 DEF Rescan, RotateAll, PatchEnable
<1>5. ASSUME NEW t \in Task, WatchdogReconnect(t) \/ PatchDisable(t) PROVE Objects'
  BY <1>5 DEF WatchdogReconnect, PatchDisable
<1>6. ASSUME NEW r \in Rec, StreamLost(r) PROVE Objects'
  BY <1>6 DEF StreamLost, Recorder
<1>7. ASSUME NEW r \in Rec, PipeBreaks(r) PROVE Objects'
  BY <1>7 DEF PipeBreaks, Recorder
<1>8. CASE WatchdogQuiet \/ PatchCommit \/ PatchReject \/ GoOffline \/ GoOnline
  BY <1>1, <1>8 DEF WatchdogQuiet, PatchCommit, PatchReject, GoOffline, GoOnline
<1>9. CASE Restart
  BY <1>9, RecorderType DEF Restart
<1> QED
  BY <1>1, <1>3, <1>4, <1>5, <1>6, <1>7, <1>8, <1>9 DEF Next, Timer

(***************************************************************************)
(* The recorders that are at odds are recorders.                           *)
(***************************************************************************)
LEMMA ClashesStep == Clashes /\ Objects /\ [Next]_vars => Clashes'
<1> SUFFICES ASSUME Clashes, Objects, [Next]_vars PROVE Clashes'
  OBVIOUS
<1> USE DEF Clashes
<1>1. AtOdds(recorder) \subseteq Rec /\ \A t \in Task : Overridden(t) \subseteq Rec
  BY DEF AtOdds, Overridden, Objects
<1>2. CASE UNCHANGED clash
  BY <1>2
<1>3. ASSUME NEW t \in Task, TaskStep(t) PROVE Clashes'
  <2>1. ASSUME NEW q, NEW p, NEW fresh, BeginStart(t, q, p, fresh) PROVE Clashes'
    BY <2>1 DEF BeginStart
  <2>2. CASE LaunchQuery(t) \/ RotateQuery(t)
    BY <1>1, <2>1, <2>2 DEF LaunchQuery, RotateQuery
  <2>3. CASE Started(t) \/ BeginStop(t)
    BY <1>1, <2>3 DEF Started, BeginStop
  <2>4. CASE \/ Probe(t) \/ Create(t) \/ CloseFifos(t) \/ FFmpegExits(t) \/ HandBack(t)
             \/ Finalize(t)
    BY <2>4 DEF Probe, Create, CloseFifos, FFmpegExits, HandBack, Finalize
  <2> QED BY <1>3, <2>2, <2>3, <2>4 DEF TaskStep
<1>4. ASSUME NEW t \in Task, WatchdogReconnect(t) \/ PatchDisable(t) PROVE Clashes'
  BY <1>1, <1>4 DEF WatchdogReconnect, PatchDisable
<1>5. ASSUME NEW t \in Task,
             Rescan(t) \/ RotateAll(t) \/ PatchEnable(t) \/ OpenTimeout(t) \/ DatabaseFails(t)
      PROVE  Clashes'
  BY <1>5 DEF Rescan, RotateAll, PatchEnable, OpenTimeout, DatabaseFails
<1>6. CASE WatchdogQuiet \/ PatchCommit \/ PatchReject \/ GoOffline \/ GoOnline \/ Restart
  BY <1>6 DEF WatchdogQuiet, PatchCommit, PatchReject, GoOffline, GoOnline, Restart
<1>7. ASSUME NEW q \in Rec, StreamLost(q) \/ PipeBreaks(q) PROVE Clashes'
  BY <1>7 DEF StreamLost, PipeBreaks
<1> QED BY <1>2, <1>3, <1>4, <1>5, <1>6, <1>7 DEF Next, Timer

Typed == Numbers /\ Objects /\ Flags /\ Placed /\ Clashes

(***************************************************************************)
(* The manager starts well-typed.                                          *)
(***************************************************************************)
LEMMA TypedInit == Init => Typed
<1> SUFFICES ASSUME Init PROVE Typed
  OBVIOUS
<1>1. Numbers
  BY NumbersInit
<1>2. Objects
  BY RecorderType DEF Init, Objects, RowState
<1>3. Flags
  BY DEF Init, Flags
<1>4. Placed
  BY TaskType DEF Init, Placed, Holding
<1>5. Clashes
  BY DEF Init, Clashes
<1> QED BY <1>1, <1>2, <1>3, <1>4, <1>5 DEF Typed

(***************************************************************************)
(* Every step leaves it so.                                                *)
(***************************************************************************)
LEMMA TypedStep == Typed /\ [Next]_vars => Typed'
  BY NumbersStep, FlagsStep, ObjectsStep, PlacedStep, ClashesStep DEF Typed

(***************************************************************************)
(* The manager's state is well-typed, its backoff never exceeds the cap,   *)
(* and a thread that stops a recorder has one, whatever overlaps.          *)
(***************************************************************************)
THEOREM TypeCorrect == Spec => [](TypeOK /\ Placed)
<1>1. Typed => TypeOK /\ Placed
  BY TypeParts DEF Typed, Placed
<1> QED
  BY <1>1, TypedInit, TypedStep, PTL DEF Spec

-----------------------------------------------------------------------------
(* A chunk is finalized once                                               *)

(***************************************************************************)
(* The path of a chunk whose row has not ended is in the hands of one      *)
(* recorder, or of one thread that took it from its recorder to finalize   *)
(* it.                                                                     *)
(***************************************************************************)
Finalizing(t) == task[t].pc = "finalize"
Unended(p)    == row[p] \in {"none", "open"}

Given    == \A t \in Task : Finalizing(t) => task[t].path \in Path /\ Unended(task[t].path)
GivenOne == \A t, u \in Task : Finalizing(t) /\ Finalizing(u) /\ t # u => task[t].path # task[u].path
Taken    == \A t \in Task, r \in Rec : Finalizing(t) /\ Live(r) => rec[r].path # task[t].path
HeldOne  == \A r, s \in Rec : Live(r) /\ Live(s) /\ r # s /\ rec[r].path # NoPath => rec[r].path # rec[s].path
Held     == \A r \in Rec : Live(r) /\ rec[r].path # NoPath => Unended(rec[r].path)

Custody == Given /\ GivenOne /\ Taken /\ HeldOne /\ Held /\ FinalizedOnce

(***************************************************************************)
(* There is no path to hold at first.                                      *)
(***************************************************************************)
LEMMA CustodyInit == Init => Custody
<1> SUFFICES ASSUME Init PROVE Custody
  OBVIOUS
<1>1. \A t \in Task : ~Finalizing(t)
  BY TaskType DEF Init, Finalizing
<1>2. \A r \in Rec : rec[r].path = NoPath
  BY RecorderType DEF Init
<1>3. FinalizedOnce
  BY DEF Init, FinalizedOnce
<1> QED BY <1>1, <1>2, <1>3 DEF Custody, Given, GivenOne, Taken, HeldOne, Held

(***************************************************************************)
(* A step that ends no row and hands no path over keeps the custody.       *)
(***************************************************************************)
LEMMA Quiet ==
  ASSUME Custody, Placed, Placed',
         \A p \in Path : row'[p] = row[p] \/ row'[p] = "open",
         \A r \in Rec : Live(r)' => Live(r) /\ rec'[r].path \in {rec[r].path, NoPath},
         \A t \in Task : Finalizing(t)' => Finalizing(t) /\ task'[t].path = task[t].path,
         Objects
  PROVE  Custody'
<1> USE DEF Custody
<1>1. \A p \in Path : Unended(p) => Unended(p)'
  BY DEF Unended
<1>2. Given'
  BY <1>1 DEF Given
<1>3. GivenOne'
  BY DEF GivenOne
<1>4. Taken'
  BY NullAssumption DEF Taken, Given
<1>5. HeldOne'
  BY DEF HeldOne
<1>6. Held'
  <2>1. \A r \in Rec : rec[r].path \in Path \cup {NoPath}
    BY DEF Objects, Recorder
  <2> QED BY <1>1, <2>1 DEF Held
<1>7. FinalizedOnce'
  BY DEF FinalizedOnce
<1> QED BY <1>2, <1>3, <1>4, <1>5, <1>6, <1>7

(***************************************************************************)
(* Timers, requests, the network and failures.                             *)
(***************************************************************************)
LEMMA QuietWorld ==
  ASSUME Custody, Typed, Typed',
         \/ Timer \/ PatchCommit \/ PatchReject \/ GoOffline \/ GoOnline \/ Restart
         \/ \E t \in Task : PatchEnable(t) \/ PatchDisable(t)
         \/ \E r \in Rec : StreamLost(r) \/ PipeBreaks(r)
  PROVE  Custody'
<1> USE TaskType, NullAssumption DEF Live, Finalizing, Typed
<1>1. ASSUME UNCHANGED <<row, rec, recorder, task>> PROVE Custody'
  BY <1>1, Quiet
<1>2. CASE WatchdogQuiet \/ PatchCommit \/ PatchReject \/ GoOffline \/ GoOnline
  BY <1>1, <1>2 DEF WatchdogQuiet, PatchCommit, PatchReject, GoOffline, GoOnline
<1>3. ASSUME NEW t \in Task, Rescan(t) \/ PatchEnable(t) \/ RotateAll(t) PROVE Custody'
  <2>1. task'[t].rec = NoRec /\ task'[t].pc # "finalize"
        /\ \A u \in Task : u # t => task'[u] = task[u]
    BY <1>3 DEF Rescan, PatchEnable, RotateAll, Launching, NoTask, Placed
  <2>2. UNCHANGED <<row, rec, recorder>>
    BY <1>3 DEF Rescan, PatchEnable, RotateAll
  <2> QED BY <2>1, <2>2, Quiet
<1>4. ASSUME NEW t \in Task, WatchdogReconnect(t) PROVE Custody'
  <2>1. UNCHANGED <<row, rec>> /\ recorder' = NoRec
    BY <1>4 DEF WatchdogReconnect
  <2>2. CASE recorder = NoRec
    <3>1. task'[t].rec = NoRec /\ task'[t].pc # "finalize"
          /\ \A u \in Task : u # t => task'[u] = task[u]
      BY <1>4, <2>2 DEF WatchdogReconnect, Launching, NoTask, Placed
    <3> QED BY <2>1, <3>1, Quiet
  <2>3. CASE recorder # NoRec
    <3>1. PICK u \in Task \ {t} :
             task' = [Launching(t) EXCEPT ![u] = [NoTask EXCEPT !.kind = "discard", !.rec = recorder]]
      BY <1>4, <2>3 DEF WatchdogReconnect, FreeTasks
    <3>2. task'[t].rec = NoRec /\ task'[t].pc # "finalize"
          /\ task'[u].rec = recorder /\ task'[u].pc # "finalize"
          /\ \A v \in Task : v # t /\ v # u => task'[v] = task[v]
      BY <3>1 DEF Launching, NoTask, Placed
    <3> QED BY <2>1, <3>2, Quiet
  <2> QED BY <2>2, <2>3
<1>5. ASSUME NEW t \in Task, PatchDisable(t) PROVE Custody'
  <2>1. UNCHANGED <<row, rec>> /\ recorder' = NoRec
    BY <1>5 DEF PatchDisable
  <2>2. CASE recorder = NoRec
    BY <1>1, <1>5, <2>1, <2>2 DEF PatchDisable, StopOwn
  <2>3. CASE recorder # NoRec
    <3>1. task'[t].rec = recorder /\ task'[t].pc # "finalize"
          /\ \A u \in Task : u # t => task'[u] = task[u]
      BY <1>5, <2>3 DEF PatchDisable, StopOwn, Stopping, NoTask, Placed
    <3> QED BY <2>1, <3>1, Quiet
  <2> QED BY <2>2, <2>3
<1>6. ASSUME NEW r \in Rec, StreamLost(r) \/ PipeBreaks(r) PROVE Custody'
  <2>1. UNCHANGED <<row, recorder, task>>
    BY <1>6 DEF StreamLost, PipeBreaks
  <2>2. \A s \in Rec : rec'[s].path = rec[s].path /\ (rec'[s].loop => rec[s].loop)
    BY <1>6 DEF StreamLost, PipeBreaks, Objects, Recorder
  <2> QED BY <2>1, <2>2, Quiet
<1>7. CASE Restart
  <2>1. \A t \in Task : task'[t].rec = NoRec /\ task'[t].pc # "finalize"
    BY <1>7 DEF Restart
  <2>2. UNCHANGED row /\ recorder' = NoRec /\ \A r \in Rec : rec'[r].path = NoPath /\ ~rec'[r].loop
    BY <1>7, RecorderType DEF Restart
  <2> QED BY <2>1, <2>2, Quiet
<1> QED
  BY <1>2, <1>3, <1>4, <1>5, <1>6, <1>7 DEF Timer

(***************************************************************************)
(* The steps of a thread that begin no chunk and end none.                 *)
(***************************************************************************)
LEMMA QuietThread ==
  ASSUME Custody, Typed, Typed', NEW t \in Task,
         \/ Probe(t) \/ Started(t) \/ OpenTimeout(t) \/ Create(t)
         \/ BeginStop(t) \/ CloseFifos(t) \/ FFmpegExits(t)
  PROVE  Custody'
<1> USE TaskType, NullAssumption DEF Finalizing, Typed
<1>1. \A u \in Task : u # t => task'[u] = task[u]
  BY DEF Probe, Started, OpenTimeout, Create, BeginStop, CloseFifos, FFmpegExits, End, Goto, Placed
<1>2. ASSUME \A r \in Rec : rec'[r].path = rec[r].path /\ (rec'[r].loop => rec[r].loop \/ r = task[t].rec),
             recorder' \in {recorder, task[t].rec},
             task'[t].rec \in {task[t].rec, recorder, NoRec}, task'[t].pc # "finalize",
             \A p \in Path : row'[p] = row[p] \/ row'[p] = "open"
      PROVE  Custody'
  <2>1. \A r \in Rec : Live(r)' => Live(r) /\ rec'[r].path \in {rec[r].path, NoPath}
    BY <1>1, <1>2 DEF Live
  <2> QED BY <1>1, <1>2, <2>1, Quiet
<1>3. task'[t].pc # "finalize" /\ task'[t].rec \in {task[t].rec, recorder, NoRec}
  BY DEF Probe, Started, OpenTimeout, Create, BeginStop, CloseFifos, FFmpegExits, AfterClose,
         End, Goto, Placed, TaskState
<1>4. \A r \in Rec : rec'[r].path = rec[r].path /\ (rec'[r].loop => rec[r].loop \/ r = task[t].rec)
  BY DEF Probe, Started, OpenTimeout, Create, BeginStop, CloseFifos, FFmpegExits, Objects, Recorder
<1>5. recorder' \in {recorder, task[t].rec}
  BY DEF Probe, Started, OpenTimeout, Create, BeginStop, CloseFifos, FFmpegExits
<1>6. \A p \in Path : row'[p] = row[p] \/ row'[p] = "open"
  BY DEF Probe, Started, OpenTimeout, Create, BeginStop, CloseFifos, FFmpegExits, Objects
<1> QED BY <1>2, <1>3, <1>4, <1>5, <1>6

(***************************************************************************)
(* A recorder begins a new chunk on a path nobody holds.                   *)
(***************************************************************************)
LEMMA BeginKeeps ==
  ASSUME Custody, Typed, Typed', NEW t \in Task, NEW r \in Rec, NEW p \in FreshPaths, NEW fresh \in BOOLEAN,
         BeginStart(t, r, p, fresh), UNCHANGED recorder
  PROVE  Custody'
<1> USE DEF Custody, Typed
<1>1. /\ p \in Path
      /\ \A s \in Rec : Live(s) => rec[s].path # p
      /\ \A u \in Task : task[u].path # p
  BY DEF FreshPaths
<1>2. /\ rec'[r].path = p
      /\ \A s \in Rec : s # r => rec'[s] = rec[s]
  BY DEF BeginStart, Objects, Recorder, NewRecorder
<1>3. /\ ~Finalizing(t)' /\ task'[t].rec = r
      /\ \A u \in Task : u # t => task'[u] = task[u]
  BY DEF BeginStart, Placed, TaskState, Finalizing
<1>4. \A s \in Rec : s # r /\ Live(s)' => Live(s)
  BY <1>2, <1>3 DEF Live
<1>5. \A q \in Path : row'[q] = IF q = p THEN "none" ELSE row[q]
  BY DEF BeginStart, Objects
<1>6. \A q \in Path : Unended(q) => Unended(q)'
  BY <1>5 DEF Unended
<1>7. Given'
  BY <1>3, <1>6 DEF Given, Finalizing
<1>8. GivenOne'
  BY <1>3 DEF GivenOne, Finalizing
<1>9. Taken'
  BY <1>1, <1>2, <1>3, <1>4 DEF Taken, Finalizing
<1>10. HeldOne'
  BY <1>1, <1>2, <1>4 DEF HeldOne
<1>11. Held'
  <2>1. Unended(p)'
    BY <1>1, <1>5 DEF Unended
  <2>2. \A s \in Rec : rec[s].path \in Path \cup {NoPath}
    BY DEF Objects, Recorder
  <2> QED BY <1>2, <1>4, <1>6, <2>1, <2>2 DEF Held
<1>12. FinalizedOnce'
  BY <1>5 DEF FinalizedOnce
<1> QED BY <1>7, <1>8, <1>9, <1>10, <1>11, <1>12

(***************************************************************************)
(* stop_chunk hands the path back: from the recorder to one thread.        *)
(***************************************************************************)
LEMMA HandBackKeeps ==
  ASSUME Custody, Typed, Typed', NEW t \in Task, HandBack(t)
  PROVE  Custody'
<1> USE NullAssumption DEF Custody, Typed
<1> DEFINE r == task[t].rec
           done == rec[r].path
<1>0. task[t].kind \in {"rotate", "stop", "discard"}
  BY DEF HandBack, Placed, Holding
<1>1. r \in Rec /\ Live(r) /\ ~Finalizing(t)
  BY DEF HandBack, Placed, Holding, Live, Finalizing
<1>2. UNCHANGED <<row, recorder>>
  BY DEF HandBack
<1>3. \A s \in Rec : /\ rec'[s].path = IF s = r THEN NoPath ELSE rec[s].path
                     /\ rec'[s].loop = rec[s].loop
  BY DEF HandBack, Released, Objects, Recorder
<1>4. \A u \in Task : u # t => task'[u] = task[u]
  BY <1>0 DEF HandBack, End, Placed
<1>5. task'[t].rec \in {r, NoRec} /\ (Finalizing(t)' => done # NoPath /\ task'[t].path = done)
  <2>1. CASE End(t)
    BY <2>1, TaskType DEF End, Placed, Finalizing
  <2>2. CASE ~End(t)
    <3>1. \/ task' = [task EXCEPT ![t].pc = "finalize", ![t].path = done] /\ done # NoPath
          \/ task' = [task EXCEPT ![t].pc = "query", ![t].path = NoPath]
      BY <1>0, <2>2 DEF HandBack
    <3> QED BY <3>1 DEF Placed, TaskState, Finalizing
  <2> QED BY <2>1, <2>2
<1>6. \A s \in Rec : Live(s)' => Live(s)
  BY <1>2, <1>3, <1>4, <1>5 DEF Live
<1>7. done \in Path \cup {NoPath}
  BY <1>1 DEF Objects, Recorder
<1>8. Given'
  BY <1>1, <1>2, <1>4, <1>5, <1>7 DEF Given, Held, Finalizing, Unended
<1>9. GivenOne'
  BY <1>1, <1>4, <1>5 DEF GivenOne, Taken, Finalizing
<1>10. Taken'
  <2>1. ASSUME NEW u \in Task, NEW s \in Rec, Finalizing(u)', Live(s)' PROVE rec'[s].path # task'[u].path
    <3>1. Live(s)
      BY <1>6, <2>1
    <3>2. task'[u].path \in Path
      BY <1>8, <2>1 DEF Given
    <3>3. CASE s = r
      BY <1>3, <3>2, <3>3
    <3>4. CASE s # r /\ u = t
      BY <1>1, <1>3, <1>5, <2>1, <3>1, <3>4 DEF HeldOne
    <3>5. CASE s # r /\ u # t
      BY <1>3, <1>4, <2>1, <3>1, <3>5 DEF Taken, Finalizing
    <3> QED BY <3>3, <3>4, <3>5
  <2> QED BY <2>1 DEF Taken
<1>11. HeldOne'
  BY <1>3, <1>6 DEF HeldOne
<1>12. Held'
  BY <1>2, <1>3, <1>6 DEF Held, Unended
<1>13. FinalizedOnce'
  BY <1>2 DEF FinalizedOnce
<1> QED BY <1>8, <1>9, <1>10, <1>11, <1>12, <1>13

(***************************************************************************)
(* A row ends: no other thread and no recorder has its path.               *)
(***************************************************************************)
EndsRow(t) == /\ task[t].pc = "finalize" /\ row' = RowEnds(task[t].path)
              /\ Finalize(t) \/ DatabaseFails(t)

LEMMA FinalizeKeeps ==
  ASSUME Custody, Typed, Typed', NEW t \in Task, EndsRow(t)
  PROVE  Custody'
<1> USE NullAssumption DEF Custody, Typed
<1> DEFINE p == task[t].path
<1>1. p \in Path /\ Unended(p) /\ Finalizing(t)
  BY DEF EndsRow, Finalizing, Given
<1>2. UNCHANGED <<recorder, rec>>
  BY DEF EndsRow, Finalize, DatabaseFails
<1>3. \A q \in Path : row'[q] = IF q # p THEN row[q] ELSE IF row[q] = "none" THEN "none" ELSE "ended"
  BY <1>1 DEF EndsRow, RowEnds, Objects, Unended
<1>4. ~Finalizing(t)' /\ task'[t].rec \in {task[t].rec, NoRec}
      /\ \A u \in Task : u # t => task'[u] = task[u]
  BY TaskType DEF EndsRow, Finalize, DatabaseFails, End, Placed, TaskState, Finalizing
<1>5. \A s \in Rec : Live(s)' => Live(s)
  BY <1>2, <1>4 DEF Live
<1>6. \A q \in Path : q # p /\ Unended(q) => Unended(q)'
  BY <1>3 DEF Unended
<1>7. Given'
  BY <1>1, <1>4, <1>6 DEF Given, GivenOne, Finalizing
<1>8. GivenOne'
  BY <1>4 DEF GivenOne, Finalizing
<1>9. Taken'
  BY <1>2, <1>4, <1>5 DEF Taken, Finalizing
<1>10. HeldOne'
  BY <1>2, <1>5 DEF HeldOne
<1>11. Held'
  <2>1. \A s \in Rec : rec[s].path \in Path \cup {NoPath}
    BY DEF Objects, Recorder
  <2> QED BY <1>1, <1>2, <1>5, <1>6, <2>1 DEF Held, Taken
<1>12. FinalizedOnce'
  BY <1>3 DEF FinalizedOnce
<1> QED BY <1>7, <1>8, <1>9, <1>10, <1>11, <1>12

(***************************************************************************)
(* Every step keeps each path in one hand.                                 *)
(***************************************************************************)
LEMMA CustodyStep == Typed /\ Custody /\ [Next]_vars => Custody'
<1> SUFFICES ASSUME Typed, Custody, [Next]_vars, Typed' PROVE Custody'
  BY TypedStep
<1>1. CASE UNCHANGED vars
  <2>1. \A r \in Rec : Live(r)' <=> Live(r)
    BY <1>1 DEF Live
  <2> QED BY <1>1, <2>1, Quiet DEF Typed, Finalizing
<1>2. ASSUME NEW t \in Task, LaunchQuery(t) PROVE Custody'
  <2>1. CASE dbEnabled
    <3>1. PICK r \in FreshRecs, p \in FreshPaths : BeginStart(t, r, p, TRUE)
      BY <1>2, <2>1 DEF LaunchQuery
    <3>2. r \in Rec /\ UNCHANGED recorder
      BY <1>2 DEF LaunchQuery, FreshRecs
    <3> QED BY <3>1, <3>2, BeginKeeps
  <2>2. CASE ~dbEnabled
    <3>1. UNCHANGED <<row, rec, recorder>> /\ task'[t].rec = NoRec /\ task'[t].pc # "finalize"
          /\ \A u \in Task : u # t => task'[u] = task[u]
      BY <1>2, <2>2, TaskType DEF LaunchQuery, End, Typed, Placed
    <3> QED BY <3>1, Quiet, NullAssumption DEF Typed, Live, Finalizing
  <2> QED BY <2>1, <2>2
<1>3. ASSUME NEW t \in Task, RotateQuery(t) PROVE Custody'
  <2>1. CASE dbEnabled
    <3>1. task[t].rec \in Rec
      BY <1>3 DEF RotateQuery, Typed, Placed, Holding
    <3> QED BY <1>3, <2>1, <3>1, BeginKeeps DEF RotateQuery
  <2>2. CASE ~dbEnabled
    <3>1. UNCHANGED <<row, rec>> /\ recorder' = NoRec /\ task'[t].rec = NoRec /\ task'[t].pc # "finalize"
          /\ \A u \in Task : u # t => task'[u] = task[u]
      BY <1>3, <2>2, TaskType DEF RotateQuery, End, Typed, Placed
    <3> QED BY <3>1, Quiet, NullAssumption DEF Typed, Live, Finalizing
  <2> QED BY <2>1, <2>2
<1>4. ASSUME NEW t \in Task, DatabaseFails(t) PROVE Custody'
  <2>1. CASE EndsRow(t)
    BY <2>1, FinalizeKeeps
  <2>2. CASE ~EndsRow(t)
    <3>1. UNCHANGED <<row, rec, recorder>> /\ task'[t].rec = NoRec /\ task'[t].pc # "finalize"
          /\ \A u \in Task : u # t => task'[u] = task[u]
      BY <1>4, <2>2, TaskType DEF DatabaseFails, EndsRow, End, Typed, Placed
    <3> QED BY <3>1, Quiet, NullAssumption DEF Typed, Live, Finalizing
  <2> QED BY <2>1, <2>2
<1>5. ASSUME NEW t \in Task, Finalize(t) PROVE Custody'
  BY <1>5, FinalizeKeeps DEF Finalize, EndsRow
<1> QED
  BY <1>1, <1>2, <1>3, <1>4, <1>5, QuietWorld, QuietThread, HandBackKeeps DEF Next, TaskStep

(***************************************************************************)
(* A chunk is handed to the uploader at most once, for every overlap of    *)
(* rotations, launches, stops, requests, failures and restarts.            *)
(***************************************************************************)
THEOREM HandedOnce == Spec => []FinalizedOnce
<1>1. Custody => FinalizedOnce
  BY DEF Custody
<1> QED
  BY <1>1, TypedInit, TypedStep, CustodyInit, CustodyStep, PTL DEF Spec
=============================================================================
