--------------------------- MODULE OwnershipProofs --------------------------
(***************************************************************************)
(* Theorems of Manager about who has a recorder, for any number of         *)
(* recorders, files and threads, and with every overlap of timers,         *)
(* requests, threads, failures and restarts allowed: a recorder that       *)
(* captures is the source's own or about to be stopped, and a chunk handed *)
(* to the uploader is complete, unless two threads were at odds about the  *)
(* recorder.                                                               *)
(***************************************************************************)
EXTENDS ManagerProofs

USE DEF vars, table, state, budgets

-----------------------------------------------------------------------------
(* Threads and what they hold                                              *)

Spawn(t) == Rescan(t) \/ RotateAll(t) \/ WatchdogReconnect(t) \/ PatchEnable(t) \/ PatchDisable(t)
Work(t)  == TaskStep(t) \/ OpenTimeout(t) \/ DatabaseFails(t)

World == \/ WatchdogQuiet \/ PatchCommit \/ PatchReject \/ GoOffline \/ GoOnline
         \/ \E r \in Rec : StreamLost(r) \/ PipeBreaks(r)

(***************************************************************************)
(* A step is a trigger that starts a thread, a thread's own step, one of   *)
(* the world or a restart.                                                 *)
(***************************************************************************)
LEMMA Actors == Next <=> \/ \E t \in Task : Spawn(t)
                         \/ \E t \in Task : Work(t)
                         \/ World \/ Restart
  BY DEF Next, Timer, Spawn, Work, World

Stopper == {"stop", "discard"}
Holds(t, r) == task[t].rec = r /\ task[t].pc # "create"

\* A thread is where its errand takes it, and has a recorder when it needs one.
Fit(t) ==
    /\ task[t].kind = "none" => task[t] = NoTask
    /\ task[t].kind = "launch" => /\ registered
                                  /\ task[t].pc \in {"query", "probe", "open", "create"}
                                  /\ task[t].rec = NoRec <=> task[t].pc = "query"
    /\ task[t].kind = "rotate" => (task[t].rec = NoRec <=> task[t].pc = "begin")
    /\ task[t].kind \in Stopper => /\ task[t].rec # NoRec
                                   /\ task[t].pc \in {"begin", "close", "wait", "teardown", "finalize"}
Fits == \A t \in Task : Fit(t)

\* Two threads that hold one recorder are at odds about it.
Alone == \A r \in Rec, t, u \in Task : Holds(t, r) /\ Holds(u, r) /\ t # u => r \in clash

\* A rotation works on the recorder of the source, or is at odds about it.
Stays == \A t \in Task : task[t].kind = "rotate" /\ task[t].pc \notin {"begin", "create"} =>
            task[t].rec = recorder \/ task[t].rec \in clash

\* A thread that has closed the FIFOs has ended the receive loop.
Closed(t) == task[t].kind \in Stopper \cup {"rotate"} /\ task[t].pc \notin {"begin", "close", "create"}
Silent == \A t \in Task : Closed(t) => ~rec[task[t].rec].loop \/ task[t].rec \in clash

\* A receive loop is that of the source's recorder, or a thread will end it.
Ending(t, r) == task[t].rec = r /\ task[t].kind \in Stopper /\ task[t].pc \in {"begin", "close"}
Known == \A r \in Rec : rec[r].loop => recorder = r \/ r \in clash \/ \E t \in Task : Ending(t, r)

Owning == Fits /\ Alone /\ Stays /\ Silent /\ Known

(***************************************************************************)
(* No thread holds a recorder at first.                                    *)
(***************************************************************************)
LEMMA OwningInit == Init => Owning
<1> SUFFICES ASSUME Init PROVE Owning
  OBVIOUS
<1>1. (\A t \in Task : task[t] = NoTask) /\ (\A r \in Rec : ~rec[r].loop)
  BY RecorderType DEF Init
<1>2. Fits /\ Stays /\ Silent
  BY <1>1, TaskType DEF Fits, Fit, Stays, Silent, Closed, Stopper
<1>3. Alone /\ Known
  BY <1>1, TaskType, NullAssumption DEF Alone, Holds, Known
<1> QED BY <1>2, <1>3 DEF Owning

-----------------------------------------------------------------------------
(* What the steps of threads do                                            *)

(***************************************************************************)
(* A thread moves alone, and a source stays registered.                    *)
(***************************************************************************)
LEMMA Moves ==
  ASSUME Typed, NEW t \in Task, Work(t)
  PROVE  (\A u \in Task : u # t => task'[u] = task[u]) /\ registered' = registered
<1> USE DEF Typed, Placed
<1>1. registered' = registered
  BY DEF Work, TaskStep, OpenTimeout, DatabaseFails, LaunchQuery, RotateQuery, Probe, Started, Create,
         BeginStop, CloseFifos, FFmpegExits, HandBack, Finalize
<1>2. \E s : task' = [task EXCEPT ![t] = s]
  <2>1. ASSUME End(t) PROVE \E s : task' = [task EXCEPT ![t] = s]
    BY <2>1 DEF End
  <2>2. ASSUME NEW p, Goto(t, p) PROVE \E s : task' = [task EXCEPT ![t] = s]
    BY <2>2 DEF Goto
  <2>3. ASSUME NEW r, NEW p, NEW fresh, BeginStart(t, r, p, fresh) PROVE \E s : task' = [task EXCEPT ![t] = s]
    BY <2>3 DEF BeginStart
  <2>4. CASE LaunchQuery(t) \/ RotateQuery(t)
    BY <2>1, <2>3, <2>4 DEF LaunchQuery, RotateQuery
  <2>5. CASE Probe(t) \/ Started(t) \/ Create(t) \/ OpenTimeout(t) \/ DatabaseFails(t) \/ FFmpegExits(t)
    BY <2>1, <2>2, <2>5 DEF Probe, Started, Create, OpenTimeout, DatabaseFails, FFmpegExits
  <2>6. CASE BeginStop(t) \/ CloseFifos(t)
    BY <2>1, <2>6 DEF BeginStop, CloseFifos
  <2>7. CASE HandBack(t) \/ Finalize(t)
    <3>1. task[t].kind \in {"rotate", "stop", "discard"} \/ Finalize(t)
      BY <2>7 DEF HandBack, Holding
    <3> QED BY <2>1, <2>7, <3>1 DEF HandBack, Finalize
  <2> QED BY <2>4, <2>5, <2>6, <2>7 DEF Work, TaskStep
<1>3. PICK s : task' = [task EXCEPT ![t] = s]
  BY <1>2
<1> QED BY <1>1, <1>3

\* Thread t goes on to pc with what it holds.
GoesOn(t, pc) == task'[t].kind = task[t].kind /\ task'[t].rec = task[t].rec /\ task'[t].pc = pc

(***************************************************************************)
(* A step that ends its thread, or takes it on with what it holds, and     *)
(* ends no loop but the one it is to end.                                  *)
(***************************************************************************)
LEMMA Onward ==
  ASSUME Owning, Typed, Typed', NEW t \in Task,
         \A u \in Task : u # t => task'[u] = task[u],
         UNCHANGED <<registered, recorder, clash>>,
         \A r \in Rec : rec'[r].loop => rec[r].loop,
         task'[t] = NoTask \/ GoesOn(t, task'[t].pc),
         Fit(t)',
         task[t].pc = "create" => task'[t] = NoTask,
         \A r \in Rec : Ending(t, r) /\ rec'[r].loop => Ending(t, r)',
         Closed(t)' => Closed(t) \/ ~rec'[task[t].rec].loop,
         task[t].kind = "rotate" /\ task[t].pc = "begin" => task'[t] = NoTask
  PROVE  Owning'
<1> USE DEF Owning
<1>1. Fits'
  BY DEF Fits, Fit
<1>2. Alone'
  <2>1. \A r \in Rec : Holds(t, r)' => Holds(t, r)
    BY TaskType, NullAssumption DEF Holds, GoesOn
  <2> QED BY <2>1 DEF Alone, Holds
<1>3. Stays'
  BY TaskType DEF Stays, GoesOn
<1>4. Silent'
  <2>1. \A u \in Task : Closed(u)' => task'[u].rec = task[u].rec
    BY TaskType DEF Closed, GoesOn, Stopper
  <2>2. \A u \in Task : Closed(u) => task[u].rec \in Rec
    BY NullAssumption DEF Closed, Fits, Fit, Typed, Placed, TaskState, Stopper
  <2>3. \A u \in Task : Closed(u)' => Closed(u) \/ ~rec'[task[u].rec].loop
    BY DEF Closed
  <2> QED BY <2>1, <2>2, <2>3 DEF Silent
<1>5. Known'
  <2> SUFFICES ASSUME NEW r \in Rec, rec'[r].loop, recorder # r, r \notin clash
               PROVE  \E u \in Task : Ending(u, r)'
    BY DEF Known
  <2>1. PICK u \in Task : Ending(u, r)
    BY DEF Known
  <2>2. CASE u # t
    BY <2>1, <2>2 DEF Ending
  <2>3. CASE u = t
    BY <2>1, <2>3 DEF Ending
  <2> QED BY <2>2, <2>3
<1> QED BY <1>1, <1>2, <1>3, <1>4, <1>5

(***************************************************************************)
(* The steps that only end the thread or take it on.                       *)
(***************************************************************************)
LEMMA EasySteps ==
  ASSUME Owning, Typed, Typed', NEW t \in Task,
         \/ Probe(t) \/ OpenTimeout(t) \/ Create(t) \/ CloseFifos(t) \/ FFmpegExits(t)
         \/ HandBack(t) \/ Finalize(t) \/ DatabaseFails(t)
  PROVE  Owning'
<1> USE DEF Typed, Objects, Placed
<1>1. (\A u \in Task : u # t => task'[u] = task[u]) /\ registered' = registered
  BY Moves DEF Work, TaskStep
<1>2. UNCHANGED <<recorder, clash>>
  BY DEF Probe, OpenTimeout, Create, CloseFifos, FFmpegExits, HandBack, Finalize, DatabaseFails
<1>3. \A r \in Rec : rec'[r].loop => rec[r].loop
  <2>1. CASE Probe(t) \/ OpenTimeout(t)
    BY <2>1 DEF Probe, OpenTimeout, Recorder
  <2>2. CASE CloseFifos(t)
    BY <2>2 DEF CloseFifos, Recorder
  <2>3. CASE FFmpegExits(t)
    <3>1. UNCHANGED rec \/ rec' = [rec EXCEPT ![task[t].rec].ffmpeg = NoPath]
      BY <2>3 DEF FFmpegExits
    <3> QED BY <3>1 DEF Recorder
  <2>5. CASE HandBack(t)
    BY <2>5 DEF HandBack, Released, Recorder
  <2>4. CASE Create(t) \/ Finalize(t) \/ DatabaseFails(t)
    BY <2>4 DEF Create, Finalize, DatabaseFails
  <2> QED BY <2>1, <2>2, <2>3, <2>4, <2>5
<1>4. Fit(t) /\ task[t] \in TaskState
  BY DEF Owning, Fits
<1>5. task[t].kind # "none" /\ task[t].pc # "begin"
  BY <1>4, TaskType DEF Probe, OpenTimeout, Create, CloseFifos, FFmpegExits, HandBack, Finalize, DatabaseFails, Fit
<1>6. ASSUME NEW r \in Rec, Ending(t, r) PROVE ~rec'[r].loop
  <2>1. CloseFifos(t) /\ task[t].rec = r
    BY <1>4, <1>5, <1>6 DEF Probe, OpenTimeout, Create, CloseFifos, FFmpegExits, HandBack, Finalize,
                            DatabaseFails, Ending, Fit
  <2> QED BY <2>1 DEF CloseFifos, Recorder
<1>7. CASE End(t)
  <2>1. task'[t] = NoTask
    BY <1>7 DEF End
  <2>2. Fit(t)' /\ ~Closed(t)'
    BY <2>1, TaskType DEF Fit, Closed, Stopper
  <2> QED BY <1>1, <1>2, <1>3, <1>5, <1>6, <2>1, <2>2, Onward
<1>8. ASSUME NEW pc, GoesOn(t, pc), Fit(t)', task[t].pc # "create",
             pc \in {"close", "create"} \/ Closed(t) \/ task[t].kind = "launch" \/ ~rec'[task[t].rec].loop
      PROVE  Owning'
  <2>1. Closed(t)' => Closed(t) \/ ~rec'[task[t].rec].loop
    BY <1>8 DEF Closed, GoesOn, Stopper
  <2>2. task'[t] = NoTask \/ GoesOn(t, task'[t].pc)
    BY <1>8 DEF GoesOn
  <2> QED BY <1>1, <1>2, <1>3, <1>5, <1>6, <1>8, <2>1, <2>2, Onward
<1>9. CASE Probe(t)
  <2>1. CASE End(t)
    BY <1>7, <2>1
  <2>2. CASE Goto(t, "open")
    <3>1. GoesOn(t, "open") /\ task[t].pc = "probe"
      BY <1>4, <1>9, <2>2 DEF Goto, GoesOn, TaskState, Probe
    <3>2. task[t].kind \in {"launch", "rotate"}
      BY <1>4, <1>5, <3>1 DEF Fit, TaskState, Stopper
    <3>3. Fit(t)'
      BY <1>1, <1>4, <3>1, <3>2 DEF Fit, GoesOn, Stopper
    <3>4. Closed(t) \/ task[t].kind = "launch"
      BY <3>1, <3>2 DEF Closed
    <3> QED BY <1>8, <3>1, <3>3, <3>4
  <2> QED BY <1>9, <2>1, <2>2 DEF Probe
<1>10. CASE OpenTimeout(t) \/ Create(t) \/ DatabaseFails(t)
  BY <1>7, <1>10 DEF OpenTimeout, Create, DatabaseFails
<1>11. CASE CloseFifos(t)
  <2>1. GoesOn(t, AfterClose(task[t].rec)) /\ task[t].pc = "close"
    BY <1>4, <1>11 DEF CloseFifos, GoesOn, TaskState
  <2>2. AfterClose(task[t].rec) \in {"wait", "teardown"}
    BY DEF AfterClose
  <2>3. task[t].kind \in Stopper \cup {"rotate"} /\ task[t].rec \in Rec
    BY <2>1 DEF Holding, Stopper
  <2>4. Fit(t)'
    BY <1>1, <1>4, <2>1, <2>2, <2>3 DEF Fit, GoesOn, Stopper
  <2>5. ~rec'[task[t].rec].loop
    BY <1>11, <2>3 DEF CloseFifos, Recorder
  <2> QED BY <1>8, <2>1, <2>4, <2>5
<1>12. ASSUME NEW pc, GoesOn(t, pc), FFmpegExits(t) \/ HandBack(t) \/ Finalize(t),
              pc = "query" => task[t].kind = "rotate",
              pc \in {"teardown", "finalize", "query"}
       PROVE  Owning'
  <2>1. task[t].kind \in Stopper \cup {"rotate"} /\ task[t].pc \in {"wait", "teardown", "finalize"}
    BY <1>12 DEF FFmpegExits, HandBack, Finalize, Holding, Stopper
  <2>2. Closed(t)
    BY <2>1 DEF Closed
  <2>3. Fit(t)'
    BY <1>1, <1>4, <1>12, <2>1 DEF Fit, GoesOn, Stopper
  <2> QED BY <1>8, <1>12, <2>1, <2>2, <2>3
<1>13. CASE FFmpegExits(t)
  <2>1. CASE Goto(t, "teardown")
    <3>1. GoesOn(t, "teardown")
      BY <1>4, <2>1 DEF Goto, GoesOn, TaskState
    <3> QED BY <1>12, <1>13, <3>1
  <2> QED BY <1>7, <1>13, <2>1 DEF FFmpegExits
<1>14. ASSUME NEW pc, NEW p, task' = [task EXCEPT ![t].pc = pc, ![t].path = p] PROVE GoesOn(t, pc)
  BY <1>4, <1>14 DEF GoesOn, TaskState
<1>15. CASE HandBack(t)
  <2>1. \/ End(t)
        \/ task' = [task EXCEPT ![t].pc = "finalize", ![t].path = rec[task[t].rec].path]
        \/ task[t].kind = "rotate" /\ task' = [task EXCEPT ![t].pc = "query", ![t].path = NoPath]
    <3>1. task[t].kind \in {"rotate", "stop", "discard"}
      BY <1>15 DEF HandBack, Holding
    <3>2. CASE task[t].kind = "discard"
      BY <1>15, <3>2 DEF HandBack
    <3>3. CASE task[t].kind # "discard" /\ rec[task[t].rec].path # NoPath
      BY <1>15, <3>3 DEF HandBack
    <3>4. CASE task[t].kind # "discard" /\ rec[task[t].rec].path = NoPath
      BY <1>15, <3>1, <3>4 DEF HandBack
    <3> QED BY <3>2, <3>3, <3>4
  <2>2. \/ End(t) \/ GoesOn(t, "finalize")
        \/ task[t].kind = "rotate" /\ GoesOn(t, "query")
    BY <1>14, <2>1
  <2> QED BY <1>7, <1>12, <1>15, <2>2
<1>16. CASE Finalize(t)
  <2>1. \/ End(t)
        \/ task[t].kind = "rotate" /\ task' = [task EXCEPT ![t].pc = "query", ![t].path = NoPath]
    BY <1>16 DEF Finalize
  <2>2. \/ End(t)
        \/ task[t].kind = "rotate" /\ GoesOn(t, "query")
    BY <1>14, <2>1
  <2> QED BY <1>7, <1>12, <1>16, <2>2
<1> QED BY <1>9, <1>10, <1>11, <1>13, <1>15, <1>16

(***************************************************************************)
(* A launch takes a recorder nothing refers to, a rotation goes on with    *)
(* its own, or drops whatever the source has by now.                       *)
(***************************************************************************)
LEMMA QuerySteps ==
  ASSUME Owning, Typed, Typed', NEW t \in Task, LaunchQuery(t) \/ RotateQuery(t)
  PROVE  Owning'
<1> USE DEF Typed, Objects, Placed
<1>1. (\A u \in Task : u # t => task'[u] = task[u]) /\ registered' = registered
  BY Moves DEF Work, TaskStep
<1>2. Fit(t) /\ task[t] \in TaskState
  BY DEF Owning, Fits
<1>3. ASSUME task'[t] = NoTask PROVE Fit(t)' /\ ~Closed(t)'
  BY <1>3, TaskType DEF Fit, Closed, Stopper
<1>4. task[t].pc = "query" /\ task[t].kind \in {"launch", "rotate"}
  BY DEF LaunchQuery, RotateQuery
<1>5. \A r \in Rec : ~Ending(t, r)
  BY <1>4 DEF Ending, Stopper
<1>6. ASSUME End(t), UNCHANGED <<recorder, clash, rec>> PROVE Owning'
  <2>1. task'[t] = NoTask
    BY <1>6 DEF End
  <2> QED BY <1>1, <1>3, <1>4, <1>5, <1>6, <2>1, Onward
<1>7. CASE LaunchQuery(t) /\ dbEnabled
  <2>1. PICK r \in FreshRecs, p \in FreshPaths : BeginStart(t, r, p, TRUE)
    BY <1>7 DEF LaunchQuery
  <2>2. /\ r \in Rec /\ r # recorder /\ ~rec[r].loop
        /\ \A u \in Task : task[u].rec # r
    BY <2>1 DEF FreshRecs, Live
  <2>3. /\ task'[t].kind = "launch" /\ task'[t].pc = "probe" /\ task'[t].rec = r
        /\ clash' = clash \ {r} /\ recorder' = recorder
        /\ ~rec'[r].loop /\ \A s \in Rec : s # r => rec'[s] = rec[s]
    <3>1. ~[NewRecorder EXCEPT !.status = "starting", !.path = p, !.stop = FALSE].loop
      BY DEF NewRecorder
    <3>2. ~rec'[r].loop /\ \A s \in Rec : s # r => rec'[s] = rec[s]
      BY <2>1, <2>2, <3>1 DEF BeginStart
    <3>3. task' = [task EXCEPT ![t].pc = "probe", ![t].rec = r, ![t].path = p] /\ clash' = clash \ {r}
      BY <2>1 DEF BeginStart
    <3>4. task[t].kind = "launch" /\ recorder' = recorder
      BY <1>7 DEF LaunchQuery
    <3> QED BY <1>2, <3>2, <3>3, <3>4 DEF TaskState
  <2> HIDE DEF Typed, Objects, Placed
  <2>4. Fits'
    <3>1. registered
      BY <1>2, <1>7 DEF LaunchQuery, Fit
    <3>2. Fit(t)'
      BY <1>1, <2>2, <2>3, <3>1, NullAssumption DEF Fit, Stopper
    <3> QED BY <1>1, <3>2 DEF Owning, Fits, Fit
  <2>5. Alone'
    <3>1. \A u \in Task : u # t => task'[u].rec # r
      BY <1>1, <2>2
    <3>2. \A s \in Rec, u \in Task : Holds(u, s)' /\ s # r => Holds(u, s)
      BY <1>1, <2>3 DEF Holds
    <3>3. \A s \in Rec, u, v \in Task : Holds(u, s)' /\ Holds(v, s)' /\ u # v => s \in clash'
      BY <2>3, <3>1, <3>2 DEF Holds, Owning, Alone
    <3> QED BY <3>3 DEF Alone
  <2>6. Stays'
    BY <1>1, <2>2, <2>3 DEF Owning, Stays
  <2>7. Silent'
    <3>1. SUFFICES ASSUME NEW u \in Task, Closed(u)' PROVE ~rec'[task'[u].rec].loop \/ task'[u].rec \in clash'
      BY DEF Silent
    <3>2. u # t
      BY <2>3, <3>1 DEF Closed, Stopper
    <3>3. Closed(u) /\ task'[u] = task[u]
      BY <1>1, <3>1, <3>2 DEF Closed
    <3>4. task[u].rec \in Rec
      BY <3>3, NullAssumption DEF Closed, Owning, Fits, Fit, Typed, Placed, TaskState, Stopper
    <3> QED BY <2>2, <2>3, <3>3, <3>4 DEF Owning, Silent
  <2>8. Known'
    BY <1>1, <1>5, <2>2, <2>3 DEF Owning, Known, Ending
  <2> QED BY <2>4, <2>5, <2>6, <2>7, <2>8 DEF Owning
<1>8. CASE RotateQuery(t) /\ dbEnabled
  <2>1. task[t].rec \in Rec
    BY <1>8 DEF RotateQuery, Holding
  <2>2. PICK p \in FreshPaths : BeginStart(t, task[t].rec, p, FALSE)
    BY <1>8 DEF RotateQuery
  <2>3. /\ task'[t].kind = "rotate" /\ task'[t].pc = "probe" /\ task'[t].rec = task[t].rec
        /\ UNCHANGED <<clash, recorder>>
    BY <1>2, <1>8, <2>2 DEF RotateQuery, BeginStart, TaskState
  <2>4. \A r \in Rec : rec'[r].loop = rec[r].loop
    BY <2>1, <2>2 DEF BeginStart, Recorder
  <2>5. GoesOn(t, task'[t].pc) /\ Closed(t)
    BY <1>4, <1>8, <2>3 DEF GoesOn, Closed, RotateQuery
  <2>6. Fit(t)'
    BY <2>1, <2>3, NullAssumption DEF Fit, Stopper
  <2> QED BY <1>1, <1>4, <1>5, <2>3, <2>4, <2>5, <2>6, Onward
<1>9. CASE RotateQuery(t) /\ ~dbEnabled
  <2>1. /\ task'[t] = NoTask /\ recorder' = NoRec /\ UNCHANGED rec
        /\ clash' = clash \cup ({recorder} \ {NoRec, task[t].rec})
    BY <1>9 DEF RotateQuery, End, Overridden
  <2>2. task[t].rec \in Rec /\ Closed(t) /\ Holds(t, task[t].rec)
    BY <1>4, <1>9 DEF RotateQuery, Holding, Closed, Holds
  <2> HIDE DEF Typed, Objects, Placed
  <2>3. Fits'
    BY <1>1, <1>3, <2>1 DEF Owning, Fits, Fit
  <2>4. Alone'
    <3>1. \A r \in Rec : ~Holds(t, r)'
      BY <2>1, TaskType, NullAssumption DEF Holds
    <3>2. \A r \in Rec, u \in Task : Holds(u, r)' => Holds(u, r)
      BY <1>1, <3>1 DEF Holds
    <3>3. \A r \in Rec, u, v \in Task : Holds(u, r)' /\ Holds(v, r)' /\ u # v => r \in clash'
      BY <2>1, <3>2 DEF Owning, Alone
    <3> QED BY <3>3 DEF Alone
  <2>5. Stays'
    <3>1. SUFFICES ASSUME NEW u \in Task, task'[u].kind = "rotate", task'[u].pc \notin {"begin", "create"}
                   PROVE  task'[u].rec \in clash'
      BY DEF Stays
    <3>2. u # t /\ task'[u] = task[u]
      BY <1>1, <2>1, <3>1, TaskType
    <3>3. task[u].rec = recorder \/ task[u].rec \in clash
      BY <3>1, <3>2 DEF Owning, Stays
    <3>4. CASE task[u].rec = task[t].rec
      <4>1. Holds(u, task[t].rec)
        BY <3>1, <3>2, <3>4 DEF Holds
      <4> QED BY <2>1, <2>2, <3>2, <3>4, <4>1 DEF Owning, Alone
    <3>5. CASE task[u].rec # task[t].rec
      <4>1. task[u].rec # NoRec
        BY <3>1, <3>2 DEF Owning, Fits, Fit
      <4> QED BY <2>1, <3>2, <3>3, <3>5, <4>1
    <3> QED BY <3>4, <3>5
  <2>6. Silent'
    <3>1. \A u \in Task : Closed(u)' => Closed(u) /\ task'[u] = task[u]
      BY <1>1, <1>3, <2>1 DEF Closed
    <3> QED BY <2>1, <3>1 DEF Owning, Silent
  <2>7. Known'
    <3>1. SUFFICES ASSUME NEW r \in Rec, rec[r].loop PROVE r \in clash' \/ \E u \in Task : Ending(u, r)'
      BY <2>1 DEF Known
    <3>2. CASE recorder = r
      <4>1. CASE r = task[t].rec
        BY <2>1, <2>2, <3>1, <4>1 DEF Owning, Silent
      <4> QED BY <2>1, <3>2, <4>1, NullAssumption
    <3>3. CASE r \in clash
      BY <2>1, <3>3
    <3>4. CASE \E u \in Task : Ending(u, r)
      <4>1. PICK u \in Task : Ending(u, r)
        BY <3>4
      <4> QED BY <1>1, <1>5, <4>1 DEF Ending
    <3> QED BY <3>1, <3>2, <3>3, <3>4 DEF Owning, Known
  <2> QED BY <2>3, <2>4, <2>5, <2>6, <2>7 DEF Owning
<1>10. CASE LaunchQuery(t) /\ ~dbEnabled
  BY <1>6, <1>10 DEF LaunchQuery
<1> QED BY <1>7, <1>8, <1>9, <1>10

(***************************************************************************)
(* A launch installs its recorder, whichever the source has by then.       *)
(***************************************************************************)
LEMMA StartedStep ==
  ASSUME Owning, Typed, Typed', NEW t \in Task, Started(t)
  PROVE  Owning'
<1> USE DEF Typed, Objects, Placed
<1> DEFINE q == task[t].rec
<1>1. (\A u \in Task : u # t => task'[u] = task[u]) /\ registered' = registered
  BY Moves DEF Work, TaskStep
<1>2. Fit(t) /\ task[t] \in TaskState /\ task[t].pc = "open"
  BY DEF Owning, Fits, Started
<1>3. task[t].kind \in {"launch", "rotate"} /\ q \in Rec
  BY <1>2, TaskType, NullAssumption DEF Fit, TaskState, Stopper
<1>4. task'[t].pc = "create" /\ task'[t].kind = task[t].kind /\ task'[t].rec = q
  BY <1>2 DEF Started, Goto, TaskState
<1>5. \A r \in Rec : r # q => rec'[r] = rec[r]
  BY <1>3 DEF Started
<1>6. /\ task[t].kind = "launch" =>
           registered /\ recorder' = q /\ clash' = clash \cup ({recorder} \ {NoRec, q})
      /\ task[t].kind = "rotate" => UNCHANGED <<recorder, clash>>
  BY <1>2 DEF Started, Overridden, Fit
<1>7. Holds(t, q) /\ \A u \in Task : u # t /\ Holds(u, q) => q \in clash
  BY <1>2, <1>3 DEF Holds, Owning, Alone
<1>8. \A u \in Task : task'[u].pc # "create" => u # t /\ task'[u] = task[u]
  BY <1>1, <1>4
<1> HIDE DEF Typed, Objects, Placed
<1>9. clash \subseteq clash'
  BY <1>3, <1>6
<1>10. Fits'
  <2>1. Fit(t)'
    BY <1>1, <1>2, <1>3, <1>4, NullAssumption DEF Fit, Stopper
  <2> QED BY <1>1, <2>1 DEF Owning, Fits, Fit
<1>11. Alone'
  <2>1. \A r \in Rec, u \in Task : Holds(u, r)' => Holds(u, r)
    BY <1>8 DEF Holds
  <2> QED BY <1>9, <2>1 DEF Owning, Alone
<1>12. Stays'
  <2>1. SUFFICES ASSUME NEW u \in Task, task'[u].kind = "rotate", task'[u].pc \notin {"begin", "create"}
                 PROVE  task'[u].rec = recorder' \/ task'[u].rec \in clash'
    BY DEF Stays
  <2>2. task'[u] = task[u] /\ (task[u].rec = recorder \/ task[u].rec \in clash) /\ task[u].rec # NoRec
    BY <1>8, <2>1 DEF Owning, Stays, Fits, Fit
  <2> QED BY <1>3, <1>6, <1>9, <2>2
<1>13. Silent'
  <2>1. SUFFICES ASSUME NEW u \in Task, Closed(u)' PROVE ~rec'[task'[u].rec].loop \/ task'[u].rec \in clash'
    BY DEF Silent
  <2>2. u # t /\ task'[u] = task[u] /\ Closed(u)
    BY <1>8, <2>1 DEF Closed
  <2>3. task[u].rec \in Rec /\ Holds(u, task[u].rec)
    BY <2>2, NullAssumption DEF Closed, Owning, Fits, Fit, Typed, Placed, TaskState, Stopper, Holds
  <2> QED BY <1>5, <1>7, <1>9, <2>2, <2>3 DEF Owning, Silent
<1>14. Known'
  <2>1. SUFFICES ASSUME NEW r \in Rec, rec'[r].loop
                 PROVE  recorder' = r \/ r \in clash' \/ \E u \in Task : Ending(u, r)'
    BY DEF Known
  <2>2. CASE r = q
    <3>1. CASE task[t].kind = "rotate"
      BY <1>2, <1>6, <2>2, <3>1 DEF Owning, Stays
    <3> QED BY <1>3, <1>6, <2>2, <3>1
  <2>3. CASE r # q
    <3>1. rec[r].loop /\ r # NoRec
      BY <1>5, <2>1, <2>3, NullAssumption
    <3>2. CASE \E u \in Task : Ending(u, r)
      <4>1. PICK u \in Task : Ending(u, r)
        BY <3>2
      <4>2. u # t
        BY <1>2, <4>1 DEF Ending
      <4> QED BY <1>1, <4>1, <4>2 DEF Ending
    <3>3. CASE recorder = r
      BY <1>3, <1>6, <2>3, <3>1, <3>3
    <3> QED BY <1>9, <3>1, <3>2, <3>3 DEF Owning, Known
  <2> QED BY <2>2, <2>3
<1> QED BY <1>10, <1>11, <1>12, <1>13, <1>14 DEF Owning

(***************************************************************************)
(* A stop begins on its own recorder, a rotation on that of the source.    *)
(***************************************************************************)
LEMMA BeginStopStep ==
  ASSUME Owning, Typed, Typed', NEW t \in Task, BeginStop(t)
  PROVE  Owning'
<1> USE DEF Typed, Objects, Placed
<1>1. (\A u \in Task : u # t => task'[u] = task[u]) /\ registered' = registered
  BY Moves DEF Work, TaskStep
<1>2. Fit(t) /\ task[t] \in TaskState /\ task[t].pc = "begin" /\ task[t].kind \in Stopper \cup {"rotate"}
  BY DEF Owning, Fits, BeginStop, Stopper
<1>3. \A r \in Rec : rec'[r].loop = rec[r].loop
  <2>1. UNCHANGED rec \/ \E r : rec' = [rec EXCEPT ![r].stop = TRUE]
    BY DEF BeginStop
  <2> QED BY <2>1 DEF Recorder
<1>4. recorder' = recorder
  BY DEF BeginStop
<1>5. CASE task[t].kind \in Stopper
  <2>1. task[t].rec \in Rec /\ clash' = clash
    BY <1>2, <1>5 DEF Fit, TaskState, BeginStop, Stopper
  <2>2. task' = [task EXCEPT ![t].pc = "close", ![t].rec = task[t].rec]
    BY <1>5, <2>1, NullAssumption DEF BeginStop, Stopper
  <2>3. GoesOn(t, "close")
    BY <1>2, <2>2 DEF GoesOn, TaskState
  <2>4. Fit(t)' /\ ~Closed(t)' /\ \A r \in Rec : Ending(t, r) => Ending(t, r)'
    BY <1>1, <1>2, <1>5, <2>1, <2>3, NullAssumption DEF Fit, GoesOn, Stopper, Closed, Ending
  <2> QED BY <1>1, <1>2, <1>3, <1>4, <1>5, <2>1, <2>3, <2>4, Onward DEF Stopper, GoesOn
<1>6. CASE task[t].kind = "rotate" /\ recorder = NoRec
  <2>1. End(t) /\ clash' = clash
    BY <1>6, NullAssumption DEF BeginStop, AtOdds
  <2>2. task'[t] = NoTask /\ \A r \in Rec : ~Ending(t, r)
    BY <1>6, <2>1 DEF End, Ending, Stopper
  <2>3. Fit(t)' /\ ~Closed(t)'
    BY <2>2, TaskType DEF Fit, Closed, Stopper
  <2> QED BY <1>1, <1>2, <1>3, <1>4, <2>1, <2>2, <2>3, Onward
<1>7. CASE task[t].kind = "rotate" /\ recorder # NoRec
  <2>1. recorder \in Rec /\ clash' = clash \cup AtOdds(recorder)
    BY <1>7 DEF BeginStop
  <2>2. task' = [task EXCEPT ![t].pc = "close", ![t].rec = recorder]
    BY <1>7 DEF BeginStop
  <2>3. task'[t].kind = "rotate" /\ task'[t].pc = "close" /\ task'[t].rec = recorder
    BY <1>2, <1>7, <2>2 DEF TaskState
  <2>4. \A u \in Task : Holds(u, recorder) => recorder \in clash'
    BY <2>1 DEF AtOdds, Holds
  <2>5. \A r \in Rec : ~Ending(t, r)
    BY <1>7 DEF Ending, Stopper
  <2> HIDE DEF Typed, Objects, Placed
  <2>6. Fits'
    <3>1. Fit(t)'
      BY <1>1, <2>1, <2>3, NullAssumption DEF Fit, Stopper
    <3> QED BY <1>1, <3>1 DEF Owning, Fits, Fit
  <2>7. Alone'
    <3>1. \A r \in Rec, u \in Task : Holds(u, r)' => Holds(u, r) \/ (u = t /\ r = recorder)
      BY <1>1, <2>3 DEF Holds
    <3> QED BY <2>1, <2>4, <3>1 DEF Owning, Alone
  <2>8. Stays'
    BY <1>1, <1>4, <2>1, <2>3 DEF Owning, Stays
  <2>9. Silent'
    <3>1. \A u \in Task : Closed(u)' => Closed(u) /\ task'[u] = task[u]
      BY <1>1, <2>3 DEF Closed
    <3>2. \A u \in Task : Closed(u) => task[u].rec \in Rec
      BY NullAssumption DEF Closed, Owning, Fits, Fit, Typed, Placed, TaskState, Stopper
    <3> QED BY <1>3, <2>1, <3>1, <3>2 DEF Owning, Silent
  <2>10. Known'
    <3>1. \A r \in Rec, u \in Task : Ending(u, r) => Ending(u, r)'
      BY <1>1, <2>5 DEF Ending
    <3> QED BY <1>3, <1>4, <2>1, <3>1 DEF Owning, Known
  <2> QED BY <2>6, <2>7, <2>8, <2>9, <2>10 DEF Owning
<1> QED BY <1>2, <1>5, <1>6, <1>7

-----------------------------------------------------------------------------
(* Timers, requests and the world                                          *)

(***************************************************************************)
(* A thread that is not running holds nothing.                             *)
(***************************************************************************)
LEMMA FreeHolds ==
  ASSUME Owning, NEW t \in FreeTasks
  PROVE  /\ t \in Task /\ task[t] = NoTask /\ ~Closed(t)
         /\ \A r \in Rec : ~Holds(t, r) /\ ~Ending(t, r)
  BY TaskType, NullAssumption DEF FreeTasks, Owning, Fits, Fit, Closed, Holds, Ending, Stopper

(***************************************************************************)
(* A thread that begins without a recorder.                                *)
(***************************************************************************)
LEMMA Began ==
  ASSUME Owning, Typed, NEW t \in FreeTasks,
         registered => registered',
         UNCHANGED <<recorder, rec, clash>>,
         \A u \in Task : u # t => task'[u] = task[u],
         \/ registered' /\ task'[t] = [NoTask EXCEPT !.kind = "launch", !.pc = "query"]
         \/ task'[t] = [NoTask EXCEPT !.kind = "rotate"]
  PROVE  Owning'
<1>1. /\ task'[t].rec = NoRec
      /\ \/ registered' /\ task'[t].kind = "launch" /\ task'[t].pc = "query"
         \/ task'[t].kind = "rotate" /\ task'[t].pc = "begin"
  BY DEF NoTask
<1>2. Fit(t)' /\ ~Closed(t)' /\ \A r \in Rec : ~Holds(t, r)'
  BY <1>1, NullAssumption DEF Fit, Closed, Holds, Stopper
<1>3. \A u \in Task : u # t => /\ Fit(u) => Fit(u)'
                               /\ Closed(u)' <=> Closed(u)
                               /\ \A r \in Rec : (Holds(u, r)' <=> Holds(u, r)) /\ (Ending(u, r)' <=> Ending(u, r))
  BY DEF Fit, Closed, Holds, Ending
<1>4. Fits' /\ Alone'
  BY <1>2, <1>3 DEF Owning, Fits, Alone
<1>5. Stays' /\ Silent'
  BY <1>1, <1>2, <1>3 DEF Owning, Stays, Silent
<1>6. Known'
  BY <1>3, FreeHolds DEF Owning, Known
<1> QED BY <1>4, <1>5, <1>6 DEF Owning

(***************************************************************************)
(* A stop or a discard of the source's recorder begins, the source is left *)
(* without, and a launch may begin with it.                                *)
(***************************************************************************)
LEMMA Dropped ==
  ASSUME Owning, Typed, recorder # NoRec, NEW t \in FreeTasks, NEW k \in Stopper,
         UNCHANGED <<registered, rec>>, recorder' = NoRec,
         clash' = clash \cup AtOdds(recorder),
         task'[t] = [NoTask EXCEPT !.kind = k, !.rec = recorder],
         \A u \in Task : u # t => \/ task'[u] = task[u]
                                  \/ /\ u \in FreeTasks /\ registered
                                     /\ task'[u] = [NoTask EXCEPT !.kind = "launch", !.pc = "query"]
  PROVE  Owning'
<1>1. recorder \in Rec /\ clash \subseteq clash'
  BY DEF Typed, Objects
<1>2. task'[t].rec = recorder /\ task'[t].kind = k /\ task'[t].pc = "begin"
  BY DEF NoTask
<1>3. Fit(t)' /\ ~Closed(t)'
  BY <1>1, <1>2, NullAssumption DEF Fit, Closed, Ending, Stopper
<1>4. \A u \in Task : u # t => /\ Fit(u)'
                               /\ Closed(u)' => Closed(u) /\ task'[u] = task[u]
                               /\ task'[u].kind = "rotate" => task'[u] = task[u]
                               /\ \A r \in Rec : (Holds(u, r)' => Holds(u, r)) /\ (Ending(u, r) => Ending(u, r)')
  <2>1. SUFFICES ASSUME NEW u \in Task, u # t
                 PROVE  /\ Fit(u)'
                        /\ Closed(u)' => Closed(u) /\ task'[u] = task[u]
                        /\ task'[u].kind = "rotate" => task'[u] = task[u]
                        /\ \A r \in Rec : (Holds(u, r)' => Holds(u, r)) /\ (Ending(u, r) => Ending(u, r)')
    OBVIOUS
  <2>2. CASE task'[u] = task[u]
    BY <2>2 DEF Owning, Fits, Fit, Closed, Holds, Ending
  <2>3. CASE u \in FreeTasks /\ registered /\ task'[u] = [NoTask EXCEPT !.kind = "launch", !.pc = "query"]
    <3>1. task'[u].kind = "launch" /\ task'[u].pc = "query" /\ task'[u].rec = NoRec
      BY <2>3 DEF NoTask
    <3> QED BY <2>3, <3>1, FreeHolds, NullAssumption DEF Fit, Closed, Holds, Stopper
  <2> QED BY <2>1, <2>2, <2>3
<1>5. \A u \in Task : Holds(u, recorder) => recorder \in clash'
  BY <1>1 DEF AtOdds, Holds
<1>6. Fits'
  BY <1>3, <1>4 DEF Fits
<1>7. Alone'
  <2>1. \A r \in Rec, u \in Task : Holds(u, r)' => Holds(u, r) \/ (u = t /\ r = recorder)
    BY <1>2, <1>4 DEF Holds
  <2> QED BY <1>1, <1>5, <2>1 DEF Owning, Alone
<1>8. Stays'
  <2>1. SUFFICES ASSUME NEW u \in Task, task'[u].kind = "rotate", task'[u].pc \notin {"begin", "create"}
                 PROVE  task'[u].rec \in clash'
    BY DEF Stays
  <2>2. u # t /\ task'[u] = task[u]
    BY <1>2, <1>4, <2>1 DEF Stopper
  <2>3. task[u].rec = recorder \/ task[u].rec \in clash
    BY <2>1, <2>2 DEF Owning, Stays
  <2> QED BY <1>1, <1>5, <2>1, <2>2, <2>3 DEF Holds
<1>9. Silent'
  BY <1>1, <1>3, <1>4 DEF Owning, Silent
<1>10. Known'
  <2>1. SUFFICES ASSUME NEW r \in Rec, rec[r].loop PROVE r \in clash' \/ \E u \in Task : Ending(u, r)'
    BY DEF Known
  <2>2. CASE \E u \in Task : Ending(u, r)
    <3>1. PICK u \in Task : Ending(u, r)
      BY <2>2
    <3>2. u # t
      BY <3>1, FreeHolds
    <3> QED BY <1>4, <3>1, <3>2
  <2>3. CASE recorder = r
    <3>1. Ending(t, r)'
      BY <1>2, <2>3 DEF Ending, Stopper
    <3> QED BY <3>1, FreeHolds
  <2> QED BY <1>1, <2>1, <2>2, <2>3 DEF Owning, Known
<1> QED BY <1>6, <1>7, <1>8, <1>9, <1>10 DEF Owning

(***************************************************************************)
(* Without a recorder to drop, nothing is at odds.                         *)
(***************************************************************************)
LEMMA NothingDropped == AtOdds(NoRec) = {}
  BY NullAssumption DEF AtOdds

(***************************************************************************)
(* A timer or a request leaves every recorder with its owner.              *)
(***************************************************************************)
LEMMA SpawnStep ==
  ASSUME Owning, Typed, NEW t \in Task, Spawn(t)
  PROVE  Owning'
<1> USE DEF Typed, Objects, Placed
<1>1. t \in FreeTasks
  <2>1. CASE PatchDisable(t)
    BY <2>1 DEF PatchDisable
  <2> QED BY <2>1 DEF Spawn, Rescan, RotateAll, WatchdogReconnect, PatchEnable
<1>2. CASE Rescan(t) \/ PatchEnable(t)
  <2>1. registered' /\ UNCHANGED <<recorder, rec, clash>> /\ task' = Launching(t)
    BY <1>2 DEF Rescan, PatchEnable
  <2>2. /\ task'[t] = [NoTask EXCEPT !.kind = "launch", !.pc = "query"]
        /\ \A u \in Task : u # t => task'[u] = task[u]
    BY <2>1 DEF Launching
  <2> QED BY <1>1, <2>1, <2>2, Began
<1>3. CASE RotateAll(t)
  <2>1. /\ registered' = registered /\ UNCHANGED <<recorder, rec, clash>>
        /\ task' = [task EXCEPT ![t] = [NoTask EXCEPT !.kind = "rotate"]]
    BY <1>3 DEF RotateAll
  <2>2. /\ task'[t] = [NoTask EXCEPT !.kind = "rotate"]
        /\ \A u \in Task : u # t => task'[u] = task[u]
    BY <2>1
  <2> QED BY <1>1, <2>1, <2>2, Began
<1>4. CASE WatchdogReconnect(t)
  <2>1. registered /\ UNCHANGED <<registered, rec>> /\ recorder' = NoRec /\ clash' = clash \cup AtOdds(recorder)
    BY <1>4 DEF WatchdogReconnect
  <2>2. CASE recorder = NoRec
    <3>1. task' = Launching(t)
      BY <1>4, <2>2 DEF WatchdogReconnect
    <3>2. /\ task'[t] = [NoTask EXCEPT !.kind = "launch", !.pc = "query"]
          /\ \A u \in Task : u # t => task'[u] = task[u]
      BY <3>1 DEF Launching
    <3> QED BY <1>1, <2>1, <2>2, <3>2, NothingDropped, Began
  <2>3. CASE recorder # NoRec
    <3>1. PICK u \in FreeTasks \ {t} :
             task' = [Launching(t) EXCEPT ![u] = [NoTask EXCEPT !.kind = "discard", !.rec = recorder]]
      BY <1>4, <2>3 DEF WatchdogReconnect
    <3>2. u \in Task /\ u \in FreeTasks
      BY <3>1 DEF FreeTasks
    <3>3. /\ task'[u] = [NoTask EXCEPT !.kind = "discard", !.rec = recorder]
          /\ \A v \in Task : v # u => \/ task'[v] = task[v]
                                      \/ /\ v = t
                                         /\ task'[v] = [NoTask EXCEPT !.kind = "launch", !.pc = "query"]
      BY <3>1, <3>2 DEF Launching
    <3> QED BY <1>1, <2>1, <2>3, <3>2, <3>3, Dropped DEF Stopper
  <2> QED BY <2>2, <2>3
<1>5. CASE PatchDisable(t)
  <2>1. /\ UNCHANGED <<registered, rec>> /\ recorder' = NoRec /\ clash' = clash \cup AtOdds(recorder)
        /\ task' = StopOwn(t)
    BY <1>5 DEF PatchDisable
  <2>2. CASE recorder = NoRec
    <3>1. UNCHANGED <<registered, rec, recorder, clash, task>>
      BY <2>1, <2>2, NothingDropped DEF StopOwn
    <3> QED BY <3>1 DEF Owning, Fits, Fit, Alone, Holds, Stays, Silent, Closed, Known, Ending
  <2>3. CASE recorder # NoRec
    <3>1. /\ task'[t] = [NoTask EXCEPT !.kind = "stop", !.rec = recorder]
          /\ \A u \in Task : u # t => task'[u] = task[u]
      BY <2>1, <2>3 DEF StopOwn, Stopping
    <3> QED BY <1>1, <2>1, <2>3, <3>1, Dropped DEF Stopper
  <2> QED BY <2>2, <2>3
<1> QED BY <1>2, <1>3, <1>4, <1>5 DEF Spawn

(***************************************************************************)
(* The world only ends receive loops; a restart ends everything.           *)
(***************************************************************************)
LEMMA WorldStep ==
  ASSUME Owning, Typed, World \/ Restart
  PROVE  Owning'
<1>1. CASE World
  <2>1. UNCHANGED <<task, registered, recorder, clash>>
    BY <1>1 DEF World, WatchdogQuiet, PatchCommit, PatchReject, GoOffline, GoOnline, StreamLost, PipeBreaks
  <2>2. \A r \in Rec : rec'[r].loop => rec[r].loop
    <3>1. CASE UNCHANGED rec
      BY <3>1
    <3>2. ASSUME NEW q \in Rec, StreamLost(q) \/ PipeBreaks(q) PROVE \A r \in Rec : rec'[r].loop => rec[r].loop
      BY <3>2 DEF StreamLost, PipeBreaks, Typed, Objects, Recorder
    <3> QED BY <1>1, <3>1, <3>2 DEF World, WatchdogQuiet, PatchCommit, PatchReject, GoOffline, GoOnline
  <2>3. \A t \in Task : Closed(t) => task[t].rec \in Rec
    BY NullAssumption DEF Closed, Owning, Fits, Fit, Typed, Placed, TaskState, Stopper
  <2>4. Fits' /\ Alone' /\ Stays'
    BY <2>1 DEF Owning, Fits, Fit, Alone, Holds, Stays
  <2>5. Silent' /\ Known'
    BY <2>1, <2>2, <2>3 DEF Owning, Silent, Closed, Known, Ending
  <2> QED BY <2>4, <2>5 DEF Owning
<1>2. CASE Restart
  <2>1. (\A t \in Task : task'[t] = NoTask) /\ (\A r \in Rec : ~rec'[r].loop)
    BY <1>2, RecorderType DEF Restart
  <2>2. Fits' /\ Stays' /\ Silent'
    BY <2>1, TaskType DEF Fits, Fit, Stays, Silent, Closed, Stopper
  <2>3. Alone' /\ Known'
    BY <2>1, TaskType, NullAssumption DEF Alone, Holds, Known
  <2> QED BY <2>2, <2>3 DEF Owning
<1> QED BY <1>1, <1>2

(***************************************************************************)
(* Every step leaves every recorder with its owner.                        *)
(***************************************************************************)
LEMMA OwningStep == Owning /\ Typed /\ Typed' /\ [Next]_vars => Owning'
<1> SUFFICES ASSUME Owning, Typed, Typed', [Next]_vars PROVE Owning'
  OBVIOUS
<1>1. CASE UNCHANGED vars
  BY <1>1 DEF Owning, Fits, Fit, Alone, Holds, Stays, Silent, Closed, Known, Ending
<1>2. ASSUME NEW t \in Task, Work(t) PROVE Owning'
  <2>1. CASE LaunchQuery(t) \/ RotateQuery(t)
    BY <2>1, QuerySteps
  <2>2. CASE Started(t) \/ BeginStop(t)
    BY <2>2, StartedStep, BeginStopStep
  <2>3. CASE \/ Probe(t) \/ OpenTimeout(t) \/ Create(t) \/ CloseFifos(t) \/ FFmpegExits(t)
             \/ HandBack(t) \/ Finalize(t) \/ DatabaseFails(t)
    BY <2>3, EasySteps
  <2> QED BY <1>2, <2>1, <2>2, <2>3 DEF Work, TaskStep
<1> QED BY <1>1, <1>2, SpawnStep, WorldStep, Actors

(***************************************************************************)
(* The manager owns its recorders: whatever timers, requests, threads,     *)
(* failures and restarts interleave, a recorder that captures is the       *)
(* source's own or about to be stopped, unless two threads were at odds    *)
(* about it.                                                               *)
(***************************************************************************)
THEOREM RecordersOwned == Spec => []OwnsUnlessClash
<1>1. Owning => OwnsUnlessClash
  BY DEF Owning, Known, Ending, Stopper, OwnsUnlessClash, Leaving, Capturing
<1>2. Spec => [](Typed /\ Owning)
  BY TypedInit, TypedStep, OwningInit, OwningStep, PTL DEF Spec
<1> QED BY <1>1, <1>2, PTL

-----------------------------------------------------------------------------
(* What FFmpeg writes when a chunk is handed over                          *)

\* A thread that waits for FFmpeg waits for that of its recorder; one that is
\* past the wait has seen it exit.
Wired(t) == task[t].rec \notin clash =>
    /\ task[t].pc = "wait" => rec[task[t].rec].ffmpeg = task[t].path
    /\ task[t].pc = "probe" => rec[task[t].rec].path = task[t].path
    /\ task[t].pc = "teardown" => rec[task[t].rec].ffmpeg = NoPath
    /\ task[t].pc = "finalize" => proc[task[t].path] # "running"

\* The FFmpeg that writes a recorder's path is the one the recorder would stop.
Feeding(r) == rec[r].path # NoPath /\ proc[rec[r].path] = "running" => rec[r].ffmpeg = rec[r].path
Feed       == \A r \in Rec : Live(r) /\ r \notin clash => Feeding(r)

\* The path of a chunk to be probed is no other recorder's, nor about to be
\* finalized.
Apart(t) == task[t].pc = "probe" =>
    /\ task[t].path # NoPath
    /\ \A r \in Rec : Live(r) /\ rec[r].path = task[t].path => r = task[t].rec
    /\ \A u \in Task : Finalizing(u) /\ task[u].path = task[t].path => task[u].rec \in clash

Wiring == (\A t \in Task : Wired(t)) /\ Feed /\ \A t \in Task : Apart(t)

Bound == {"wait", "probe", "teardown", "finalize"}

(***************************************************************************)
(* Nothing is wired at first.                                              *)
(***************************************************************************)
LEMMA WiringInit == Init => Wiring
<1> SUFFICES ASSUME Init PROVE Wiring
  OBVIOUS
<1>1. (\A t \in Task : task[t].pc = "begin") /\ \A r \in Rec : rec[r].path = NoPath
  BY TaskType, RecorderType DEF Init
<1> QED BY <1>1 DEF Wiring, Wired, Feed, Feeding, Apart

(***************************************************************************)
(* A step that starts no FFmpeg, hands no path over and leaves every       *)
(* recorder its path and its FFmpeg.                                       *)
(***************************************************************************)
LEMMA Still ==
  ASSUME Wiring, Custody, Typed, clash \subseteq clash',
         \A r \in Rec : Live(r)' => Live(r),
         \A r \in Rec : rec'[r].path = rec[r].path /\ rec'[r].ffmpeg = rec[r].ffmpeg,
         \A p \in Path : proc'[p] = "running" => proc[p] = "running",
         \A t \in Task : task'[t].pc \in Bound =>
            \/ task'[t] = task[t]
            \/ Wired(t)' /\ task'[t].pc \in {"wait", "teardown"},
         \A t \in Task : task[t].pc \in {"wait", "probe", "teardown"} => task[t].rec \in Rec
  PROVE  Wiring'
<1> USE DEF Bound
<1>1. ASSUME NEW t \in Task PROVE Wired(t)'
  <2>1. CASE task'[t] = task[t] /\ task[t].pc \in Bound
    <3>1. Finalizing(t) => task[t].path \in Path
      BY DEF Custody, Given
    <3> QED BY <2>1, <3>1 DEF Wiring, Wired, Finalizing
  <2>2. CASE task'[t].pc \notin Bound
    BY <2>2 DEF Wired
  <2> QED BY <2>1, <2>2
<1>2. Feed'
  <2>1. \A r \in Rec : rec[r].path \in Path \cup {NoPath}
    BY DEF Typed, Objects, Recorder
  <2> QED BY <2>1 DEF Wiring, Feed, Feeding
<1>3. ASSUME NEW t \in Task PROVE Apart(t)'
  <2>1. \A u \in Task : task'[u].pc \in {"probe", "finalize"} => task'[u] = task[u]
    OBVIOUS
  <2> QED BY <2>1 DEF Wiring, Apart, Finalizing
<1> QED BY <1>1, <1>2, <1>3 DEF Wiring

(***************************************************************************)
(* Threads that use a recorder have one.                                   *)
(***************************************************************************)
LEMMA Users ==
  ASSUME Owning, Typed
  PROVE  \A t \in Task : task[t].pc \notin {"begin", "query"} => task[t].rec \in Rec /\ task[t].kind # "none"
  BY TaskType, NullAssumption DEF Owning, Fits, Fit, Typed, Placed, TaskState, Stopper

(***************************************************************************)
(* A thread's step refers to no recorder that nothing referred to, unless  *)
(* it begins a chunk.                                                      *)
(***************************************************************************)
LEMMA LiveOn ==
  ASSUME Owning, Typed, NEW t \in Task,
         \/ Probe(t) \/ Started(t) \/ OpenTimeout(t) \/ Create(t)
         \/ BeginStop(t) \/ CloseFifos(t) \/ FFmpegExits(t) \/ HandBack(t)
         \/ Finalize(t) \/ DatabaseFails(t)
         \/ (LaunchQuery(t) \/ RotateQuery(t)) /\ ~dbEnabled
  PROVE  \A r \in Rec : Live(r)' => Live(r)
<1> USE DEF Typed, Objects, Placed
<1>1. \A u \in Task : u # t => task'[u] = task[u]
  BY Moves DEF Work, TaskStep
<1>2. task'[t].rec \in {task[t].rec, recorder, NoRec}
  <2>1. CASE End(t)
    BY <2>1, TaskType DEF End
  <2>2. CASE \E pc : Goto(t, pc)
    BY <2>2 DEF Goto, TaskState
  <2>3. CASE (LaunchQuery(t) \/ RotateQuery(t)) /\ ~dbEnabled
    BY <2>1, <2>3 DEF LaunchQuery, RotateQuery
  <2>4. CASE Probe(t) \/ Started(t) \/ Create(t) \/ OpenTimeout(t) \/ DatabaseFails(t) \/ FFmpegExits(t)
    BY <2>1, <2>2, <2>4 DEF Probe, Started, Create, OpenTimeout, DatabaseFails, FFmpegExits
  <2>5. CASE BeginStop(t)
    BY <2>1, <2>5 DEF BeginStop, TaskState
  <2>6. CASE CloseFifos(t)
    BY <2>6 DEF CloseFifos, TaskState
  <2>7. CASE HandBack(t)
    <3>1. \/ End(t)
          \/ \E pc, q : task' = [task EXCEPT ![t].pc = pc, ![t].path = q]
      BY <2>7 DEF HandBack, Holding
    <3> QED BY <2>1, <3>1, ZenonT(60) DEF TaskState
  <2>8. CASE Finalize(t)
    BY <2>1, <2>8 DEF Finalize, TaskState
  <2> QED BY <2>3, <2>4, <2>5, <2>6, <2>7, <2>8
<1>3. recorder' \in {recorder, task[t].rec, NoRec}
  <2>1. CASE RotateQuery(t)
    BY <2>1 DEF RotateQuery
  <2>2. CASE ~RotateQuery(t)
    BY <2>2 DEF Probe, Started, OpenTimeout, DatabaseFails, Create, BeginStop, CloseFifos,
                FFmpegExits, HandBack, Finalize, LaunchQuery
  <2> QED BY <2>1, <2>2
<1>4. \A r \in Rec : rec'[r].loop => rec[r].loop \/ r = task[t].rec
  <2>1. CASE Probe(t) \/ OpenTimeout(t)
    BY <2>1 DEF Probe, OpenTimeout, Recorder
  <2>2. CASE CloseFifos(t)
    BY <2>2 DEF CloseFifos, Recorder
  <2>3. CASE FFmpegExits(t)
    <3>1. UNCHANGED rec \/ rec' = [rec EXCEPT ![task[t].rec].ffmpeg = NoPath]
      BY <2>3 DEF FFmpegExits
    <3> QED BY <3>1 DEF Recorder
  <2>4. CASE HandBack(t)
    BY <2>4 DEF HandBack, Released, Recorder
  <2>5. CASE Create(t) \/ Finalize(t) \/ DatabaseFails(t)
    BY <2>5 DEF Create, Finalize, DatabaseFails
  <2>6. CASE (LaunchQuery(t) \/ RotateQuery(t)) /\ ~dbEnabled
    BY <2>6 DEF LaunchQuery, RotateQuery
  <2>7. CASE Started(t)
    BY <2>7 DEF Started
  <2>8. CASE BeginStop(t)
    <3>1. UNCHANGED rec \/ \E r : rec' = [rec EXCEPT ![r].stop = TRUE]
      BY <2>8 DEF BeginStop
    <3> QED BY <3>1 DEF Recorder
  <2> QED BY <2>1, <2>2, <2>3, <2>4, <2>5, <2>6, <2>7, <2>8
<1> QED BY <1>1, <1>2, <1>3, <1>4, NullAssumption DEF Live

(***************************************************************************)
(* The thread's steps that start no FFmpeg and end none.                   *)
(***************************************************************************)
LEMMA StillThread ==
  ASSUME Wiring, Owning, Custody, Typed, Typed', NEW t \in Task,
         \/ Probe(t) /\ ~Found
         \/ Started(t) \/ OpenTimeout(t) \/ Create(t) \/ BeginStop(t) \/ CloseFifos(t)
         \/ Finalize(t) \/ DatabaseFails(t)
         \/ (LaunchQuery(t) \/ RotateQuery(t)) /\ ~dbEnabled
  PROVE  Wiring'
<1> USE DEF Typed, Objects, Placed
<1>1. \A u \in Task : u # t => task'[u] = task[u]
  BY Moves DEF Work, TaskStep
<1>2. clash \subseteq clash'
  BY DEF Probe, Started, OpenTimeout, Create, BeginStop, CloseFifos, Finalize, DatabaseFails, LaunchQuery, RotateQuery
<1>3. UNCHANGED proc
  BY DEF Probe, Started, OpenTimeout, Create, BeginStop, CloseFifos, Finalize, DatabaseFails, LaunchQuery, RotateQuery
<1>4. \A r \in Rec : rec'[r].path = rec[r].path /\ rec'[r].ffmpeg = rec[r].ffmpeg
  <2>1. CASE Probe(t) /\ ~Found
    <3>1. rec' = [rec EXCEPT ![task[t].rec].status = "error"]
      BY <2>1 DEF Probe
    <3> QED BY <3>1 DEF Recorder
  <2>2. CASE CloseFifos(t)
    BY <2>2 DEF CloseFifos, Recorder
  <2>3. CASE Create(t) \/ Finalize(t) \/ DatabaseFails(t)
    BY <2>3 DEF Create, Finalize, DatabaseFails
  <2>4. CASE Started(t)
    BY <2>4 DEF Started, Recorder
  <2>5. CASE BeginStop(t)
    <3>1. UNCHANGED rec \/ \E r : rec' = [rec EXCEPT ![r].stop = TRUE]
      BY <2>5 DEF BeginStop
    <3> QED BY <3>1 DEF Recorder
  <2>6. CASE OpenTimeout(t)
    <3>1. rec' = [rec EXCEPT ![task[t].rec].status = "error"]
      BY <2>6 DEF OpenTimeout
    <3> QED BY <3>1 DEF Recorder
  <2>7. CASE (LaunchQuery(t) \/ RotateQuery(t)) /\ ~dbEnabled
    BY <2>7 DEF LaunchQuery, RotateQuery
  <2> QED BY <2>1, <2>2, <2>3, <2>4, <2>5, <2>6, <2>7
<1>5. \A r \in Rec : Live(r)' => Live(r)
  BY LiveOn
<1>6. task'[t].pc \in Bound => Wired(t)' /\ task'[t].pc \in {"wait", "teardown"}
  <2>1. CASE End(t)
    BY <2>1, TaskType DEF End, Bound
  <2>2. CASE Started(t) \/ BeginStop(t)
    BY <2>2, TaskType DEF Started, Goto, BeginStop, End, TaskState, Bound
  <2>3. CASE Finalize(t)
    BY <2>1, <2>3 DEF Finalize, TaskState, Bound
  <2>4. CASE CloseFifos(t)
    <3> DEFINE r == task[t].rec
    <3>1. /\ task'[t].pc = AfterClose(r) /\ task'[t].path = rec[r].ffmpeg /\ task'[t].rec = r
          /\ r \in Rec
      BY <2>4 DEF CloseFifos, TaskState, Holding
    <3>2. rec'[r].ffmpeg = rec[r].ffmpeg
      BY <1>4, <3>1
    <3> QED BY <3>1, <3>2 DEF AfterClose, Wired
  <2> QED BY <2>1, <2>2, <2>3, <2>4 DEF Probe, OpenTimeout, Create, DatabaseFails, LaunchQuery, RotateQuery
<1> QED BY <1>1, <1>2, <1>3, <1>4, <1>5, <1>6, Users, Still

(***************************************************************************)
(* FFmpeg is spawned for the path of its recorder alone.                   *)
(***************************************************************************)
LEMMA SpawnedWiring ==
  ASSUME Wiring, Owning, Custody, Typed, Typed', NEW t \in Task, Probe(t), Found
  PROVE  Wiring'
<1> USE DEF Typed, Objects, Placed
<1> DEFINE q == task[t].rec
           p == task[t].path
<1>1. \A u \in Task : u # t => task'[u] = task[u]
  BY Moves DEF Work, TaskStep
<1>2. /\ task[t].pc = "probe" /\ task'[t].pc = "open" /\ q \in Rec /\ clash' = clash
      /\ rec' = [rec EXCEPT ![q].ffmpeg = p] /\ proc' = [proc EXCEPT ![p] = "running"]
  BY Users DEF Probe, Goto, TaskState
<1>3. \A r \in Rec : rec'[r].path = rec[r].path /\ rec'[r].ffmpeg = IF r = q THEN p ELSE rec[r].ffmpeg
  BY <1>2 DEF Recorder
<1>4. \A r \in Rec : Live(r)' => Live(r)
  BY LiveOn
<1>5. Holds(t, q) /\ Live(q)
  BY <1>2 DEF Holds, Live
<1> HIDE DEF Typed, Objects, Placed
<1>6. \A u \in Task : task'[u].pc \in Bound => u # t /\ task'[u] = task[u]
  BY <1>1, <1>2 DEF Bound
<1>7. ASSUME NEW u \in Task PROVE Wired(u)'
  <2>1. SUFFICES ASSUME task'[u].pc \in Bound, task'[u].rec \notin clash' PROVE Wired(u)'
    BY DEF Wired, Bound
  <2>2. u # t /\ task'[u] = task[u] /\ task[u].rec \notin clash
    BY <1>2, <1>6, <2>1
  <2>3. task[u].rec # q /\ task[u].rec \in Rec
    BY <1>2, <1>5, <2>1, <2>2, Users DEF Holds, Bound, Owning, Alone
  <2>4. Finalizing(u) => task[u].path \in Path /\ task[u].path # p
    BY <1>2, <2>2 DEF Custody, Given, Wiring, Apart
  <2>5. Finalizing(u) => proc'[task[u].path] = proc[task[u].path]
    BY <1>2, <2>4 DEF Typed, Objects
  <2> QED BY <1>3, <2>2, <2>3, <2>5 DEF Wiring, Wired, Finalizing
<1>8. Feed'
  <2>1. SUFFICES ASSUME NEW r \in Rec, Live(r)', r \notin clash' PROVE Feeding(r)'
    BY DEF Feed
  <2>2. Live(r) /\ r \notin clash
    BY <1>2, <1>4, <2>1
  <2>3. CASE r = q
    <3>1. rec[q].path = p
      BY <1>2, <2>2, <2>3 DEF Wiring, Wired
    <3> QED BY <1>3, <2>3, <3>1 DEF Feeding
  <2>4. CASE r # q
    <3>1. rec[r].path # p
      BY <1>2, <2>2, <2>4 DEF Wiring, Apart
    <3>2. rec[r].path # NoPath => proc'[rec[r].path] = proc[rec[r].path]
      BY <1>2, <3>1 DEF Typed, Objects, Recorder
    <3> QED BY <1>3, <2>2, <2>4, <3>2 DEF Wiring, Feed, Feeding
  <2> QED BY <2>3, <2>4
<1>9. ASSUME NEW u \in Task PROVE Apart(u)'
  <2>1. \A v \in Task : task'[v].pc \in {"probe", "finalize"} => v # t /\ task'[v] = task[v]
    BY <1>6 DEF Bound
  <2> QED BY <1>2, <1>3, <1>4, <2>1 DEF Wiring, Apart, Finalizing
<1> QED BY <1>7, <1>8, <1>9 DEF Wiring

(***************************************************************************)
(* FFmpeg exits, and its recorder lets go of it.                           *)
(***************************************************************************)
LEMMA ExitedWiring ==
  ASSUME Wiring, Owning, Custody, Typed, Typed', NEW t \in Task, FFmpegExits(t)
  PROVE  Wiring'
<1> USE DEF Typed, Objects, Placed
<1> DEFINE q == task[t].rec
           p == task[t].path
<1>1. \A u \in Task : u # t => task'[u] = task[u]
  BY Moves DEF Work, TaskStep
<1>2. /\ task[t].pc = "wait" /\ q \in Rec /\ clash' = clash
      /\ proc' = [proc EXCEPT ![p] = "exited"]
  BY Users DEF FFmpegExits
<1>3. \/ task'[t] = NoTask
      \/ task'[t].pc = "teardown" /\ task'[t].rec = q /\ rec'[q].ffmpeg = NoPath
  <2>1. CASE rec[q].ffmpeg = NoPath
    BY <2>1 DEF FFmpegExits, End
  <2>2. CASE rec[q].ffmpeg # NoPath
    <3>1. Goto(t, "teardown") /\ rec' = [rec EXCEPT ![q].ffmpeg = NoPath]
      BY <2>2 DEF FFmpegExits
    <3> QED BY <1>2, <3>1 DEF Goto, TaskState, Recorder
  <2> QED BY <2>1, <2>2
<1>4. \A r \in Rec : rec'[r].path = rec[r].path /\ (r # q => rec'[r].ffmpeg = rec[r].ffmpeg)
  <2>1. UNCHANGED rec \/ rec' = [rec EXCEPT ![q].ffmpeg = NoPath]
    BY DEF FFmpegExits
  <2> QED BY <1>2, <2>1 DEF Recorder
<1>5. \A r \in Rec : Live(r)' => Live(r)
  BY LiveOn
<1>6. Holds(t, q) /\ Live(q)
  BY <1>2 DEF Holds, Live
<1>7. \A s \in Path : proc'[s] = IF s = p THEN "exited" ELSE proc[s]
  BY <1>2
<1> HIDE DEF Typed, Objects, Placed
<1>8. \A u \in Task : u # t /\ task[u].rec = q /\ task[u].pc # "create" => q \in clash
  BY <1>2, <1>6 DEF Holds, Owning, Alone
<1>9. ASSUME NEW u \in Task PROVE Wired(u)'
  <2>1. SUFFICES ASSUME task'[u].pc \in Bound, task'[u].rec \notin clash' PROVE Wired(u)'
    BY DEF Wired, Bound
  <2>2. CASE u = t
    BY <1>3, <2>1, <2>2, TaskType DEF Wired, Bound
  <2>3. CASE u # t
    <3>1. task'[u] = task[u] /\ task[u].rec \notin clash /\ task[u].rec \in Rec
      BY <1>1, <1>2, <2>1, <2>3, Users DEF Bound
    <3>2. task[u].rec # q
      BY <1>8, <2>1, <2>3, <3>1 DEF Bound
    <3>3. Finalizing(u) => task[u].path \in Path
      BY DEF Custody, Given
    <3> QED BY <1>4, <1>7, <3>1, <3>2, <3>3 DEF Wiring, Wired, Finalizing
  <2> QED BY <2>2, <2>3
<1>10. Feed'
  <2>1. SUFFICES ASSUME NEW r \in Rec, Live(r)', r \notin clash' PROVE Feeding(r)'
    BY DEF Feed
  <2>2. Feeding(r) /\ r \notin clash /\ rec[r].path \in Path \cup {NoPath}
    BY <1>2, <1>5, <2>1 DEF Wiring, Feed, Typed, Objects, Recorder
  <2>3. CASE r = q
    <3>1. rec[q].ffmpeg = p
      BY <1>2, <2>2, <2>3 DEF Wiring, Wired
    <3> QED BY <1>4, <1>7, <2>2, <2>3, <3>1 DEF Feeding
  <2>4. CASE r # q
    BY <1>4, <1>7, <2>2, <2>4 DEF Feeding
  <2> QED BY <2>3, <2>4
<1>11. ASSUME NEW u \in Task PROVE Apart(u)'
  <2>1. \A v \in Task : task'[v].pc \in {"probe", "finalize"} => v # t /\ task'[v] = task[v]
    BY <1>1, <1>3, TaskType
  <2> QED BY <1>2, <1>4, <1>5, <2>1 DEF Wiring, Apart, Finalizing
<1> QED BY <1>9, <1>10, <1>11 DEF Wiring

(***************************************************************************)
(* The path is handed back: the FFmpeg that wrote it has exited.           *)
(***************************************************************************)
LEMMA HandBackWiring ==
  ASSUME Wiring, Owning, Custody, Typed, Typed', NEW t \in Task, HandBack(t)
  PROVE  Wiring'
<1> USE DEF Typed, Objects, Placed
<1> DEFINE q == task[t].rec
           done == rec[q].path
<1>1. \A u \in Task : u # t => task'[u] = task[u]
  BY Moves DEF Work, TaskStep
<1>2. task[t].pc = "teardown" /\ q \in Rec /\ UNCHANGED <<clash, proc>> /\ done \in Path \cup {NoPath}
  BY Users DEF HandBack, Recorder
<1>3. \/ task'[t].pc \in {"begin", "query"}
      \/ task'[t].pc = "finalize" /\ task'[t].rec = q /\ task'[t].path = done /\ done # NoPath
  <2>1. task[t].kind \in {"rotate", "stop", "discard"}
    BY DEF HandBack, Holding
  <2>2. \/ End(t)
        \/ task' = [task EXCEPT ![t].pc = "finalize", ![t].path = done] /\ done # NoPath
        \/ task' = [task EXCEPT ![t].pc = "query", ![t].path = NoPath]
    BY <2>1 DEF HandBack
  <2> QED BY <2>2, TaskType DEF End, TaskState
<1>4. \A r \in Rec : /\ rec'[r].ffmpeg = rec[r].ffmpeg
                     /\ rec'[r].path = IF r = q THEN NoPath ELSE rec[r].path
  BY <1>2 DEF HandBack, Released, Recorder
<1>5. \A r \in Rec : Live(r)' => Live(r)
  BY LiveOn
<1>6. Holds(t, q) /\ Live(q)
  BY <1>2 DEF Holds, Live
<1> HIDE DEF Typed, Objects, Placed
<1>7. \A u \in Task : u # t /\ task[u].rec = q /\ task[u].pc # "create" => q \in clash
  BY <1>2, <1>6 DEF Holds, Owning, Alone
<1>8. q \notin clash /\ done # NoPath => proc[done] # "running"
  BY <1>2, <1>6 DEF Wiring, Wired, Feed, Feeding
<1>9. ASSUME NEW u \in Task PROVE Wired(u)'
  <2>1. SUFFICES ASSUME task'[u].pc \in Bound, task'[u].rec \notin clash' PROVE Wired(u)'
    BY DEF Wired, Bound
  <2>2. CASE u = t
    BY <1>2, <1>3, <1>8, <2>1, <2>2 DEF Wired, Bound
  <2>3. CASE u # t
    <3>1. task'[u] = task[u] /\ task[u].rec \notin clash /\ task[u].rec \in Rec
      BY <1>1, <1>2, <2>1, <2>3, Users DEF Bound
    <3>2. task[u].rec # q
      BY <1>7, <2>1, <2>3, <3>1 DEF Bound
    <3> QED BY <1>2, <1>4, <3>1, <3>2 DEF Wiring, Wired
  <2> QED BY <2>2, <2>3
<1>10. Feed'
  BY <1>2, <1>4, <1>5 DEF Wiring, Feed, Feeding
<1>11. ASSUME NEW u \in Task PROVE Apart(u)'
  <2>1. SUFFICES ASSUME task'[u].pc = "probe" PROVE Apart(u)'
    BY DEF Apart
  <2>2. u # t /\ task'[u] = task[u] /\ task[u].rec \in Rec
    BY <1>1, <1>3, <2>1, Users
  <2>3. rec[task[u].rec].path = task[u].path \/ task[u].rec \in clash
    BY <2>1, <2>2 DEF Wiring, Wired
  <2>4. task[u].path # NoPath
    BY <2>1, <2>2 DEF Wiring, Apart
  <2>5. ASSUME NEW r \in Rec, Live(r)', rec'[r].path = task[u].path PROVE r = task[u].rec
    <3>1. r # q /\ rec[r].path = task[u].path
      BY <1>4, <2>4, <2>5
    <3> QED BY <1>5, <2>1, <2>2, <2>5, <3>1 DEF Wiring, Apart
  <2>6. ASSUME NEW v \in Task, Finalizing(v)', task'[v].path = task[u].path PROVE task'[v].rec \in clash
    <3>1. CASE v = t
      <4>1. task'[t].rec = q /\ done = task[u].path
        BY <1>3, <2>6, <3>1 DEF Finalizing
      <4>2. q = task[u].rec
        BY <1>2, <1>6, <2>1, <2>2, <4>1 DEF Wiring, Apart
      <4> QED BY <1>7, <2>1, <2>2, <3>1, <4>1, <4>2
    <3>2. CASE v # t
      BY <1>1, <2>1, <2>2, <2>6, <3>2 DEF Wiring, Apart, Finalizing
    <3> QED BY <3>1, <3>2
  <2> QED BY <1>2, <2>2, <2>4, <2>5, <2>6 DEF Apart
<1> QED BY <1>9, <1>10, <1>11 DEF Wiring

(***************************************************************************)
(* A chunk begins on a path that nothing has or writes.                    *)
(***************************************************************************)
LEMMA BeginWiring ==
  ASSUME Wiring, Owning, Custody, Typed, Typed', NEW t \in Task, LaunchQuery(t) \/ RotateQuery(t), dbEnabled
  PROVE  Wiring'
<1> USE DEF Typed, Objects, Placed
<1>1. \A u \in Task : u # t => task'[u] = task[u]
  BY Moves DEF Work, TaskStep
<1>2. PICK q \in Rec, p \in FreshPaths, fresh \in BOOLEAN :
         /\ BeginStart(t, q, p, fresh) /\ recorder' = recorder
         /\ fresh => ~Live(q)
         /\ ~fresh => task[t].rec = q /\ task[t].pc = "query"
  <2>1. CASE LaunchQuery(t)
    BY <2>1 DEF LaunchQuery, FreshRecs
  <2>2. CASE RotateQuery(t)
    <3>1. task[t].rec \in Rec
      BY <2>2 DEF RotateQuery, Holding
    <3> QED BY <2>2, <3>1 DEF RotateQuery
  <2> QED BY <2>1, <2>2
<1>3. /\ p \in Path
      /\ \A s \in Rec : Live(s) => rec[s].path # p /\ rec[s].ffmpeg # p
      /\ \A u \in Task : task[u].path # p
  BY DEF FreshPaths
<1>4. /\ rec'[q].path = p /\ \A s \in Rec : s # q => rec'[s] = rec[s]
      /\ clash' = IF fresh THEN clash \ {q} ELSE clash
  BY <1>2 DEF BeginStart, Recorder, NewRecorder
<1>5. task'[t].pc = "probe" /\ task'[t].rec = q /\ task'[t].path = p
  BY <1>2 DEF BeginStart, TaskState
<1>6. \A s \in Path : proc'[s] = IF s = p THEN "none" ELSE proc[s]
  BY <1>2 DEF BeginStart
<1>7. \A s \in Rec : s # q /\ Live(s)' => Live(s)
  BY <1>1, <1>2, <1>4, <1>5 DEF Live
<1> HIDE DEF Typed, Objects, Placed
<1>8. \A u \in Task : u # t /\ task[u].rec = q /\ task[u].pc \in Bound => q \in clash /\ ~fresh
  <2>1. SUFFICES ASSUME NEW u \in Task, u # t, task[u].rec = q, task[u].pc \in Bound PROVE q \in clash /\ ~fresh
    OBVIOUS
  <2>2. ~fresh
    BY <1>2, <2>1 DEF Live
  <2> QED BY <1>2, <2>1, <2>2 DEF Owning, Alone, Holds, Bound
<1>9. ASSUME NEW u \in Task PROVE Wired(u)'
  <2>1. SUFFICES ASSUME task'[u].pc \in Bound, task'[u].rec \notin clash' PROVE Wired(u)'
    BY DEF Wired, Bound
  <2>2. CASE u = t
    BY <1>4, <1>5, <2>2 DEF Wired
  <2>3. CASE u # t
    <3>1. task'[u] = task[u] /\ task[u].rec \in Rec
      BY <1>1, <2>1, <2>3, Users DEF Bound
    <3>2. task[u].rec # q /\ task[u].rec \notin clash
      BY <1>4, <1>8, <2>1, <2>3, <3>1
    <3>3. Finalizing(u) => task[u].path \in Path /\ task[u].path # p
      BY <1>3 DEF Custody, Given
    <3> QED BY <1>4, <1>6, <3>1, <3>2, <3>3 DEF Wiring, Wired, Finalizing
  <2> QED BY <2>2, <2>3
<1>10. Feed'
  <2>1. SUFFICES ASSUME NEW r \in Rec, Live(r)', r \notin clash' PROVE Feeding(r)'
    BY DEF Feed
  <2>2. CASE r = q
    BY <1>3, <1>4, <1>6, <2>2 DEF Feeding
  <2>3. CASE r # q
    <3>1. Feeding(r) /\ rec[r].path \in Path \cup {NoPath}
      BY <1>4, <1>7, <2>1, <2>3 DEF Wiring, Feed, Typed, Objects, Recorder
    <3> QED BY <1>4, <1>6, <2>3, <3>1, NullAssumption DEF Feeding
  <2> QED BY <2>2, <2>3
<1>11. ASSUME NEW u \in Task PROVE Apart(u)'
  <2>1. SUFFICES ASSUME task'[u].pc = "probe" PROVE Apart(u)'
    BY DEF Apart
  <2>2. \A v \in Task : task'[v].pc \in Bound /\ v # t => task'[v] = task[v] /\ (task[v].rec \in clash => task[v].rec \in clash')
    BY <1>1, <1>4, <1>8
  <2>3. CASE u = t
    <3>1. ASSUME NEW r \in Rec, Live(r)', rec'[r].path = p PROVE r = q
      BY <1>3, <1>4, <1>7, <3>1
    <3>2. ASSUME NEW v \in Task, Finalizing(v)' PROVE task'[v].path # p
      BY <1>1, <1>3, <1>5, <3>2 DEF Finalizing
    <3> QED BY <1>3, <1>5, <2>3, <3>1, <3>2, NullAssumption DEF Apart
  <2>4. CASE u # t
    <3>1. task'[u] = task[u] /\ task[u].pc = "probe" /\ task[u].path \notin {p, NoPath}
      BY <1>1, <1>3, <2>1, <2>4 DEF Wiring, Apart
    <3>2. ASSUME NEW r \in Rec, Live(r)', rec'[r].path = task[u].path PROVE r = task[u].rec
      <4>1. r # q
        BY <1>4, <3>1, <3>2
      <4> QED BY <1>4, <1>7, <3>1, <3>2, <4>1 DEF Wiring, Apart
    <3>3. ASSUME NEW v \in Task, Finalizing(v)', task'[v].path = task[u].path PROVE task'[v].rec \in clash'
      <4>1. v # t /\ task'[v].pc \in Bound
        BY <1>5, <3>3 DEF Finalizing, Bound
      <4> QED BY <2>2, <3>1, <3>3, <4>1 DEF Wiring, Apart, Finalizing
    <3> QED BY <3>1, <3>2, <3>3 DEF Apart
  <2> QED BY <2>3, <2>4
<1> QED BY <1>9, <1>10, <1>11 DEF Wiring

(***************************************************************************)
(* A timer or a request hands nothing over.                                *)
(***************************************************************************)
LEMMA SpawnWiring ==
  ASSUME Wiring, Owning, Custody, Typed, NEW t \in Task, Spawn(t)
  PROVE  Wiring'
<1> USE DEF Typed, Objects, Placed
<1>1. UNCHANGED <<rec, proc>> /\ clash \subseteq clash'
  BY DEF Spawn, Rescan, RotateAll, WatchdogReconnect, PatchEnable, PatchDisable
<1>2. \A u \in Task : \/ task'[u] = task[u]
                      \/ task'[u].pc \in {"begin", "query"} /\ task'[u].rec \in {recorder, NoRec}
  <2>1. \A u \in Task : \/ Launching(t)[u] = task[u]
                        \/ Launching(t)[u].pc = "query" /\ Launching(t)[u].rec = NoRec
    BY DEF Launching, NoTask
  <2>2. CASE Rescan(t) \/ PatchEnable(t) \/ RotateAll(t)
    BY <2>1, <2>2 DEF Rescan, PatchEnable, RotateAll, NoTask
  <2>3. CASE PatchDisable(t)
    <3>1. \/ task' = task
          \/ task' = [task EXCEPT ![t] = [NoTask EXCEPT !.kind = "stop", !.rec = recorder]]
      BY <2>3 DEF PatchDisable, StopOwn, Stopping
    <3> QED BY <3>1 DEF NoTask
  <2>4. CASE WatchdogReconnect(t)
    <3>1. \/ task' = Launching(t)
          \/ \E u : task' = [Launching(t) EXCEPT ![u] = [NoTask EXCEPT !.kind = "discard", !.rec = recorder]]
      BY <2>4 DEF WatchdogReconnect
    <3>2. Launching(t) \in [Task -> TaskState]
      BY DEF Launching, TaskState, NoTask
    <3>3. [NoTask EXCEPT !.kind = "discard", !.rec = recorder].pc = "begin"
          /\ [NoTask EXCEPT !.kind = "discard", !.rec = recorder].rec = recorder
      BY DEF NoTask
    <3> QED BY <2>1, <3>1, <3>2, <3>3
  <2> QED BY <2>2, <2>3, <2>4 DEF Spawn
<1>3. \A r \in Rec : Live(r)' => Live(r)
  <2>1. recorder' \in {recorder, NoRec}
    BY DEF Spawn, Rescan, RotateAll, WatchdogReconnect, PatchEnable, PatchDisable
  <2> QED BY <1>1, <1>2, <2>1, NullAssumption DEF Live
<1> QED BY <1>1, <1>2, <1>3, Users, Still DEF Bound

(***************************************************************************)
(* The world only ends receive loops and processes.                        *)
(***************************************************************************)
LEMMA WorldWiring ==
  ASSUME Wiring, Owning, Custody, Typed, World
  PROVE  Wiring'
<1> USE DEF Typed, Objects, Placed
<1>1. UNCHANGED <<task, clash, recorder>>
  BY DEF World, WatchdogQuiet, PatchCommit, PatchReject, GoOffline, GoOnline, StreamLost, PipeBreaks
<1>2. /\ \A r \in Rec : /\ rec'[r].path = rec[r].path /\ rec'[r].ffmpeg = rec[r].ffmpeg
                        /\ rec'[r].loop => rec[r].loop
      /\ \A p \in Path : proc'[p] = "running" => proc[p] = "running"
  <2>1. CASE UNCHANGED <<rec, proc>>
    BY <2>1
  <2>2. ASSUME NEW q \in Rec, StreamLost(q) \/ PipeBreaks(q)
        PROVE  /\ \A r \in Rec : /\ rec'[r].path = rec[r].path /\ rec'[r].ffmpeg = rec[r].ffmpeg
                                 /\ rec'[r].loop => rec[r].loop
               /\ \A p \in Path : proc'[p] = "running" => proc[p] = "running"
    BY <2>2 DEF StreamLost, PipeBreaks, Recorder
  <2> QED BY <2>1, <2>2 DEF World, WatchdogQuiet, PatchCommit, PatchReject, GoOffline, GoOnline
<1>3. \A r \in Rec : Live(r)' => Live(r)
  BY <1>1, <1>2 DEF Live
<1> QED BY <1>1, <1>2, <1>3, Users, Still

(***************************************************************************)
(* A restart leaves no thread and no path.                                 *)
(***************************************************************************)
LEMMA RestartWiring == Restart => Wiring'
<1> SUFFICES ASSUME Restart PROVE Wiring'
  OBVIOUS
<1>1. (\A t \in Task : task'[t].pc = "begin") /\ \A r \in Rec : rec'[r].path = NoPath
  BY TaskType, RecorderType DEF Restart
<1> QED BY <1>1 DEF Wiring, Wired, Feed, Feeding, Apart

(***************************************************************************)
(* Every step keeps the wiring.                                            *)
(***************************************************************************)
LEMMA WiringStep == Wiring /\ Owning /\ Custody /\ Typed /\ Typed' /\ [Next]_vars => Wiring'
<1> SUFFICES ASSUME Wiring, Owning, Custody, Typed, Typed', [Next]_vars PROVE Wiring'
  OBVIOUS
<1>1. CASE UNCHANGED vars
  <2>1. \A r \in Rec : Live(r)' <=> Live(r)
    BY <1>1 DEF Live
  <2> QED BY <1>1, <2>1 DEF Wiring, Wired, Feed, Feeding, Apart, Finalizing
<1>2. ASSUME NEW t \in Task, Work(t) PROVE Wiring'
  <2>1. CASE (LaunchQuery(t) \/ RotateQuery(t)) /\ dbEnabled
    BY <2>1, BeginWiring
  <2>2. CASE FFmpegExits(t)
    BY <2>2, ExitedWiring
  <2>3. CASE HandBack(t)
    BY <2>3, HandBackWiring
  <2>4. CASE Probe(t) /\ Found
    BY <2>4, SpawnedWiring
  <2>5. CASE \/ Probe(t) /\ ~Found
             \/ Started(t) \/ OpenTimeout(t) \/ Create(t) \/ BeginStop(t) \/ CloseFifos(t)
             \/ Finalize(t) \/ DatabaseFails(t)
             \/ (LaunchQuery(t) \/ RotateQuery(t)) /\ ~dbEnabled
    BY <2>5, StillThread
  <2> QED BY <1>2, <2>1, <2>2, <2>3, <2>4, <2>5 DEF Work, TaskStep
<1> QED BY <1>1, <1>2, SpawnWiring, WorldWiring, RestartWiring, Actors

(***************************************************************************)
(* A chunk handed to the uploader is complete: whatever timers, requests,  *)
(* threads, failures and restarts interleave, its FFmpeg has exited before *)
(* its row ends, unless two threads were at odds about its recorder.       *)
(***************************************************************************)
THEOREM HandedWhole == Spec => HandedComplete
<1> DEFINE Handed == \A p \in Path : row[p] = "open" /\ row'[p] = "ended" =>
                        \/ proc[p] # "running"
                        \/ \E t \in Task : task[t].pc = "finalize" /\ task[t].path = p /\ task[t].rec \in clash
<1>1. Typed /\ Wiring /\ [Next]_vars => [Handed]_vars
  <2> SUFFICES ASSUME Typed, Wiring, [Next]_vars, NEW p \in Path, row[p] = "open", row'[p] = "ended"
               PROVE  \/ proc[p] # "running"
                      \/ \E t \in Task : task[t].pc = "finalize" /\ task[t].path = p /\ task[t].rec \in clash
    OBVIOUS
  <2>1. PICK t \in Task : task[t].pc = "finalize" /\ task[t].path = p
    <3>1. \E t \in Task : Work(t)
      <4>1. CASE \E t \in Task : Spawn(t)
        BY <4>1 DEF Spawn, Rescan, RotateAll, WatchdogReconnect, PatchEnable, PatchDisable
      <4>2. CASE World \/ Restart
        BY <4>2 DEF World, WatchdogQuiet, PatchCommit, PatchReject, GoOffline, GoOnline, StreamLost, PipeBreaks,
                    Restart
      <4>3. row' # row
        OBVIOUS
      <4> QED BY <4>1, <4>2, <4>3, Actors
    <3>2. PICK t \in Task : Work(t)
      BY <3>1
    <3>3. ASSUME NEW q \in Path, row' = [row EXCEPT ![q] = "none"] \/ row' = [row EXCEPT ![q] = "open"]
          PROVE  FALSE
      BY <3>3 DEF Typed, Objects
    <3>4. CASE LaunchQuery(t) \/ RotateQuery(t)
      BY <3>3, <3>4 DEF LaunchQuery, RotateQuery, BeginStart, FreshPaths
    <3>5. CASE Create(t)
      BY <3>5 DEF Create, Typed, Objects
    <3>6. CASE EndsRow(t)
      BY <3>6 DEF EndsRow, RowEnds, Typed, Objects
    <3>7. CASE \/ Probe(t) \/ Started(t) \/ OpenTimeout(t) \/ BeginStop(t) \/ CloseFifos(t)
               \/ FFmpegExits(t) \/ HandBack(t)
      BY <3>7 DEF Probe, Started, OpenTimeout, BeginStop, CloseFifos, FFmpegExits, HandBack
    <3>8. CASE Finalize(t) \/ DatabaseFails(t)
      BY <3>6, <3>8 DEF Finalize, DatabaseFails, EndsRow
    <3> QED BY <3>2, <3>4, <3>5, <3>7, <3>8 DEF Work, TaskStep
  <2> QED BY <2>1 DEF Wiring, Wired
<1>2. Spec => [](Typed /\ Owning /\ Custody /\ Wiring)
  BY TypedInit, TypedStep, OwningInit, OwningStep, CustodyInit, CustodyStep, WiringInit, WiringStep, PTL
     DEF Spec
<1> QED BY <1>1, <1>2, PTL DEF Spec, HandedComplete
=============================================================================
