------------------------------ MODULE Manager -------------------------------
(***************************************************************************)
(* RecorderManager (app/recorder/manager.py) and the life of its           *)
(* SourceRecorders (app/recorder/source_recorder.py), for one source: the  *)
(* sources of a manager share nothing but a lock that is never held across *)
(* a blocking call.                                                        *)
(*                                                                         *)
(* Every launch, rotation and stop runs in a thread of its own, here a     *)
(* Task, and blocks in the database, in NDI, on a FIFO and on FFmpeg.  A   *)
(* step below is what runs between two such points.  The watchdog, the     *)
(* half-hourly rotation, the rescan and the operator's PATCH requests can  *)
(* all start a task while others are in flight.                            *)
(***************************************************************************)
EXTENDS Naturals, FiniteSets

CONSTANTS
    Rec,          \* SourceRecorder objects (reused once nothing refers to them)
    Path,         \* chunk files (likewise)
    Task,         \* threads (likewise)
    NoRec, NoPath,
    BackoffBase,  \* _BACKOFF_BASE
    BackoffMax,   \* _BACKOFF_MAX
    Interval,     \* _WATCHDOG_INTERVAL
    MaxPatches,   \* bound: PATCH requests that set "enabled"
    MaxFaults,    \* bound: losses of the stream, FFmpeg deaths, FIFO timeouts, failing databases
    MaxRestarts,  \* bound: restarts of the service
    Overlap,      \* whether a timer or a request may fire while a task runs
    Repeat,       \* whether a PATCH may ask for what the row already says
    RejectAllowed \* whether a PATCH may be refused after it set "enabled"

ASSUME NullAssumption == NoRec \notin Rec /\ NoPath \notin Path
ASSUME BackoffAssumption ==
    /\ BackoffBase \in Nat /\ BackoffMax \in Nat /\ Interval \in Nat
    /\ BackoffBase <= BackoffMax
ASSUME BoundAssumption ==
    /\ MaxPatches \in Nat /\ MaxFaults \in Nat /\ MaxRestarts \in Nat
    /\ Overlap \in BOOLEAN /\ Repeat \in BOOLEAN /\ RejectAllowed \in BOOLEAN

VARIABLES
    \* ---- durable ----
    dbEnabled,    \* the source's row: enabled
    row,          \* the chunks table: path -> state of the chunk's row
    \* ---- the manager's _SourceState ----
    registered,   \* the source is in _states
    disabled,
    recorder,
    backoff,
    wait,         \* retry_after - now, in seconds, never negative
    \* ---- recorders, FFmpeg processes, threads ----
    rec,
    proc,         \* path -> the FFmpeg process that writes it
    task,
    patch,        \* the PATCH request in progress
    online,       \* the source is on the NDI network
    clash,        \* history: recorders two threads were at odds about
    patches, faults, restarts

table   == <<dbEnabled, row>>
state   == <<registered, disabled, recorder, backoff, wait>>
budgets == <<patches, faults, restarts>>
vars    == <<dbEnabled, row, registered, disabled, recorder, backoff, wait,
             rec, proc, task, patch, online, clash, patches, faults, restarts>>

-----------------------------------------------------------------------------
(* State                                                                   *)

RowState == {"none", "open", "ended", "twice"}   \* twice: finalized again
Recorder == [status : {"idle", "starting", "recording", "error"},
             path   : Path \cup {NoPath},   \* current_chunk_path
             stop   : BOOLEAN,              \* _stop_event
             ffmpeg : Path \cup {NoPath},   \* _ffmpeg: the process of that file
             loop   : BOOLEAN]              \* the receive loop is running
TaskState == [kind : {"none", "launch", "rotate", "stop", "discard"},
              pc   : {"begin", "close", "wait", "teardown", "finalize", "query", "probe", "open", "create"},
              rec  : Rec \cup {NoRec},
              path : Path \cup {NoPath}]

NewRecorder == [status |-> "idle", path |-> NoPath, stop |-> FALSE,
                ffmpeg |-> NoPath, loop |-> FALSE]
NoTask      == [kind |-> "none", pc |-> "begin", rec |-> NoRec, path |-> NoPath]

FreeTasks   == {t \in Task : task[t].kind = "none"}
Capturing(r) == rec[r].status = "recording" /\ rec[r].loop

Live(r)    == r = recorder \/ rec[r].loop \/ \E t \in Task : task[t].rec = r
FreshRecs  == {r \in Rec : ~Live(r)}
FreshPaths == {p \in Path : /\ proc[p] # "running"
                            /\ \A r \in Rec : Live(r) => p \notin {rec[r].path, rec[r].ffmpeg}
                            /\ \A t \in Task : task[t].path # p}

Init ==
    /\ dbEnabled \in BOOLEAN
    /\ row = [p \in Path |-> "none"]
    /\ registered = FALSE /\ disabled = FALSE /\ recorder = NoRec
    /\ backoff = BackoffBase /\ wait = 0
    /\ rec = [r \in Rec |-> NewRecorder]
    /\ proc = [p \in Path |-> "none"]
    /\ task = [t \in Task |-> NoTask]
    /\ patch = "none"
    /\ online \in BOOLEAN
    /\ clash = {}
    /\ patches = 0 /\ faults = 0 /\ restarts = 0

-----------------------------------------------------------------------------
(* Threads                                                                 *)

Launching(t)    == [task EXCEPT ![t] = [NoTask EXCEPT !.kind = "launch", !.pc = "query"]]
Stopping(t, k, r) == [task EXCEPT ![t] = [NoTask EXCEPT !.kind = k, !.rec = r]]
End(t)          == task' = [task EXCEPT ![t] = NoTask]
Goto(t, p)      == task' = [task EXCEPT ![t].pc = p]

(* Nothing keeps two threads from one recorder, or a thread from dropping  *)
(* the recorder another has installed.  A recorder is at odds when a       *)
(* thread is to stop it while another one starts or stops it; that of the  *)
(* source, when a thread puts another, or none, in its place.              *)
AtOdds(r)     == {s \in Rec : s = r /\ \E t \in Task : task[t].rec = s /\ task[t].pc # "create"}
Overridden(t) == {recorder} \ {NoRec, task[t].rec}

\* Timers and requests may fire.
Clear == Overlap \/ (FreeTasks = Task /\ patch = "none")

-----------------------------------------------------------------------------
(* Timers and requests                                                     *)

(* start_all_enabled at boot and the rescan job: an enabled source that is *)
(* not in _states is registered and launched.                              *)
MustLaunch == dbEnabled /\ ~registered

Rescan(t) ==
    /\ Clear /\ t \in FreeTasks
    /\ MustLaunch
    /\ registered' = TRUE
    /\ task' = Launching(t)
    /\ UNCHANGED <<table, disabled, recorder, backoff, wait, rec, proc, patch, online, clash, budgets>>

(* rotate_all: a thread for a source whose recorder is recording, be the   *)
(* rotation before still at work.                                          *)
RotateAll(t) ==
    /\ Clear /\ t \in FreeTasks
    /\ recorder # NoRec /\ rec[recorder].status = "recording"
    /\ task' = [task EXCEPT ![t] = [NoTask EXCEPT !.kind = "rotate"]]
    /\ UNCHANGED <<table, state, rec, proc, patch, online, clash, budgets>>

(* _check_all, an Interval after the last one: leave a healthy recorder    *)
(* alone and wait out the backoff; otherwise back off, discard the         *)
(* recorder if there is one, and launch another.                           *)
MutantHealthy == recorder # NoRec
MutantInverted == recorder # NoRec /\ rec[recorder].status # "recording"
Healthy == recorder # NoRec /\ rec[recorder].status = "recording"
Remaining == IF wait > Interval THEN wait - Interval ELSE 0
MutantNextBackoff == backoff * 2
NextBackoff == IF backoff * 2 < BackoffMax THEN backoff * 2 ELSE BackoffMax

WatchdogQuiet ==
    /\ registered
    /\ wait' = Remaining
    /\ \/ disabled /\ UNCHANGED backoff
       \/ ~disabled /\ Healthy /\ backoff' = BackoffBase
       \/ ~disabled /\ ~Healthy /\ Remaining > 0 /\ UNCHANGED backoff
    /\ UNCHANGED <<table, registered, disabled, recorder, rec, proc, task, patch, online, clash, budgets>>

WatchdogReconnect(t) ==
    /\ Clear /\ t \in FreeTasks
    /\ registered /\ ~disabled /\ ~Healthy /\ Remaining = 0
    /\ wait' = backoff
    /\ backoff' = NextBackoff
    /\ IF recorder = NoRec
       THEN task' = Launching(t)
       ELSE \E u \in FreeTasks \ {t} :
               task' = [Launching(t) EXCEPT ![u] = [NoTask EXCEPT !.kind = "discard", !.rec = recorder]]
    /\ recorder' = NoRec
    /\ clash' = clash \cup AtOdds(recorder)
    /\ UNCHANGED <<table, registered, disabled, rec, proc, patch, online, budgets>>

(* PATCH {"enabled": ...}: the manager is called first, the transaction    *)
(* commits later or, if another field is refused, never.                   *)
PatchEnable(t) ==
    /\ Clear /\ t \in FreeTasks /\ patch = "none" /\ patches < MaxPatches
    /\ Repeat \/ ~dbEnabled
    /\ patch' = "enable" /\ patches' = patches + 1
    /\ registered' = TRUE /\ disabled' = FALSE
    /\ backoff' = BackoffBase /\ wait' = 0
    /\ task' = Launching(t)
    /\ UNCHANGED <<table, recorder, rec, proc, online, clash, faults, restarts>>

MutantStopOwn(t) == task
StopOwn(t) == IF recorder = NoRec THEN task ELSE Stopping(t, "stop", recorder)

PatchDisable(t) ==
    /\ Clear /\ t \in FreeTasks /\ patch = "none" /\ patches < MaxPatches
    /\ Repeat \/ dbEnabled
    /\ patch' = "disable" /\ patches' = patches + 1
    /\ disabled' = (registered \/ disabled)
    /\ recorder' = NoRec
    /\ task' = StopOwn(t)
    /\ clash' = clash \cup AtOdds(recorder)
    /\ UNCHANGED <<table, registered, backoff, wait, rec, proc, online, faults, restarts>>

PatchCommit ==
    /\ patch # "none"
    /\ dbEnabled' = (patch = "enable")
    /\ patch' = "none"
    /\ UNCHANGED <<row, state, rec, proc, task, online, clash, budgets>>

PatchReject ==
    /\ RejectAllowed /\ patch # "none"
    /\ patch' = "none"
    /\ UNCHANGED <<table, state, rec, proc, task, online, clash, budgets>>

-----------------------------------------------------------------------------
(* start_chunk, in a launch or in the second half of a rotation            *)

(* The row is read; then a new recorder (launch) or the rotated one begins *)
(* on a new path.                                                          *)
BeginStart(t, r, p, fresh) ==
    /\ rec' = [rec EXCEPT ![r] = [(IF fresh THEN NewRecorder ELSE @)
                                  EXCEPT !.status = "starting", !.path = p, !.stop = FALSE]]
    /\ row' = [row EXCEPT ![p] = "none"]
    /\ proc' = [proc EXCEPT ![p] = "none"]
    /\ task' = [task EXCEPT ![t].pc = "probe", ![t].rec = r, ![t].path = p]
    /\ clash' = IF fresh THEN clash \ {r} ELSE clash

LaunchQuery(t) ==
    /\ task[t].kind = "launch" /\ task[t].pc = "query"
    /\ IF dbEnabled
       THEN \E r \in FreshRecs, p \in FreshPaths : BeginStart(t, r, p, TRUE)
       ELSE End(t) /\ UNCHANGED <<rec, row, proc, clash>>
    /\ UNCHANGED <<dbEnabled, state, patch, online, budgets>>

(* A source found disabled is dropped by the rotation itself.              *)
RotateQuery(t) ==
    /\ task[t].kind = "rotate" /\ task[t].pc = "query"
    /\ IF dbEnabled
       THEN /\ \E p \in FreshPaths : BeginStart(t, task[t].rec, p, FALSE)
            /\ UNCHANGED <<recorder, disabled>>
       ELSE /\ recorder' = NoRec /\ disabled' = TRUE
            /\ clash' = clash \cup Overridden(t)
            /\ End(t) /\ UNCHANGED <<rec, row, proc>>
    /\ UNCHANGED <<dbEnabled, registered, backoff, wait, patch, online, budgets>>

(* _find_source: discovery lists the source while it is on the network.    *)
Found == online

(* Find the source and wait for a first frame; then FFmpeg is spawned.     *)
Probe(t) ==
    /\ task[t].pc = "probe"
    /\ IF Found
       THEN /\ rec' = [rec EXCEPT ![task[t].rec].ffmpeg = task[t].path]
            /\ proc' = [proc EXCEPT ![task[t].path] = "running"]
            /\ Goto(t, "open")
       ELSE /\ rec' = [rec EXCEPT ![task[t].rec].status = "error"]
            /\ End(t) /\ UNCHANGED proc
    /\ UNCHANGED <<table, state, patch, online, clash, budgets>>

(* Both FIFOs are open: the receive loop starts, and a launch makes the    *)
(* recorder the source's own.                                              *)
Started(t) ==
    /\ task[t].pc = "open"
    /\ rec' = [rec EXCEPT ![task[t].rec].status = "recording",
                          ![task[t].rec].loop = ~rec[task[t].rec].stop]
    /\ recorder' = IF task[t].kind = "launch" /\ registered THEN task[t].rec ELSE recorder
    /\ clash' = IF task[t].kind = "launch" THEN clash \cup Overridden(t) ELSE clash
    /\ Goto(t, "create")
    /\ UNCHANGED <<table, registered, disabled, backoff, wait, proc, patch, online, budgets>>

(* "FIFO open timeout": FFmpeg, if it is alive, is left running.           *)
OpenTimeout(t) ==
    /\ task[t].pc = "open"
    /\ \/ proc[task[t].path] = "exited" /\ UNCHANGED faults
       \/ proc[task[t].path] = "running" /\ faults < MaxFaults /\ faults' = faults + 1
    /\ rec' = [rec EXCEPT ![task[t].rec].status = "error"]
    /\ End(t)
    /\ UNCHANGED <<table, state, proc, patch, online, clash, patches, restarts>>

(* _create_chunk_db                                                        *)
Create(t) ==
    /\ task[t].pc = "create"
    /\ row' = [row EXCEPT ![task[t].path] = "open"]
    /\ End(t)
    /\ UNCHANGED <<dbEnabled, state, rec, proc, patch, online, clash, budgets>>

-----------------------------------------------------------------------------
(* stop_chunk, in a rotation, a _stop_upload or a _safe_stop               *)

(* A rotation takes the recorder the source has by now, if any.            *)
BeginStop(t) ==
    /\ task[t].kind \in {"rotate", "stop", "discard"} /\ task[t].pc = "begin"
    /\ LET r == IF task[t].kind = "rotate" THEN recorder ELSE task[t].rec
       IN  IF r = NoRec
           THEN End(t) /\ UNCHANGED rec
           ELSE /\ rec' = [rec EXCEPT ![r].stop = TRUE]
                /\ task' = [task EXCEPT ![t].pc = "close", ![t].rec = r]
    /\ clash' = IF task[t].kind = "rotate" THEN clash \cup AtOdds(recorder) ELSE clash
    /\ UNCHANGED <<table, state, proc, patch, online, budgets>>

(* The loops have been joined and the FIFOs are closed; FFmpeg, if any, is *)
(* waited for.                                                             *)
MutantAfterClose(r) == "teardown"
AfterClose(r) == IF rec[r].ffmpeg = NoPath THEN "teardown" ELSE "wait"

CloseFifos(t) ==
    /\ task[t].pc = "close"
    /\ LET r == task[t].rec
       IN  /\ rec' = [rec EXCEPT ![r].loop = FALSE]
           /\ task' = [task EXCEPT ![t].pc = AfterClose(r), ![t].path = rec[r].ffmpeg]
    /\ UNCHANGED <<table, state, proc, patch, online, clash, budgets>>

(* FFmpeg, as it was when the wait began, has exited or is killed.  If     *)
(* another stop got here first, _ffmpeg is None by now and reading its     *)
(* returncode raises: the thread ends where it stands.                     *)
FFmpegExits(t) ==
    /\ task[t].pc = "wait"
    /\ proc' = [proc EXCEPT ![task[t].path] = "exited"]
    /\ IF rec[task[t].rec].ffmpeg = NoPath
       THEN End(t) /\ UNCHANGED rec
       ELSE Goto(t, "teardown") /\ rec' = [rec EXCEPT ![task[t].rec].ffmpeg = NoPath]
    /\ UNCHANGED <<table, state, patch, online, clash, budgets>>

(* The FIFOs are removed; the path is handed back and cleared.  Only a     *)
(* _rotate or a _stop_upload finalizes it.                                 *)
MutantReleased(r) == [rec EXCEPT ![r].status = "idle"]
Released(r) == [rec EXCEPT ![r].status = "idle", ![r].path = NoPath]

HandBack(t) ==
    /\ task[t].pc = "teardown"
    /\ LET done == rec[task[t].rec].path
       IN  CASE task[t].kind = "discard" -> End(t)
             [] task[t].kind # "discard" /\ done # NoPath ->
                    task' = [task EXCEPT ![t].pc = "finalize", ![t].path = done]
             [] task[t].kind = "stop" /\ done = NoPath -> End(t)
             [] task[t].kind = "rotate" /\ done = NoPath ->
                    task' = [task EXCEPT ![t].pc = "query", ![t].path = NoPath]
    /\ rec' = Released(task[t].rec)
    /\ UNCHANGED <<table, state, proc, patch, online, clash, budgets>>

(* _finalize_chunk_db: the row of that path, if there is one, ends and is  *)
(* queued for upload.                                                      *)
RowEnds(p) == [row EXCEPT ![p] = CASE @ = "none" -> "none"
                                   [] @ = "open" -> "ended"
                                   [] OTHER      -> "twice"]
Finalize(t) ==
    /\ task[t].pc = "finalize"
    /\ row' = RowEnds(task[t].path)
    /\ IF task[t].kind = "rotate"
       THEN task' = [task EXCEPT ![t].pc = "query", ![t].path = NoPath]
       ELSE End(t)
    /\ UNCHANGED <<dbEnabled, state, rec, proc, patch, online, clash, budgets>>

-----------------------------------------------------------------------------
(* The database                                                            *)

(* Nothing catches an error of the database: the thread ends where it      *)
(* stands, a rotation with its recorder stopped.  The row of a chunk may   *)
(* have been ended before the error, at the commit or after it.            *)
DatabaseFails(t) ==
    /\ task[t].kind # "none" /\ task[t].pc \in {"query", "create", "finalize"}
    /\ faults < MaxFaults /\ faults' = faults + 1
    /\ \/ UNCHANGED row
       \/ task[t].pc = "finalize" /\ row' = RowEnds(task[t].path)
    /\ End(t)
    /\ UNCHANGED <<dbEnabled, state, rec, proc, patch, online, clash, patches, restarts>>

-----------------------------------------------------------------------------
(* The world                                                               *)

GoOffline ==
    /\ online /\ faults < MaxFaults
    /\ online' = FALSE /\ faults' = faults + 1
    /\ UNCHANGED <<table, state, rec, proc, task, patch, clash, patches, restarts>>

GoOnline ==
    /\ ~online
    /\ online' = TRUE
    /\ UNCHANGED <<table, state, rec, proc, task, patch, clash, budgets>>

(* Thirty empty polls in a row: the receive loop reports an error.         *)
StreamLost(r) ==
    /\ ~online /\ rec[r].loop
    /\ rec' = [rec EXCEPT ![r].loop = FALSE, ![r].status = "error"]
    /\ UNCHANGED <<table, state, proc, task, patch, online, clash, budgets>>

(* FFmpeg dies: the next write breaks and the loop ends, silently.         *)
PipeBreaks(r) ==
    /\ rec[r].loop /\ faults < MaxFaults
    /\ rec' = [rec EXCEPT ![r].loop = FALSE]
    /\ proc' = [p \in Path |-> IF p = rec[r].ffmpeg THEN "exited" ELSE proc[p]]
    /\ faults' = faults + 1
    /\ UNCHANGED <<table, state, task, patch, online, clash, patches, restarts>>

Restart ==
    /\ restarts < MaxRestarts
    /\ restarts' = restarts + 1
    /\ registered' = FALSE /\ disabled' = FALSE /\ recorder' = NoRec
    /\ backoff' = BackoffBase /\ wait' = 0
    /\ rec' = [r \in Rec |-> NewRecorder]
    /\ proc' = [p \in Path |-> IF proc[p] = "running" THEN "exited" ELSE proc[p]]
    /\ task' = [t \in Task |-> NoTask]
    /\ patch' = "none" /\ clash' = {}
    /\ UNCHANGED <<table, online, patches, faults>>

-----------------------------------------------------------------------------
TaskStep(t) ==
    \/ LaunchQuery(t) \/ RotateQuery(t) \/ Probe(t) \/ Started(t) \/ Create(t)
    \/ BeginStop(t) \/ CloseFifos(t) \/ FFmpegExits(t) \/ HandBack(t) \/ Finalize(t)

Timer == \/ WatchdogQuiet
         \/ \E t \in Task : Rescan(t) \/ WatchdogReconnect(t) \/ RotateAll(t)

Next ==
    \/ \E t \in Task : TaskStep(t) \/ OpenTimeout(t) \/ DatabaseFails(t)
                      \/ PatchEnable(t) \/ PatchDisable(t)
    \/ Timer
    \/ PatchCommit \/ PatchReject
    \/ \E r \in Rec : StreamLost(r) \/ PipeBreaks(r)
    \/ GoOffline \/ GoOnline
    \/ Restart

Spec == Init /\ [][Next]_vars

(***************************************************************************)
(* Threads run, the timers keep firing, a request ends, and a receive loop *)
(* without frames notices.  The network owes nothing.                      *)
(***************************************************************************)
Fairness ==
    /\ \A t \in Task : WF_vars(TaskStep(t))
    /\ WF_vars(WatchdogQuiet)
    /\ SF_vars(\E t \in Task : WatchdogReconnect(t))
    /\ SF_vars(\E t \in Task : RotateAll(t))
    /\ SF_vars(\E t \in Task : Rescan(t))
    /\ WF_vars(PatchCommit \/ PatchReject)
    /\ \A r \in Rec : WF_vars(StreamLost(r))

FairSpec == Spec /\ Fairness

-----------------------------------------------------------------------------
(* Properties                                                              *)

(***************************************************************************)
(* Every variable has its type; the backoff never exceeds its cap.         *)
(***************************************************************************)
TypeOK ==
    /\ dbEnabled \in BOOLEAN /\ registered \in BOOLEAN /\ disabled \in BOOLEAN
    /\ row \in [Path -> RowState]
    /\ recorder \in Rec \cup {NoRec}
    /\ backoff \in BackoffBase..BackoffMax /\ wait \in 0..BackoffMax
    /\ rec \in [Rec -> Recorder]
    /\ proc \in [Path -> {"none", "running", "exited"}]
    /\ task \in [Task -> TaskState]
    /\ patch \in {"none", "enable", "disable"}
    /\ online \in BOOLEAN /\ clash \subseteq Rec
    /\ patches \in 0..MaxPatches /\ faults \in 0..MaxFaults /\ restarts \in 0..MaxRestarts

(***************************************************************************)
(* The manager owns every recorder: one that is capturing is the source's  *)
(* recorder or in the hands of a thread that will install or stop it.      *)
(***************************************************************************)
Handled(r) == recorder = r \/ \E t \in Task : task[t].rec = r

OwnsRecorders == \A r \in Rec : Capturing(r) => Handled(r)

(***************************************************************************)
(* However timers, requests and threads interleave, a recorder that        *)
(* captures is the source's own or about to be stopped; it is lost only if *)
(* two threads were at odds about it.                                      *)
(***************************************************************************)
Leaving(r) == \E t \in Task : task[t].rec = r /\ task[t].kind \in {"stop", "discard"}

OwnsUnlessClash == \A r \in Rec : Capturing(r) => recorder = r \/ Leaving(r) \/ r \in clash

(***************************************************************************)
(* While no timer or request fires during a launch, a rotation or a stop,  *)
(* a source is never captured twice at the same time.                      *)
(***************************************************************************)
CapturedOnce == \A r, s \in Rec : Capturing(r) /\ Capturing(s) => r = s

(***************************************************************************)
(* A chunk is handed to the uploader once.                                 *)
(***************************************************************************)
FinalizedOnce == \A p \in Path : row[p] # "twice"

(***************************************************************************)
(* A chunk whose row is ended for the uploader is complete, its FFmpeg has *)
(* exited, unless two threads were at odds about the recorder that wrote   *)
(* it.                                                                     *)
(***************************************************************************)
HandedComplete ==
    [][\A p \in Path : row[p] = "open" /\ row'[p] = "ended" =>
           \/ proc[p] # "running"
           \/ \E t \in Task : task[t].pc = "finalize" /\ task[t].path = p /\ task[t].rec \in clash]_vars

(***************************************************************************)
(* An enabled source that stays on the network gets captured, whatever     *)
(* failed before.                                                          *)
(***************************************************************************)
OwnCapture == recorder # NoRec /\ Capturing(recorder)

EnabledIsCaptured ==
    [](<>OwnCapture \/ <>~dbEnabled \/ <>~online)

(***************************************************************************)
(* A source that stays disabled stops being captured.                      *)
(***************************************************************************)
DisabledIsReleased ==
    [](<>(\A r \in Rec : ~Capturing(r)) \/ <>dbEnabled)
=============================================================================
