# NDI recorder: TLA+ models, checks and proofs

Models of the recording service in `src/`: one Python process that captures NDI
sources through FFmpeg, cuts them into 30-minute chunks, uploads the chunks to
S3, compresses and expires them, and exports clips. The modules are translated
from the code; source references are `file:line` under `src/app/` unless a path
says otherwise.

The process runs as one gunicorn worker with eventlet: `wsgi.py` patches threads,
locks, queues and the database driver, so control moves from one thread to
another where code blocks. **A step of a model is what runs between two blocking
points**: a database round trip, a queue wait, a thread join, an NDI or FIFO
wait, an FFmpeg run, an S3 call, a file removal. Finer switches (between two
bytecodes of native threads) are not modelled. `GapFill` takes it for granted that
a thread blocked on a FIFO or on the NDI library holds up nobody else; whether
eventlet can keep that promise for a native call is outside the models.

## 1. Inventory

| Component | State | Operations | Interacts with |
|---|---|---|---|
| Recorder manager (`recorder/manager.py`) | `_states`: per source `recorder`, `disabled`, `backoff`, `retry_after` | launch, enable, disable, rotate, watchdog, create and finalize chunk rows | starts a thread per operation; calls recorders, the database, the uploader |
| Source recorder (`recorder/source_recorder.py`) | status, path, stop event, FFmpeg process, FIFOs, receive/keep-alive/timelapse threads | `start_chunk`, `stop_chunk`, receive loop, gap fill, preview | called by manager threads; blocks on NDI, FIFOs, FFmpeg |
| S3 uploader (`recorder/uploader.py`) | in-memory queue, one worker thread, `_running` | enqueue, upload, retry job, stop, streaming reads | queue fed by manager and retry job; rows, buffer files, bucket |
| Retention (`recorder/retention.py`) | a database session per pass | compress old chunks, delete expired ones | nightly job and API request; rows, bucket |
| Clip exporter (`recorder/clip_exporter.py`) | queue, one worker thread, scratch and output files | enqueue, export, recover at boot | API requests; reads chunk rows and files the uploader and retention change |
| Scheduler (`recorder/scheduler.py`) | APScheduler jobs, the trigger of the nightly pass, the hour noted for it | rotate at :00/:30, rescan, retry, retention, moving the nightly job, snapshot, disk check | calls all of the above; reads the settings |
| REST API (`api/__init__.py`) | retention lock, settings table | PATCH source, clips, markers, timeline, ranges, retention settings | manager, exporter, retention, scheduler (through the settings), rows |
| Watch page (`static/watch.js`) | panes with a source and its chunks, one video element each, window, master clock | refresh timelines, seek, play, reverse, drift correction, chunk ends | API; one handler at a time, interleaved with answers, media events, timers |
| Factory, settings, models, dashboard, logging, migrations | tables and configuration | boot; read-only pages | all |

What makes it hard: every manager operation is a thread of its own over the same
unlocked `_SourceState`; rows are read, acted on and written in different
transactions; S3, database and FFmpeg calls fail in between; queues live in
memory while rows live in the database; a restart can come between any two steps.

What makes each part correct: the manager captures an enabled source, once, and hands
every finished chunk over once and complete; the uploader never leaves footage nowhere
and stores what was finalized; retention replaces footage by its compressed version
before it drops the original and leaves no orphans; a clip that says done can be
downloaded and has the footage of its window, and every accepted clip ends; gap fill
keeps the recorded duration in line with the clock; the nightly pass comes once a day at
the hour that is set; the player shows each pane the footage of its own source at the
time of the master clock, and a range request gets the bytes it names. `PROJECT.json`
lists the hazards, each at its line, with the properties that cover it.

## 2. Modules

| Module | Models |
|---|---|
| `ChunkStore` | abstract: a chunk of footage is nowhere, buffered, stored, hidden (stored under a key its row does not name), expired; there is no "lost" |
| `Uploader` | rows, buffer files, bucket, queue, worker, retry job, and the recorder threads as the chunk sees them |
| `Manager` | manager and recorders of one source, each launch, rotation and stop a task |
| `Retention` | both passes, their session caches, the settings |
| `ClipExporter` | clip requests, exporter worker, the choice of chunks and the trim, recovery, chunk changes under way |
| `GapFill` | the threads of one chunk in a source recorder: receive loop, keep-alive, `stop_chunk`, and the clock |
| `Nightly` | the hour of the nightly pass: settings page, cron job, the hourly job that moves it, the clock |
| `Catalogue` | what the API answers to the watch page: timeline windows and byte ranges (pure) |
| `Player` | the watch page: panes, overlapping refreshes, seeks, playback both ways; extends `Catalogue` |
| `MCUploader`, `MCManager`, `MCRetention`, `MCClipExporter`, `MCGapFill`, `MCPlayer` | instances for TLC (`Nightly` needs none) |
| `UploaderProofs`, `GapFillProofs`, `ManagerProofs`, `ClipProofs`, `NightlyProofs`, `PlayerProofs`, `RetentionProofs` | theorems about the module each extends |
| `OwnershipProofs` | the theorems of `Manager` about who has a recorder; extends `ManagerProofs` |

`Uploader` and `Retention` both implement `ChunkStore`; `Retention` in turn takes
the recorder and the uploader to be what `ChunkStore` says (`Capture`, `Upload`),
and `ClipExporter` sees them as the three changes a chunk undergoes. `GapFill` is
the inside of what `Manager` has as one state, a recorder that captures, and of
its steps `close` and `wait`.

### Uploader
`rows` is the chunks table (status, ended, whether `local_path` is set, `s3_key`),
`buffer` the files, `s3` the bucket as key -> chunk, `label` the source's display
name. One iteration of `_work_loop` is `WorkerGet`, `CheckFile`, `MarkMissing` or
`MarkUploading`, `PutObject` or `PutFails`, `CommitUploaded`, `RemoveLocal`, with
`HandleFailure` for the except branch. `retry_failed` is two queries and a step
per candidate; a candidate is a snapshot, since the second query returns the
session's instance unrefreshed. `KeyOf` stands for `build_s3_key`: it depends on
the name and may send two chunks to one key, as two chunks begun in one minute do.
`Open`..`Abandon` say what the manager's threads do to a row, a failing
database call included.

### Manager
One source: the sources of a manager share only a lock no thread holds while it
blocks. A `Task` is a thread: `launch` (`_launch`), `rotate` (`_rotate`), `stop`
(`_stop_upload`), `discard` (`_safe_stop`). Its `pc` runs through `stop_chunk`
(begin, close, wait, teardown), `_finalize_chunk_db`, the query, `start_chunk`
(probe, open) and `_create_chunk_db`. The watchdog's `retry_after` is the
remaining `wait`; `Interval` passes between two of its rounds. `patch` is the
PATCH request between its call of the manager and its commit, or its refusal.
`DatabaseFails` ends a thread at any of its database calls, as nothing catches the error.
`clash` is history: the recorders two threads were at odds about, because one was to stop
a recorder that another was starting or stopping (`AtOdds`), or put another recorder, or
none, in its place (`Overridden`). Nothing in the code keeps threads from that.
Recorders, paths and threads are reused once nothing refers to them, so the
instances are finite although the service runs for ever.

### Retention
A pass walks its candidates: `Pick`, `Download`, `UploadCompressed`,
`DropOriginal`, `CommitCompressed`; then `QueryExpired`, `PickExpired`,
`EraseObject`, `ForgetRow`. `cache` is the session's identity map: a commit
expires it, a query leaves loaded instances alone. `Start` needs only the pass
itself to be idle: APScheduler runs one nightly job and the lock admits one
manual pass, and nothing keeps the two apart. Downloading and encoding are one
step, for nothing they do is visible outside the pass. `Served` is the rule of
`stream_chunk`, which plays the compressed key or else the original one and no other.
A chunk is `Proper` if its keys are its own: keys have the time in minutes (`StemOf`), and
an original recorded as "compressed" has the key of its compressed version (`TierOf`). The
model lets keys coincide; the properties about single chunks speak of the proper ones.
`broken` is history: the chunks a pass had in hand when it broke off between the delete of
an object and the commit of the row.

### ClipExporter
`Create`/`Enqueue` are `create_clip`, `DeleteRead`/`DeleteFile`/`DeleteRow` are
`delete_clip`. The worker claims a clip, queries the window, materializes chunk by chunk
(`Load`, `CheckChunk`, `Download`), runs FFmpeg and commits. Each progress commit
expires the session, so that the next chunk's row is read anew. A database call may fail
(`DatabaseFails`), and so may the one that marks the clip as failed (`FailRaises`) or
takes up clips at boot (`RecoverFails`); `lost` is history, the clips such a failure
leaves behind until the next boot. `Recover` is the boot's requeue. A chunk is `open`
until its row has an end, because it is being recorded or was abandoned; the query
passes over it. Time is whole units: `Overlapping` picks the chunks of a window in the
order of their beginning, `Frames` are the frames of their files, of which `Before`
gives those that come earlier when the files are joined without the gaps between them,
and `Cut` is the time of the frames that `-ss` and `-t` keep.

### GapFill
One chunk with gap filling on, from the moment its threads run. `recv` is the receive
thread (`Receive` a frame, an `Unreadable` block of audio, an `OtherFrame` with metadata
or status, which counts like a timeout and returns at once, or `NoFrame`, then
`ReceiveLock` and `ReceiveWrite`), `keep` the keep-alive thread (`Wake` computes what is
missing, `KeepLock` and `KeepWrite` write it block by block), `stop` the thread in
`stop_chunk` (`RequestStop`, `Join`, `CloseFifo`, `Finish`). `last`, `filled`, `cached`,
`pipe` and `lock` are `_last_*_write`, the padding counters, the cached frame,
`_video_fp`/`_audio_fp` and the write locks; `FramePeriod` and `Pace` are the clamped
frame period and the divisor of a round; `outage` is a history variable that remembers
the last real frame. FFmpeg may hang, go on (`Fault`, `Resume`) or die. `now` counts
time; `Advance` is disabled while a thread can run, so that computing takes no time, a
sleep takes its tick and at most `Jitter` more, and a write takes as long as FFmpeg
hangs.

### Nightly
`stored` is the row of `compression_hour`, `job` the trigger of the cron job and
`current` is `_current_retention_hour`. Time goes by hours: `Tick` makes jobs due that
stand at the hour, `Fire` starts a pass, `Sync` is `_sync_retention_schedule` later in
the hour, `Boot` registers both jobs anew. `Save` is the settings page, which sends
every field it shows, so that it writes the hour even if another field was edited. A
firing may be missed, a read or a reschedule may fail, the service may crash. The
trigger of the boot runs in UTC, the one `Sync` puts in its place in the server's zone,
`ahead` hours ahead, which `Shift` changes as daylight saving does; what a trigger makes
of an hour left out or repeated is left open. Zones are whole hours. `calm` and `since`
are history.

### Catalogue and Player
A `pane` is an object of `state.panes`, a `video` the element of a pane, which
outlives the object. A `refresh` is one call of `refreshTimelines`, which asks for one
pane after the other and is where handlers interleave: `Answered` fills the list of
the pane with what `Timeline` gives for the source and window of the request,
`ServerError` empties it, `Thrown` and `Unreachable` end the refresh. `alive` says that
the pane object the request closes over is still the one shown. `SeekAll` and `Moved`
are `seekAll` and `loadChunkInPane`, `LoadedMetadata`, `TimeUpdate`, `Roll` and
`OnPrimaryEnded` the media events, `ReverseTick` and `DriftCorrect` the timers.
A page opens with a source in the first pane and any in the others. `clean`, `trusted` and
`missed` are history: no answer overtook or failed the newest refresh; the last seek saw
current lists and loaded files; the refresh before the seek of a new source has failed, and
nobody has sought since. In `Catalogue`, `First`, `Last` and
`Refused` are `_parse_range`; `Named` is what HTTP says the header asks for.

## 3. Runs

| Run | Shows |
|---|---|
| `MCUploader` | `IInv`, `AlwaysServable`, `ImplementsStore` with renames, two database faults, a restart, a stop |
| `MCUploaderLive` | `EndedIsStored`, `InterruptedIsStored`, two chunks, a restart |
| `MCManager` | `CapturedOnce`, `EnabledIsCaptured`, `DisabledIsReleased`, with triggers that find no thread in flight |
| `MCManagerOverlap` | `FinalizedOnce`, `OwnsUnlessClash`, `HandedComplete` with three overlapping threads |
| `MCRetention` | `ImplementsStore`, `HiddenOnlyInHand`, `AgedIsCompressed` with both passes and every failure; `NoOrphans` of passes that are not disturbed |
| `MCClips` | `DoneIsDownloadable`, `ClipCovers`, `HandedOnce`, `TerminalIsFinal`, `EveryClipEnds` |
| `MCGapFill` | `PaddingWithinClock`, `HalfKept`, `SilenceIsReported`, `NoLateWrite`, `StopReturns`, with a hang or the death of FFmpeg |
| `MCNightly` | `HourInForce`, `PassEveryDay`, `PassOncePerDay`, `SettingTakesEffect` with two saves, a failure, a crash, a change of the clock |
| `MCPlayer` | `PlaysOwn`, `ListsCurrent`, `SeekArrives`, `RangeServed`, `ReverseStops` with two overlapping refreshes |

What they leave out is in their names and below: `MCManager` has neither overlapping
threads nor refused requests, `NoOrphans` no failing S3 call, `HalfKept` and
`SilenceIsReported` no failing FFmpeg, `ListsCurrent` and `SeekArrives` no overtaken or
failed refresh.

`MCUploader`, whose `IInv` contains it, and the runs of `MCManager`, `MCRetention`,
`MCClips`, `MCGapFill`, `MCNightly` and `MCPlayer` check the type invariant too.

Three more runs exhibit statements of the documentation the code does not keep:

| Run | Statement | What happens |
|---|---|---|
| `MCUploaderCompleted` | `README.md:102` chunks upload on completion | a pending chunk queued before a restart is never queued again (`uploader.py:81`) |
| `MCManagerOrphan` | `manager.py:4` owns every SourceRecorder | a launch outlasts the watchdog interval, a second one starts, and the later to finish replaces the earlier in the state while that captures on (`manager.py:274`) |
| `MCRetentionTier` | `README.md:455` only compressed versions remain | for quality "compressed" both keys are equal and the only copy is deleted (`retention.py:123`) |

Also met while modelling, and left open by the properties (their qualifications name
them): a PATCH refused after it disabled the source leaves it uncaptured while its row
says enabled (`api/__init__.py:76-97`, hence `RejectAllowed = FALSE` in `MCManager`);
FFmpeg's death leaves status "recording" and the watchdog content until the next
rotation (`source_recorder.py:453`); `_safe_stop` never finalizes (`manager.py:326`);
"stuck" compares the age of the row (`uploader.py:85`), so uploads under way are queued
again, and the duplicate turns an uploaded row into a failed one (`uploader.py:263`),
which is harmless to playback but shown as failed for ever; an error in the worker's
except branch ends the only worker (`uploader.py:256`); `stop()` does not drain
(`uploader.py:213`); a restart or a failing commit between delete and commit leaves a
row that names a deleted object, so that playback gets nothing although the compressed
version is in the bucket (`retention.py:134`, `broken` in `HiddenOnlyInHand` and
`AgedIsCompressed`); a failed S3 delete orphans the object (`retention.py:148`); two
chunks of a source begun in one minute share their keys, and what retention does to one
it does to the other; the nightly pass takes no lock (`scheduler.py:195`); a clip fails
when its chunk is uploaded between reading the row and testing the file
(`clip_exporter.py:217`); a restart leaves scratch directories behind; `README.md:111`
has SIGTERM finalize the current chunks, but nothing handles it, and the row stays open,
for the boot starts a new chunk and looks at no old one (`__init__.py:194-205`);
`delete_clip` tests once that no export runs, and the worker may claim the clip before
the row is deleted (`api/__init__.py:756-764`); a writer held up by a hung FFmpeg keeps
the lock that `stop_chunk` needs to close the FIFO, so the kill after 30 s is never
reached (`source_recorder.py:363`, hence the premise of `StopReturns`), and the next
rotation starts beside that one (`manager.py:137`); an error of the database ends a
rotation with its recorder stopped and its row open (`manager.py:291`, `352-373`);
thirty frames of metadata or status in a row end the receive loop at once, for they
count as timeouts (`source_recorder.py:484`); nothing is padded before a chunk's first
video frame (`source_recorder.py:559`), too little above 120 frames a second
(`source_recorder.py:550`), and too much below one (`source_recorder.py:302`); the
keep-alive thread reads the cached frame before it waits for the lock, so an older frame
may follow a newer one; each round of padding drops the remainder of its division
(`source_recorder.py:561`), at 60 frames per second a sixth of an outage of 1.5 s, which
`.env.example:48` and `source_recorder.py:545` promise to fill. `HalfKept` bounds these
losses: it is about what is padded from a stream's last frame on.

Of the nightly pass: its job runs in UTC after a boot and in the server's zone after the
first hourly check (`scheduler.py:224`), so that the hours between the two may have a
pass too many or too few, as when the clocks change, hence `calm` in `PassEveryDay` and
`PassOncePerDay`, which a misfire ends as well. `README.md:450`, the log
(`scheduler.py:88`, `220`) and the settings page call the hour UTC throughout: on a
server that keeps another zone that is wrong from the first check on. The two properties
are stated for the trigger's clock and do not speak of UTC. While the setting has no row
the page shows the default of a key nobody sets, and saving any other field makes it the
hour in place of the environment's (`api/__init__.py:413`).

Of clips: the joined files have no gaps, so a window with a gap inside yields a clip that
runs past its end (`clip_exporter.py:186-187`); `ClipCovers` says that it misses nothing
of the chunks that had ended when the worker looked. One that is being recorded, or was
abandoned with its row open, is passed over (`clip_exporter.py:139`), and the clip is done
without it. When the database call that should mark a clip as failed fails
(`clip_exporter.py:247`), or the one that recovers clips at boot (`74`), the clip stays
running or queued until the next boot, hence `lost` in `EveryClipEnds`.

Of the watch page: after a change of source the video keeps the old source's file until
the seek that follows the refresh, and for good when the refresh fails (`watch.js:110-120`),
hence `SeekDue` in `PlaysOwn`; a slower, older answer overwrites the list of a newer window
(`watch.js:141`), and an error empties it, hence `clean` in `ListsCurrent`; "Go to" and
"Live" seek on the lists of the old window and never again when the new ones arrive
(`watch.js:639-651`), and the end of a chunk seeks into the gap behind it rather than to
the next chunk, hence `trusted` in `SeekArrives`; the day filter of the recordings ends at
23:59:00 (`api/__init__.py:172`); a range whose end lies past the object is refused with
416 where HTTP cuts it off (`api/__init__.py:296`), which `RangeServed` leaves out.

### Bounds and why they are enough
- `MCUploader`: one chunk, two names, three items. Three is one more than the
  duplicates that can meet (worker's, queued, retry's); two database faults reach
  the worker's death in its except branch. Several chunks with shared keys and
  every other bound are what the theorems are for.
- `MCUploaderLive`: two chunks compete for one worker; one restart.
- `MCManager`: a reconnect needs two tasks and two recorders. Backoff 1, cap 3, interval 2
  cross the cap and leave rounds in which the watchdog has to wait. `Overlap = FALSE` is
  an assumption, not something the code ensures: timers and requests come when
  no thread runs. `MCManagerOrphan` is what happens without it.
- `MCManagerOverlap`: a third task overlaps a rotation with a launch and a stop, or a second
  rotation. No bound on time remains: the backoff is 0, so the watchdog retries at
  every wake, which is every behaviour a backoff allows and more. One PATCH request is at
  work at a time, repeated or refused. Faults and restarts together with overlap are what
  the theorems are for.
- `MCRetention`: two chunks of different tiers, both passes, ages up to a day past the
  raw window; `retention_compressed_days` at the window and 0 (never); two failing S3
  calls (an upload and a delete) and one failing commit or restart. Both chunks are proper;
  shared keys are for the theorems and, for quality "compressed", `MCRetentionTier`.
- `MCClips`: two chunks with a gap between them and two windows: one lies inside the
  chunks, one begins in the gap. They share a chunk, so that it is used in place by one
  clip and downloaded by the other. Either may be open while the worker looks, and one call
  may fail, of the database too.
- `MCGapFill`: 25 frames per second in units of 10 ms (a frame is 4 units, a gap 6;
  audio blocks 2, gap 10; tick 2, jitter 1; 15 units in all) reach two rounds of
  padding of each stream, a source that is given up, a hang inside a write and a
  stop that meets it. The two frames are any mix of video and audio. `CaptureWait`
  and `MaxTimeouts` are scaled down from 1 s and 30.
- `MCNightly`: days of the real 24 hours. The hours to choose from are the first and the last
  of a day, so that moves go over midnight in both directions;
  environment and form default differ from them and from each other; the server is one
  hour ahead of UTC, two in summer. Two saves move the
  job twice; `calm` and `since` stop a day and an hour on.
- `MCPlayer`: two panes and two refreshes are the least that can overtake each other; one
  source with a gap and an open chunk, one with a row a crash left open behind a closed
  one; a window of four units over seven, so that moving it changes both lists; three
  acts are a change of source, a move and a seek, or a failure in place of one.
- Counters of faults, restarts, patches and updates bound only how often the
  world may misbehave; every one is a named constant.

`CHECK_DEADLOCK FALSE` is set for `Manager` (a disabled source with no patches
left may rest), `ClipExporter` (all clips ended), `GapFill` (the chunk is over,
or every thread waits for a hung FFmpeg) and `Player` (an operator who does nothing
more); the others never stop, for the retry job, the nightly pass and the clock run for
ever. `MCManagerOverlap` uses the
symmetry of recorders, paths and threads, for properties of states and steps only.

### Fairness
- Uploader: weak fairness of the worker and the retry job (a thread that can run
  runs; APScheduler fires every 5 minutes), of time, and strong fairness of
  `PutObject`: an upload tried again and again succeeds in the end. Nothing is
  assumed of recorders, operator and database.
- Manager: weak fairness of each thread, of a request in progress and of a receive
  loop without frames; strong fairness of the timers, which fire again and again
  but are disabled while a thread runs. The network owes nothing, so
  `EnabledIsCaptured` is about a source that stays online.
- Retention: weak fairness of the start of the nightly pass, of the steps of a pass that has
  begun, and of time. Nothing makes the operator start a manual pass.
- Clips: weak fairness of worker, boot and accepted requests.
- GapFill: weak fairness of the two threads, of the clock, of the request to stop
  (every chunk is rotated) and of the steps of `stop_chunk`. FFmpeg owes nothing;
  `StopReturns` is about one that does not hang for ever.
- Nightly: weak fairness of time and the scheduler together (`Work`: a due job runs
  before time goes on, or fails, which is bounded) and of the boot (systemd restarts).
- Player: weak fairness of the reverse stepper's timer only; requests may stay
  unanswered and files may never load.

## 4. Proofs

`UploaderProofs` proves, for every set of chunks, names and keys, every `KeyOf`
and every bound (assumptions `KeyOfAssumption`, `NullAssumption`,
`BoundAssumption` of `Uploader`):

- `TypeCorrect`: `Spec => []TypeOK`;
- `InvariantHolds`: `Spec => []IInv`;
- `Servable`: `Spec => []AlwaysServable`;
- `Refinement`: `Spec => ImplementsStore`.

`AlwaysServable` is not inductive: it says nothing of what is in the queue, the
retry job or the worker's hands, and a stale item could do anything. `IInv` adds
four reasons. *WorkGenuine*: whatever is under way concerns a row and a key built
for that chunk. *RowOncePerChunk*: a recorder inserts a row once, so a row is
never reset to "pending". *KeysStored*: the bucket holds under a key only what
some chunk's metadata put there, and a row names a key only after the transfer.
*FileKept*: the file of a captured chunk is kept until its row names a key. Every
conjunct is preserved in a lemma of its own, by cases on the action; `Refinement`
evaluates the refinement mapping under `IInv` (`PlaceOf`) and shows each step to
be a capture, a store or a stutter.

`GapFillProofs` proves, for every frame rate, tick, jitter and threshold and without
a bound on time (assumptions `StreamAssumption`, `UnitAssumption`,
`ClockAssumption` of `GapFill`):

- `GapTypes`: `Spec => []TypeOK`, which includes who holds which lock;
- `NothingLate`: `Spec => NoLateWrite`;
- `PaddingFits`: `Spec => []PaddingWithinClock`, from one frame a second on;
- `HalfIsKept`: `Spec => []HalfKept`, up to 120 frames a second;
- `SilenceBounded`: `Spec => []SilenceIsReported`.

`NoLateWrite` rests on `HeldIsOpen`: the FIFO of a held lock is open, since `stop_chunk`
closes it under the lock. `PaddingWithinClock` says nothing of a round under way;
`PadInv` adds that the rest of a round fits into the time since the last write before
it. For `HalfKept`, `Calm` adds that while FFmpeg reads a round takes no time, `Half`
that what is left of the round brings the padding up to half of the time to the last
write, and `Tended` that the last write is never longer ago than the keep-alive takes to
notice, so that a thread that never padded would violate it; the arithmetic, that a
quotient above one loses at most half to its remainder, is in the lemmas `Division`,
`Duration` and `MissingFacts`. `SilenceIsReported` becomes inductive with `Quiet`: while
FFmpeg reads, a frame on its way to the FIFO is as old as the present (`OnItsWay`), and
a wait ends one `CaptureWait` per counted timeout after the last frame (`WaitBounded`).

`ManagerProofs` proves, for every set of recorders, paths and threads, with refused
requests and overlapping threads allowed (assumptions of `Manager`):

- `TypeCorrect`: `Spec => []TypeOK`, by way of `Placed`: a thread that starts, stops or
  finalizes has the recorder or path it needs in hand;
- `HandedOnce`: `Spec => []FinalizedOnce`.

A finalized path must not be finalized again, which says nothing of who might.
`Custody` adds it: the path of a chunk is with one recorder, or with one thread that has
taken it from there, or nowhere, and a path that was handed over is nowhere.

`OwnershipProofs` proves two more properties of `Manager`, for every number of recorders,
files and threads, every overlap of timers, requests and threads, and with failures,
restarts, and repeated and refused requests:

- `RecordersOwned`: `Spec => []OwnsUnlessClash`;
- `HandedWhole`: `Spec => HandedComplete`.

Neither assumes `~Overlap` or `~Repeat`, for the code ensures neither. What it cannot keep
is named instead: `MCManagerOrphan` refutes ownership outright, and a rotation that takes a
recorder up again while a stop is between `stop_chunk` and `_finalize_chunk_db` lets that
stop finalize the chunk just begun. Both need two threads at odds about a recorder, which
is what `clash` records, and the theorems say that nothing else loses a capture or hands
over a file that is still written.

The argument has two layers. `Owning`: a thread is where its errand takes it (`Fits`),
two threads that hold one recorder are at odds (`Alone`), a rotation works on the
recorder of the source (`Stays`), a thread past `close` has ended the receive loop
(`Silent`), and every loop belongs to the recorder of the source or one that a thread is
about to stop (`Known`). `Wiring` adds the files: an FFmpeg that writes belongs to the
recorder that names its file (`Feed`), a thread in `stop_chunk` waits for its own and
goes on when it has exited (`Wired`), and a start does not write into a chunk that
another thread finalizes (`Apart`).

That a source is captured by one recorder at a time (`CapturedOnce`) needs more than that,
and is model-checked only, without overlap.

`ClipProofs` proves, for every finite set of clips and of chunks that do not overlap, as
those of one source do not (`FootageAssumption`; when a chunk ends, and whether, is up
to the behaviour), all windows and any number of faults and restarts:

- `TypeCorrect`: `Spec => []TypeOK`;
- `BuiltOnce`: `Spec => []HandedOnce`;
- `Downloadable`: `Spec => []DoneIsDownloadable`;
- `Final`: `Spec => TerminalIsFinal`;
- `Covers`: `Spec => []ClipCovers`.

The inductive invariant `Custody` adds to the two state properties that the clip in the
worker's hands is running or was deleted meanwhile (`Working`), that a clip under way in a
request is queued or was deleted meanwhile (`Pending`), that a boot finds queue and worker
empty (`Booting`), and that the worker commits a clip only with its file there (`Output`).

For `ClipCovers`, `Walk` says that from the query to the commit the worker holds chunks
in the order of time (`Sorted`) among which are all that overlap the window, had ended
when it looked and still exist (`Complete`), since retention only ever takes chunks
away. The rest is counting, in `FrameKept`: the frames before a frame of the window are
no more than the instants since the first one, gaps or not, so `-t` does not cut it off,
and no fewer than those `-ss` skips.

`NightlyProofs` proves, for every length of the day, choice of hours and offsets the
server's zone may change between:

- `TypeCorrect`: `Spec => []TypeOK`;
- `InForce`: `Spec => []HourInForce`;
- `EveryDay`: `Spec => []PassEveryDay`, and `OncePerDay`: `Spec => PassOncePerDay`.

For the hour in force, `Agreed` adds that a noted hour is that of the trigger. For the
passes, `Moved` adds that two hours of calm leave the trigger at the hour set in the
server's zone; `AtMost` and `AtLeast` bound the time since the last pass by `Past`, the
hours since the clock last stood there, from above and from below.

`PlayerProofs` proves, for any number of panes, refreshes and chunks:

- `TypeCorrect`: `Spec => []TypeOK`;
- `OwnFootage`: `Spec => []PlaysOwn`;
- `CurrentLists`: `Spec => []ListsCurrent`;
- `SeeksArrive`: `Spec => []SeekArrives`;
- `RangesServed`: `Spec => []RangeServed`.

What a pane counts as playing comes from its list (`OwnLists`: lists hold chunks of the
pane's source), and a list from an answer (`OwnAnswers`: a request that will still be
heard asks for the source its pane shows). That a seek picks a member of the list needs
a least beginning, which `Least` gets from the well-foundedness of the natural numbers.

A list is current only when the whole refresh is through; `Filled` says the same of each
pane that the newest refresh has passed, and `Heard` that this refresh still speaks for the
window and the panes shown. A seek is not over when it returns: `Arrived` says of every
pane that its video shows the chunk at the clock or will, once the metadata are loaded,
jump to the place the seek noted (`Rests`). `RangeServed` is arithmetic on `_parse_range`
(`RangeExact`).

`RetentionProofs` proves, for any number of chunks, of passes side by side and of failures
(assumptions of `Retention`):

- `TypeCorrect`: `Spec => []TypeOK`, by way of `Walk`: what a row, a pass or the cache of
  its session names are keys of the chunk itself, and a pass has only chunks in hand that
  were uploaded once;
- `Refinement`: `Spec => ImplementsStore`;
- `PlayedUnlessInHand`: `Spec => []HiddenOnlyInHand`;
- `NothingOrphaned`: `Spec => []NoOrphans`.

Nothing is assumed of the keys: other chunks may share theirs or be recorded as
"compressed", the case `MCRetentionTier` refutes, and the theorems are about those that are
`Proper`.

That footage is kept is not inductive: a pass that was overtaken acts on what it read long
ago. `Inv` adds that a pass drops an original, and writes the row, only when the compressed
version is in the bucket (`Dropped`), and `ObjectsLast` shows that this version stays there
until its chunk is doomed, because every delete goes to a key of the chunk in hand.
`BucketMoves` and `RowStep` reduce the actions to four changes of the bucket and
four of a row, and the refinement follows from these, `PlaceMoves` chunk by chunk.

For `HiddenOnlyInHand`, `Ready` adds that a pass about to delete the original or to commit
the row has the compressed version in the bucket, unless another pass has erased it and is
about to forget the row, or has broken off there.

`NoOrphans` is about passes that nothing disturbs, and adds what then holds. `Settled`: one
pass runs at a time (`Alone`). `Clean`: the cache of the session agrees with the rows, so
that what a pass has in hand is still uploaded, or compressed, as it was when it was listed
(`Tidies`); every object is named by a row or about to be (`Named`); and an object that a
row is about to stop naming is gone already (`Gone`).

Every invariant and action property a passing run checks is thus stated by a theorem,
except `CapturedOnce`.
Model-checked only as well, because fairness and ENABLED are beyond the prover: the liveness
properties `EndedIsStored`, `InterruptedIsStored`, `EnabledIsCaptured`,
`DisabledIsReleased`, `AgedIsCompressed`, `EveryClipEnds`, `StopReturns`,
`SettingTakesEffect` and `ReverseStops`; and the three runs that refute a statement.

## 5. Plan

1. *(done)* `ChunkStore`, `Uploader` and its proofs; `Manager`; `Retention`;
   `ClipExporter`; `GapFill` and its first proofs.
2. *(done)* The trim of clips in `ClipExporter`; `Nightly`; `Catalogue` and `Player`.
3. *(done)* Proofs of every safety property that a run checks but `CapturedOnce`, and of both
   refinements.
4. `Lifecycle`: `Uploader` with `Retention` and `ClipExporter` over one table and bucket,
   implementing `ChunkStore` as a whole. Each is so far checked against what
   `ChunkStore` says of the others.
5. Proofs: the safety halves of the liveness properties, such as what `EveryClipEnds`
   needs of the queue and `StopReturns` of the locks.

## 6. Not modelled

Dashboard pages, logging, migrations, previews and timelapse stills (read-only or
write-only output), the system snapshot and the disk check (reports), the list of
recordings and its day filter, markers (plain rows); on the watch page the selection of a
clip, the marker and clip lists, rendering, and the preload of the next chunk, which only
warms a cache. Media content, encoder settings and file names are abstracted to the
identity of a chunk; a chunk's path is unique in the models although its name has a
resolution of one second (`manager.py:340`). Validation of request fields is reduced to
accepted or refused.
