------------------------------ MODULE GapFill ------------------------------
(***************************************************************************)
(* app/recorder/source_recorder.py, from the moment the threads of a chunk *)
(* run until stop_chunk returns: the receive loop that writes NDI frames   *)
(* into FFmpeg's FIFOs, the keep-alive thread that pads the FIFOs while    *)
(* frames are missing, their write locks, and stop_chunk.                  *)
(*                                                                         *)
(* Time is a counter.  It stands still while a thread has something to do, *)
(* so that whatever a thread computes takes no time; a sleep takes its     *)
(* tick and up to Jitter more, and a write takes as long as FFmpeg hangs.  *)
(***************************************************************************)
EXTENDS Integers

CONSTANTS
    Stream,        \* the recorded streams: "video", and "audio" unless record_audio is off
    Block,         \* stream -> how long one block of padding lasts in the recording: a
                   \* period of the frame rate FFmpeg was given, 20 ms of silence
    Slowest,       \* the longest frame period that start_chunk believes: 1 s
    Assumed,       \* the one it assumes otherwise: 1/30 s
    Floor,         \* the shortest one the keep-alive thread reckons with: 1/120 s
    AudioGap,      \* _AUDIO_GAP_THRESHOLD
    Tick,          \* _KEEPALIVE_TICK
    Jitter,        \* by how much a sleep may outlast its tick
    CaptureWait,   \* timeout of recv_capture_v2
    MaxTimeouts,   \* MAX_CONSECUTIVE_TIMEOUTS
    MaxTime,       \* bound: the chunk is stopped by then
    MaxFrames,     \* bound: frames the source delivers
    MaxFaults      \* bound: hangs and the death of FFmpeg

ASSUME StreamAssumption == Stream \in {{"video"}, {"video", "audio"}}
ASSUME BlockAssumption ==
    /\ Block \in [Stream -> Nat \ {0}]
    /\ Slowest \in Nat /\ Assumed \in Nat /\ Floor \in Nat \ {0}
    /\ AudioGap \in Nat
    /\ "audio" \in Stream => Block["audio"] <= AudioGap
ASSUME ClockAssumption ==
    /\ Tick \in Nat \ {0}
    /\ Jitter \in Nat
    /\ CaptureWait \in Nat \ {0}
    /\ MaxTimeouts \in Nat \ {0}

VARIABLES
    now,        \* time.monotonic(); the chunk starts at 0
    last,       \* stream -> _last_video_write, _last_audio_write
    filled,     \* stream -> padding blocks written: frames_filled, audio_silence_bytes
    cached,     \* _last_video_bytes is there
    lastFrame,  \* _last_frame_time
    pipe,       \* stream -> whether _video_fp, _audio_fp is open
    lock,       \* stream -> who holds its write lock
    recv,       \* the receive thread
    keep,       \* the keep-alive thread
    stop,       \* stop_chunk; the stop event is set from its first step on
    ffmpeg,     \* whether FFmpeg reads its FIFOs
    status,     \* the recorder's status
    outage,     \* history: stream -> when its last real frame was written, and filled then
    frames, faults

budgets == <<frames, faults>>
vars    == <<now, last, filled, cached, lastFrame, pipe, lock, recv, keep, stop,
             ffmpeg, status, outage, frames, faults>>

Stopped == stop # "running"

(***************************************************************************)
(* A thread in "write" holds the lock and is inside fp.write; in "lock" it *)
(* waits for the lock.                                                     *)
(***************************************************************************)
Recv == [pc : {"capture", "lock", "write", "exited"}, stream : Stream,
         timeouts : Nat, until : Nat]
Keep == [pc : {"sleep", "lock", "write", "exited"}, stream : Stream,
         left : Nat, woke : Nat, due : Nat]

\* The threads of the chunk have just been started; the time start_chunk took
\* since it set _last_frame_time is left out.
Init ==
    /\ now = 0
    /\ last = [s \in Stream |-> 0]
    /\ filled = [s \in Stream |-> 0]
    /\ cached = FALSE
    /\ lastFrame = 0
    /\ pipe = [s \in Stream |-> "open"]
    /\ lock = [s \in Stream |-> "free"]
    /\ recv = [pc |-> "capture", stream |-> "video", timeouts |-> 0, until |-> CaptureWait]
    /\ keep = [pc |-> "sleep", stream |-> "video", left |-> 0, woke |-> 0, due |-> Tick]
    /\ stop = "running"
    /\ ffmpeg = "reading"
    /\ status = "recording"
    /\ outage = [s \in Stream |-> [since |-> 0, filled |-> 0]]
    /\ frames = 0 /\ faults = 0

-----------------------------------------------------------------------------
(* The FIFO writers, _write_video and _write_audio *)

\* A writer that finds the pipe closed gives the lock back and writes nothing.
Acquire(s, who) ==
    /\ lock[s] = "free"
    /\ lock' = IF pipe[s] = "open" THEN [lock EXCEPT ![s] = who] ELSE lock
\* Mutant: a failed write leaves the lock behind.
MutantRelease(s, ok) == IF ok THEN [lock EXCEPT ![s] = "free"] ELSE lock

Release(s, ok) == [lock EXCEPT ![s] = "free"]
\* Mutant: only the receive loop notes the time of its writes.
MutantStamp(s) == IF recv.pc = "write" /\ recv.stream = s
                  THEN [last EXCEPT ![s] = now] ELSE last

Stamp(s) == [last EXCEPT ![s] = now]

\* fp.write comes back once FFmpeg reads or is dead; it raises if it is dead.
Returns == ffmpeg # "hung"
Written == ffmpeg = "reading"

-----------------------------------------------------------------------------
(* _receive_loop *)

RecvExit == [pc |-> "exited", stream |-> "video", timeouts |-> 0, until |-> 0]

\* The top of the loop: leave if the stop event is set, else wait for a frame.
NextCapture(n) ==
    IF Stopped THEN RecvExit
    ELSE [pc |-> "capture", stream |-> "video", timeouts |-> n, until |-> now + CaptureWait]

\* Mutant: one timeout too many.
MutantGivesUp(n) == n > MaxTimeouts

GivesUp(n) == n >= MaxTimeouts

\* A frame arrives; audio is freed and forgotten when it is not recorded.
Receive(s) ==
    /\ recv.pc = "capture" /\ frames < MaxFrames
    /\ frames' = frames + 1
    /\ lastFrame' = now
    /\ cached' = (cached \/ s = "video")
    /\ recv' = IF s \in Stream
               THEN [pc |-> "lock", stream |-> s, timeouts |-> 0, until |-> 0]
               ELSE NextCapture(0)
    /\ UNCHANGED <<now, last, filled, pipe, lock, keep, stop, ffmpeg, status, outage, faults>>

(* A frame whose data cannot be read: audio is skipped, while a video      *)
(* frame's exception ends the thread, and nobody notices.                  *)
Unreadable(s) ==
    /\ recv.pc = "capture" /\ frames < MaxFrames
    /\ frames' = frames + 1
    /\ lastFrame' = now
    /\ recv' = IF s = "audio" THEN NextCapture(0) ELSE RecvExit
    /\ UNCHANGED <<now, last, filled, cached, pipe, lock, keep, stop, ffmpeg, status, outage, faults>>

\* Anything but video and audio counts as a timeout.
CountTimeout ==
    IF GivesUp(recv.timeouts + 1)
    THEN /\ status' = "error"
         /\ recv' = RecvExit
    ELSE /\ recv' = NextCapture(recv.timeouts + 1)
         /\ UNCHANGED status

NoFrame ==
    /\ recv.pc = "capture" /\ now >= recv.until
    /\ CountTimeout
    /\ UNCHANGED <<now, last, filled, cached, lastFrame, pipe, lock, keep, stop, ffmpeg,
                   outage, budgets>>

\* Metadata, or a change of status: the capture returns at once.
OtherFrame ==
    /\ recv.pc = "capture" /\ frames < MaxFrames
    /\ frames' = frames + 1
    /\ CountTimeout
    /\ UNCHANGED <<now, last, filled, cached, lastFrame, pipe, lock, keep, stop, ffmpeg,
                   outage, faults>>

ReceiveLock ==
    /\ recv.pc = "lock"
    /\ Acquire(recv.stream, "receive")
    /\ recv' = IF pipe[recv.stream] = "open" THEN [recv EXCEPT !.pc = "write"] ELSE RecvExit
    /\ UNCHANGED <<now, last, filled, cached, lastFrame, pipe, keep, stop, ffmpeg, status,
                   outage, budgets>>

ReceiveWrite ==
    LET s == recv.stream IN
    /\ recv.pc = "write" /\ Returns
    /\ lock' = Release(s, Written)
    /\ IF Written
       THEN /\ last' = Stamp(s)
            /\ outage' = [outage EXCEPT ![s] = [since |-> now, filled |-> filled[s]]]
            /\ recv' = NextCapture(0)
       ELSE /\ recv' = RecvExit
            /\ UNCHANGED <<last, outage>>
    /\ UNCHANGED <<now, filled, cached, lastFrame, pipe, keep, stop, ffmpeg, status, budgets>>

-----------------------------------------------------------------------------
(* _keepalive_loop *)

\* start_chunk's guard against implausible frame rates.
FramePeriod == IF Block["video"] <= Slowest THEN Block["video"] ELSE Assumed

\* The time that one block is taken to make up for.
Pace(s) == IF s = "audio" THEN Block["audio"]
           ELSE IF FramePeriod > Floor THEN FramePeriod ELSE Floor

\* Silence is padded once it is longer: 1.5 periods, 100 ms.
Gap(s) == IF s = "audio" THEN AudioGap ELSE (3 * Pace("video")) \div 2

\* Mutant: the threshold of audio for both streams.
MutantMissing(s, t) ==
    IF t - last[s] > AudioGap /\ (s = "video" => cached)
    THEN (t - last[s]) \div Pace(s) ELSE 0

\* Blocks of padding due for s, as computed at time t.
Missing(s, t) ==
    IF t - last[s] > Gap(s) /\ (s = "video" => cached)
    THEN (t - last[s]) \div Pace(s) ELSE 0

KeepExit == [pc |-> "exited", stream |-> "video", left |-> 0, woke |-> 0, due |-> 0]

\* The top of the loop.
Sleep == IF Stopped THEN KeepExit
         ELSE [pc |-> "sleep", stream |-> "video", left |-> 0, woke |-> 0, due |-> now + Tick]

Fill(s, t) == [pc |-> "lock", stream |-> s, left |-> Missing(s, t), woke |-> t, due |-> 0]

\* After the video: audio, judged by the time the thread woke up.
Audio(t) == IF "audio" \in Stream /\ Missing("audio", t) > 0 THEN Fill("audio", t) ELSE Sleep

Wake ==
    /\ keep.pc = "sleep" /\ now >= keep.due
    /\ keep' = IF Missing("video", now) > 0 THEN Fill("video", now) ELSE Audio(now)
    /\ UNCHANGED <<now, last, filled, cached, lastFrame, pipe, lock, recv, stop, ffmpeg,
                   status, outage, budgets>>

KeepLock ==
    /\ keep.pc = "lock"
    /\ Acquire(keep.stream, "keepalive")
    /\ keep' = IF pipe[keep.stream] = "open" THEN [keep EXCEPT !.pc = "write"] ELSE KeepExit
    /\ UNCHANGED <<now, last, filled, cached, lastFrame, pipe, recv, stop, ffmpeg, status,
                   outage, budgets>>

\* One block is written; then the next one, the other stream or a new round.
AfterBlock(s) ==
    IF keep.left > 1 THEN [keep EXCEPT !.pc = "lock", !.left = @ - 1]
    ELSE IF s = "video" THEN Audio(keep.woke)
    ELSE Sleep

KeepWrite ==
    LET s == keep.stream IN
    /\ keep.pc = "write" /\ Returns
    /\ lock' = Release(s, Written)
    /\ IF Written
       THEN /\ last' = Stamp(s)
            /\ filled' = [filled EXCEPT ![s] = @ + 1]
            /\ keep' = AfterBlock(s)
       ELSE /\ keep' = KeepExit
            /\ UNCHANGED <<last, filled>>
    /\ UNCHANGED <<now, cached, lastFrame, pipe, recv, stop, ffmpeg, status, outage, budgets>>

-----------------------------------------------------------------------------
(* stop_chunk *)

RequestStop ==
    /\ stop = "running"
    /\ stop' = "join"
    /\ UNCHANGED <<now, last, filled, cached, lastFrame, pipe, lock, recv, keep, ffmpeg,
                   status, outage, budgets>>

\* A join returns when the thread has ended.  Its timeout is longer than any
\* wait of a thread but the one for FFmpeg.
Joined(t) ==
    \/ t.pc = "exited"
    \/ t.pc \in {"lock", "write"} /\ lock[t.stream] # "free" /\ ffmpeg = "hung"

Join ==
    /\ stop = "join" /\ Joined(recv) /\ Joined(keep)
    /\ stop' = "video"
    /\ UNCHANGED <<now, last, filled, cached, lastFrame, pipe, lock, recv, keep, ffmpeg,
                   status, outage, budgets>>

\* Mutant: the FIFO is closed under a writer.
MutantCanClose(s) == TRUE

CanClose(s) == lock[s] = "free"

CloseFifo(s, next) ==
    /\ stop = s
    /\ s \in Stream => CanClose(s)
    /\ stop' = next
    /\ pipe' = [t \in Stream |-> IF t = s THEN "closed" ELSE pipe[t]]
    /\ UNCHANGED <<now, last, filled, cached, lastFrame, lock, recv, keep, ffmpeg, status,
                   outage, budgets>>

\* The FIFOs are removed and the last frame is dropped.
Teardown == cached' = FALSE

\* FFmpeg reads the end of its inputs and exits, or is killed.
Finish ==
    /\ stop = "wait"
    /\ stop' = "returned"
    /\ ffmpeg' = "dead"
    /\ Teardown
    /\ status' = "idle"
    /\ UNCHANGED <<now, last, filled, lastFrame, pipe, lock, recv, keep, outage, budgets>>

StopStep == Join \/ CloseFifo("video", "audio") \/ CloseFifo("audio", "wait") \/ Finish

-----------------------------------------------------------------------------
(* FFmpeg and the clock *)

Fault(to) ==
    /\ ffmpeg # "dead" /\ ffmpeg # to /\ faults < MaxFaults
    /\ ffmpeg' = to
    /\ faults' = faults + 1
    /\ UNCHANGED <<now, last, filled, cached, lastFrame, pipe, lock, recv, keep, stop,
                   status, outage, frames>>

Resume ==
    /\ ffmpeg = "hung"
    /\ ffmpeg' = "reading"
    /\ UNCHANGED <<now, last, filled, cached, lastFrame, pipe, lock, recv, keep, stop,
                   status, outage, budgets>>

\* A thread that is neither waiting for time to pass nor held up.
Ready(t) ==
    \/ t.pc = "lock" /\ lock[t.stream] = "free"
    \/ t.pc = "write" /\ Returns

Advance ==
    /\ ~ Ready(recv) /\ ~ Ready(keep)
    /\ recv.pc = "capture" => now < recv.until
    /\ keep.pc = "sleep" => now < keep.due + Jitter
    /\ recv.pc = "capture" \/ keep.pc = "sleep"
    /\ now < MaxTime \/ Stopped
    /\ now' = now + 1
    /\ UNCHANGED <<last, filled, cached, lastFrame, pipe, lock, recv, keep, stop, ffmpeg,
                   status, outage, budgets>>

ReceiveStep == NoFrame \/ ReceiveLock \/ ReceiveWrite
KeepStep    == Wake \/ KeepLock \/ KeepWrite

Next ==
    \/ \E s \in {"video", "audio"} : Receive(s) \/ Unreadable(s)
    \/ OtherFrame \/ NoFrame \/ ReceiveLock \/ ReceiveWrite
    \/ Wake \/ KeepLock \/ KeepWrite
    \/ RequestStop \/ Join \/ CloseFifo("video", "audio") \/ CloseFifo("audio", "wait") \/ Finish
    \/ Fault("hung") \/ Fault("dead") \/ Resume \/ Advance

Spec == Init /\ [][Next]_vars

(***************************************************************************)
(* A thread that can run runs, time goes by, and the scheduler rotates     *)
(* every chunk.                                                            *)
(***************************************************************************)
FairSpec ==
    /\ Spec
    /\ WF_vars(ReceiveStep) /\ WF_vars(KeepStep)
    /\ WF_vars(Advance)
    /\ WF_vars(RequestStop) /\ WF_vars(StopStep)

-----------------------------------------------------------------------------
(* Properties *)

(* Every variable has its type; a thread that writes holds the lock of its
   stream and no other does; the receive loop counts only timeouts it
   survives. *)
TypeOK ==
    /\ now \in Nat /\ lastFrame \in Nat
    /\ last \in [Stream -> Nat] /\ filled \in [Stream -> Nat]
    /\ cached \in BOOLEAN
    /\ pipe \in [Stream -> {"open", "closed"}]
    /\ lock \in [Stream -> {"free", "receive", "keepalive"}]
    /\ recv \in Recv /\ recv.timeouts < MaxTimeouts
    /\ keep \in Keep
    /\ stop \in {"running", "join", "video", "audio", "wait", "returned"}
    /\ ffmpeg \in {"reading", "hung", "dead"}
    /\ status \in {"recording", "error", "idle"}
    /\ outage \in [Stream -> [since : Nat, filled : Nat]]
    /\ frames \in Nat /\ faults \in Nat
    /\ \A s \in Stream :
        /\ lock[s] = "receive" <=> recv.pc = "write" /\ recv.stream = s
        /\ lock[s] = "keepalive" <=> keep.pc = "write" /\ keep.stream = s

(* Padding does not make up time: the padding of a chunk is never longer
   than the time up to its last write, whatever order the two writers get
   the lock in and however long a write takes (source_recorder.py:553-589).
   That is so unless a source advertises less than one frame a second: then
   a block lasts longer than the time it is meant to make up for. *)
PaddingWithinClock ==
    \A s \in Stream : Block[s] <= Pace(s) => Block[s] * filled[s] <= last[s] /\ last[s] <= now

\* A thread is about to write blocks or a frame of s.
Filling(s)    == keep.pc \in {"lock", "write"} /\ keep.stream = s
Delivering(s) == recv.pc \in {"lock", "write"} /\ recv.stream = s

\* FFmpeg has kept reading so far.
Smooth == faults = 0 /\ ~ Stopped

(* As long as FFmpeg reads, padding makes up for at least half of the time
   that no frame has come for, except for what may pass before an outage is
   noticed and between two rounds: although each round drops the remainder of
   its division, and however late the thread wakes up, nothing else is lost
   (source_recorder.py:553-589).  There is no padding of video before a
   chunk's first frame, and too little beyond 120 frames a second. *)
HalfKept ==
    Smooth => \A s \in Stream :
        /\ ~ Filling(s) /\ ~ Delivering(s)
        /\ s = "video" => cached
        /\ Block[s] >= Pace(s)
        => now - outage[s].since <=
               2 * Block[s] * (filled[s] - outage[s].filled) + Gap(s) + Tick + Jitter

(* A receive loop that waits has had a frame within the time the timeouts
   add up to: a source that is gone is reported, padding or not
   (source_recorder.py:484-501). *)
SilenceIsReported ==
    recv.pc = "capture" /\ faults = 0 => now - lastFrame <= MaxTimeouts * CaptureWait

(* Nothing is written to a FIFO that stop_chunk has closed, although a join
   may have timed out (source_recorder.py:361-378). *)
NoLateWrite ==
    [][\A s \in Stream : last'[s] # last[s] \/ filled'[s] # filled[s] => pipe[s] = "open"]_vars

(* stop_chunk returns unless FFmpeg hangs for good: then a writer keeps the
   lock that stop_chunk needs to close the FIFO (source_recorder.py:363). *)
StopReturns == <>[](ffmpeg # "hung") => <>(stop = "returned")
=============================================================================
