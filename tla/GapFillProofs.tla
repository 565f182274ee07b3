---------------------------- MODULE GapFillProofs ----------------------------
(***************************************************************************)
(* Proofs about GapFill, for any frame rate, thresholds, tick, jitter,     *)
(* timeouts and bounds.                                                    *)
(***************************************************************************)
EXTENDS GapFill, TLAPS

USE DEF vars, budgets

(***************************************************************************)
(* Rounding down, as int(elapsed / period) does: what is dropped is less   *)
(* than one block, and no more than half when a whole block fits.          *)
(***************************************************************************)
LEMMA Division ==
    ASSUME NEW e \in Nat, NEW u \in Nat \ {0}, u <= e
    PROVE  /\ e \div u \in Nat \ {0}
           /\ u * (e \div u) <= e
           /\ e < 2 * (u * (e \div u))
  <1>1. e \div u \in Nat /\ u * (e \div u) <= e /\ e < u * (e \div u) + u
    BY SMT
  <1>2. e \div u # 0
    BY <1>1
  <1>3. u <= u * (e \div u)
    BY <1>1, <1>2, SMT
  <1> QED
    BY <1>1, <1>2, <1>3

(***************************************************************************)
(* The duration of some blocks, and of one more.                           *)
(***************************************************************************)
LEMMA Duration ==
    ASSUME NEW u \in Nat, NEW m \in Int, NEW n \in Int
    PROVE  u * (m + n) = u * m + u * n /\ u * (m + 1) = u * m + u /\ u * m \in Int
  BY SMT

(***************************************************************************)
(* As many blocks that are longer last longer.                             *)
(***************************************************************************)
LEMMA Larger ==
    ASSUME NEW u \in Nat, NEW v \in Nat, u <= v, NEW n \in Nat
    PROVE  u * n <= v * n /\ u * n \in Nat /\ v * n \in Nat
  <1>1. v = u + (v - u) /\ v - u \in Nat
    OBVIOUS
  <1>2. \A d \in Nat : (u + d) * n = u * n + d * n /\ d * n \in Nat /\ u * n \in Nat
    BY SMT
  <1>3. v * n = u * n + (v - u) * n /\ (v - u) * n \in Nat /\ u * n \in Nat
    BY <1>1, <1>2
  <1> QED
    BY <1>3

(***************************************************************************)
(* Paces and thresholds: a silence that is padded lasts a block at least.  *)
(***************************************************************************)
LEMMA Paces ==
    ASSUME NEW s \in Stream
    PROVE  Block[s] \in Nat \ {0} /\ Pace(s) \in Nat \ {0} /\ Gap(s) \in Nat /\ Pace(s) <= Gap(s)
  <1>1. Block[s] \in Nat \ {0} /\ Block["video"] \in Nat \ {0}
    BY BlockAssumption, StreamAssumption
  <1>2. CASE s = "audio"
    BY <1>1, <1>2, BlockAssumption DEF Pace, Gap
  <1>3. CASE s # "audio"
    <2>1. s = "video"
      BY <1>3, StreamAssumption
    <2>2. Pace("video") \in Nat \ {0}
      BY <1>1, BlockAssumption DEF Pace, FramePeriod
    <2>3. \A x \in Nat : (3 * x) \div 2 \in Nat /\ x <= (3 * x) \div 2
      BY SMT
    <2>4. Gap("video") = (3 * Pace("video")) \div 2
      BY DEF Gap
    <2> QED
      BY <1>1, <2>1, <2>2, <2>3, <2>4
  <1> QED
    BY <1>2, <1>3

(***************************************************************************)
(* The blocks found missing make up for at least half of the time that has *)
(* passed since the last write, and no more than all of it; where none is  *)
(* missing, the threshold has not been passed.                             *)
(***************************************************************************)
LEMMA MissingFacts ==
    ASSUME TypeOK, NEW s \in Stream, NEW t \in Nat
    PROVE  /\ Missing(s, t) \in Nat
           /\ Missing(s, t) > 0 =>
                /\ Pace(s) * Missing(s, t) <= t - last[s]
                /\ t - last[s] < 2 * (Pace(s) * Missing(s, t))
           /\ ~ (Missing(s, t) > 0) /\ (s = "video" => cached) => t <= last[s] + Gap(s)
  <1>1. Pace(s) \in Nat \ {0} /\ Gap(s) \in Nat /\ Pace(s) <= Gap(s) /\ last[s] \in Nat
    BY Paces DEF TypeOK
  <1>2. CASE t - last[s] > Gap(s) /\ (s = "video" => cached)
    <2>1. Missing(s, t) = (t - last[s]) \div Pace(s)
      BY <1>2 DEF Missing
    <2>2. t - last[s] \in Nat /\ Pace(s) <= t - last[s]
      BY <1>1, <1>2
    <2>3. /\ Missing(s, t) \in Nat \ {0}
          /\ Pace(s) * Missing(s, t) <= t - last[s]
          /\ t - last[s] < 2 * (Pace(s) * Missing(s, t))
      BY <1>1, <2>1, <2>2, Division
    <2>4. Missing(s, t) > 0
      BY <2>3
    <2> QED
      BY <2>3, <2>4
  <1>3. CASE ~ (t - last[s] > Gap(s) /\ (s = "video" => cached))
    BY <1>1, <1>3 DEF Missing
  <1> QED
    BY <1>2, <1>3

(***************************************************************************)
(* The states the loops of the two threads go on in are states of theirs.  *)
(***************************************************************************)
LEMMA LoopStates ==
    ASSUME TypeOK
    PROVE  /\ "video" \in Stream
           /\ RecvExit \in Recv /\ KeepExit \in Keep /\ Sleep \in Keep
           /\ \A n \in Nat : NextCapture(n) \in Recv
           /\ \A s \in Stream, t \in Nat : Fill(s, t) \in Keep
           /\ \A t \in Nat : Audio(t) \in Keep
  <1>1. "video" \in Stream /\ now \in Nat /\ Tick \in Nat /\ CaptureWait \in Nat
    BY StreamAssumption, ClockAssumption DEF TypeOK
  <1>2. RecvExit \in Recv /\ KeepExit \in Keep /\ Sleep \in Keep
    BY <1>1 DEF RecvExit, KeepExit, Sleep, Recv, Keep
  <1>3. \A n \in Nat : NextCapture(n) \in Recv
    BY <1>1, <1>2 DEF NextCapture, Recv
  <1>4. \A s \in Stream, t \in Nat : Fill(s, t) \in Keep
    BY MissingFacts DEF Fill, Keep
  <1> QED
    BY <1>1, <1>2, <1>3, <1>4 DEF Audio

(***************************************************************************)
(* A thread that takes a lock or gives it back leaves each stream with the *)
(* right holder.                                                           *)
(***************************************************************************)
LEMMA AcquireTypes ==
    ASSUME TypeOK, NEW s \in Stream, NEW who \in {"receive", "keepalive"}, Acquire(s, who)
    PROVE  lock' \in [Stream -> {"free", "receive", "keepalive"}]
  BY DEF TypeOK, Acquire

LEMMA ReceiveTypes ==
    ASSUME TypeOK,
           (\E s \in {"video", "audio"} : Receive(s) \/ Unreadable(s))
              \/ OtherFrame \/ NoFrame \/ ReceiveLock \/ ReceiveWrite
    PROVE  TypeOK'
  <1>1. ASSUME NEW s \in {"video", "audio"}, Receive(s) PROVE TypeOK'
    <2>1. recv' \in Recv /\ recv'.timeouts < MaxTimeouts /\ recv'.pc # "write"
      <3>1. NextCapture(0) \in Recv /\ NextCapture(0).timeouts = 0 /\ NextCapture(0).pc # "write"
        BY LoopStates DEF NextCapture, RecvExit
      <3> QED
        BY <1>1, <3>1, ClockAssumption DEF Receive, Recv
    <2> QED
      BY <1>1, <2>1 DEF TypeOK, Receive
  <1>5. ASSUME NEW s \in {"video", "audio"}, Unreadable(s) PROVE TypeOK'
    <2>1. recv' \in Recv /\ recv'.timeouts < MaxTimeouts /\ recv'.pc # "write"
      <3>1. /\ NextCapture(0) \in Recv /\ NextCapture(0).timeouts = 0 /\ NextCapture(0).pc # "write"
            /\ RecvExit \in Recv /\ RecvExit.timeouts = 0 /\ RecvExit.pc # "write"
        BY LoopStates DEF NextCapture, RecvExit
      <3>2. recv' \in {NextCapture(0), RecvExit}
        BY <1>5 DEF Unreadable
      <3> QED
        BY <3>1, <3>2, ClockAssumption
    <2> QED
      BY <1>5, <2>1 DEF TypeOK, Unreadable
  <1>2. CASE OtherFrame \/ NoFrame
    <2> DEFINE n == recv.timeouts + 1
    <2>1. n \in Nat
      BY DEF TypeOK, Recv
    <2>2. NextCapture(n) \in Recv /\ NextCapture(n).timeouts \in {0, n}
          /\ NextCapture(n).pc # "write"
      BY <2>1, LoopStates DEF NextCapture, RecvExit
    <2>3. RecvExit \in Recv /\ RecvExit.timeouts = 0 /\ RecvExit.pc # "write"
      BY LoopStates DEF RecvExit
    <2>4. recv' \in Recv /\ recv'.timeouts < MaxTimeouts /\ recv'.pc # "write"
      BY <1>2, <2>1, <2>2, <2>3, ClockAssumption DEF OtherFrame, NoFrame, CountTimeout, GivesUp
    <2>5. status' \in {"recording", "error", "idle"}
      BY <1>2 DEF OtherFrame, NoFrame, CountTimeout, TypeOK
    <2> QED
      BY <1>2, <2>4, <2>5 DEF TypeOK, OtherFrame, NoFrame
  <1>3. CASE ReceiveLock
    <2>1. recv.stream \in Stream
      BY DEF TypeOK, Recv
    <2>2. lock' \in [Stream -> {"free", "receive", "keepalive"}]
      BY <1>3, <2>1, AcquireTypes DEF ReceiveLock
    <2>3. RecvExit \in Recv /\ RecvExit.timeouts = 0 /\ RecvExit.pc = "exited"
      BY LoopStates DEF RecvExit
    <2>4. recv' \in Recv /\ recv'.timeouts < MaxTimeouts
      BY <1>3, <2>3, ClockAssumption DEF ReceiveLock, TypeOK, Recv
    <2>5. ASSUME NEW s \in Stream
          PROVE  /\ lock'[s] = "receive" <=> recv'.pc = "write" /\ recv'.stream = s
                 /\ lock'[s] = "keepalive" <=> keep'.pc = "write" /\ keep'.stream = s
      BY <1>3, <2>1, <2>3 DEF ReceiveLock, Acquire, TypeOK, Recv
    <2> QED
      BY <1>3, <2>2, <2>4, <2>5 DEF TypeOK, ReceiveLock
  <1>4. CASE ReceiveWrite
    <2>1. recv.stream \in Stream /\ recv.pc = "write"
      BY <1>4 DEF ReceiveWrite, TypeOK, Recv
    <2>2. /\ NextCapture(0) \in Recv /\ NextCapture(0).timeouts = 0 /\ NextCapture(0).pc # "write"
          /\ RecvExit \in Recv /\ RecvExit.timeouts = 0 /\ RecvExit.pc # "write"
      BY LoopStates DEF NextCapture, RecvExit
    <2>3. recv' \in Recv /\ recv'.timeouts < MaxTimeouts /\ recv'.pc # "write"
      BY <1>4, <2>2, ClockAssumption DEF ReceiveWrite
    <2>4. lock' = [lock EXCEPT ![recv.stream] = "free"]
      BY <1>4 DEF ReceiveWrite, Release
    <2>5. last' \in [Stream -> Nat] /\ outage' \in [Stream -> [since : Nat, filled : Nat]]
      BY <1>4, <2>1 DEF ReceiveWrite, Stamp, TypeOK
    <2>6. ASSUME NEW s \in Stream
          PROVE  /\ lock'[s] = "receive" <=> recv'.pc = "write" /\ recv'.stream = s
                 /\ lock'[s] = "keepalive" <=> keep'.pc = "write" /\ keep'.stream = s
      BY <1>4, <2>1, <2>3, <2>4 DEF TypeOK, ReceiveWrite
    <2>7. lock' \in [Stream -> {"free", "receive", "keepalive"}]
      BY <2>1, <2>4 DEF TypeOK
    <2> QED
      BY <1>4, <2>3, <2>5, <2>6, <2>7 DEF TypeOK, ReceiveWrite
  <1> QED
    BY <1>1, <1>2, <1>3, <1>4, <1>5

LEMMA KeepTypes ==
    ASSUME TypeOK, Wake \/ KeepLock \/ KeepWrite
    PROVE  TypeOK'
  <1>1. "video" \in Stream /\ KeepExit \in Keep /\ KeepExit.pc = "exited" /\ Sleep \in Keep
        /\ Sleep.pc # "write"
    BY LoopStates DEF KeepExit, Sleep
  <1>2. \A t \in Nat : Audio(t) \in Keep /\ Audio(t).pc # "write"
    BY <1>1, LoopStates DEF Audio, Fill
  <1>3. CASE Wake
    <2>1. now \in Nat /\ keep.pc = "sleep"
      BY <1>3 DEF Wake, TypeOK
    <2>2. Fill("video", now) \in Keep /\ Fill("video", now).pc = "lock"
      BY <1>1, <2>1, LoopStates DEF Fill
    <2>3. keep' \in Keep /\ keep'.pc # "write"
      BY <1>2, <1>3, <2>1, <2>2 DEF Wake
    <2> QED
      BY <1>3, <2>1, <2>3 DEF TypeOK, Wake
  <1>4. CASE KeepLock
    <2>1. keep.stream \in Stream
      BY DEF TypeOK, Keep
    <2>2. lock' \in [Stream -> {"free", "receive", "keepalive"}]
      BY <1>4, <2>1, AcquireTypes DEF KeepLock
    <2>3. keep' \in Keep
      BY <1>1, <1>4 DEF KeepLock, TypeOK, Keep
    <2>4. ASSUME NEW s \in Stream
          PROVE  /\ lock'[s] = "receive" <=> recv'.pc = "write" /\ recv'.stream = s
                 /\ lock'[s] = "keepalive" <=> keep'.pc = "write" /\ keep'.stream = s
      BY <1>1, <1>4, <2>1 DEF KeepLock, Acquire, TypeOK, Keep
    <2> QED
      BY <1>4, <2>2, <2>3, <2>4 DEF TypeOK, KeepLock
  <1>5. CASE KeepWrite
    <2>1. keep.stream \in Stream /\ keep.pc = "write" /\ keep.woke \in Nat
      BY <1>5 DEF KeepWrite, TypeOK, Keep
    <2>2. AfterBlock(keep.stream) \in Keep /\ AfterBlock(keep.stream).pc # "write"
      <3>1. CASE keep.left > 1
        <4>1. keep.left - 1 \in Nat /\ keep \in Keep
          BY <3>1 DEF TypeOK, Keep
        <4>2. AfterBlock(keep.stream) = [keep EXCEPT !.pc = "lock", !.left = @ - 1]
          BY <3>1 DEF AfterBlock
        <4> QED
          BY <4>1, <4>2 DEF Keep
      <3>2. CASE ~ (keep.left > 1)
        BY <1>1, <1>2, <2>1, <3>2 DEF AfterBlock
      <3> QED
        BY <3>1, <3>2
    <2>3. keep' \in Keep /\ keep'.pc # "write"
      BY <1>1, <1>5, <2>2 DEF KeepWrite
    <2>4. lock' = [lock EXCEPT ![keep.stream] = "free"]
      BY <1>5 DEF KeepWrite, Release
    <2>5. last' \in [Stream -> Nat] /\ filled' \in [Stream -> Nat]
      BY <1>5, <2>1 DEF KeepWrite, Stamp, TypeOK
    <2>6. ASSUME NEW s \in Stream
          PROVE  /\ lock'[s] = "receive" <=> recv'.pc = "write" /\ recv'.stream = s
                 /\ lock'[s] = "keepalive" <=> keep'.pc = "write" /\ keep'.stream = s
      BY <1>5, <2>1, <2>3, <2>4 DEF TypeOK, KeepWrite
    <2>7. lock' \in [Stream -> {"free", "receive", "keepalive"}]
      BY <2>1, <2>4 DEF TypeOK
    <2> QED
      BY <1>5, <2>3, <2>5, <2>6, <2>7 DEF TypeOK, KeepWrite
  <1> QED
    BY <1>3, <1>4, <1>5

(***************************************************************************)
(* Steps of stop_chunk, of FFmpeg and of the clock.                        *)
(***************************************************************************)
Outside == \/ RequestStop \/ Join \/ CloseFifo("video", "audio") \/ CloseFifo("audio", "wait")
           \/ Finish \/ Fault("hung") \/ Fault("dead") \/ Resume \/ Advance

LEMMA OutsideTypes == TypeOK /\ Outside => TypeOK'
  <1> SUFFICES ASSUME TypeOK, Outside PROVE TypeOK'
    OBVIOUS
  <1>1. CASE RequestStop \/ Join
    BY <1>1 DEF TypeOK, RequestStop, Join
  <1>4. CASE Finish
    BY <1>4 DEF TypeOK, Finish, Teardown
  <1>2. CASE CloseFifo("video", "audio") \/ CloseFifo("audio", "wait")
    BY <1>2 DEF TypeOK, CloseFifo
  <1>3. CASE Fault("hung") \/ Fault("dead") \/ Resume \/ Advance
    BY <1>3 DEF TypeOK, Fault, Resume, Advance
  <1> QED
    BY <1>1, <1>2, <1>3, <1>4 DEF Outside

LEMMA InitTypes == Init => TypeOK
  <1> SUFFICES ASSUME Init PROVE TypeOK
    OBVIOUS
  <1>1. "video" \in Stream /\ Tick \in Nat /\ CaptureWait \in Nat /\ 0 < MaxTimeouts
    BY StreamAssumption, ClockAssumption
  <1>2. recv \in Recv /\ recv.timeouts < MaxTimeouts /\ recv.pc = "capture"
    BY <1>1 DEF Init, Recv
  <1>3. keep \in Keep /\ keep.pc = "sleep"
    BY <1>1 DEF Init, Keep
  <1> QED
    BY <1>2, <1>3 DEF Init, TypeOK

(***************************************************************************)
(* Types, and who holds which lock: app/recorder/source_recorder.py, the   *)
(* threads of a chunk.                                                     *)
(***************************************************************************)
THEOREM GapTypes == Spec => []TypeOK
  <1>1. TypeOK /\ [Next]_vars => TypeOK'
    <2> SUFFICES ASSUME TypeOK, [Next]_vars PROVE TypeOK'
      OBVIOUS
    <2>1. CASE UNCHANGED vars
      BY <2>1 DEF TypeOK
    <2>2. CASE Next
      BY <2>2, ReceiveTypes, KeepTypes, OutsideTypes DEF Next, Outside
    <2> QED
      BY <2>1, <2>2
  <1> QED
    BY <1>1, InitTypes, PTL DEF Spec

-----------------------------------------------------------------------------
(***************************************************************************)
(* No late write.  A lock is held only while its pipe is open, since       *)
(* stop_chunk closes a FIFO under the lock.                                *)
(***************************************************************************)
HeldIsOpen == \A s \in Stream : lock[s] # "free" => pipe[s] = "open"

LEMMA HeldStep == TypeOK /\ HeldIsOpen /\ [Next]_vars => HeldIsOpen'
  <1> SUFFICES ASSUME TypeOK, HeldIsOpen, [Next]_vars PROVE HeldIsOpen'
    OBVIOUS
  <1>1. recv.stream \in Stream /\ keep.stream \in Stream
    BY DEF TypeOK, Recv, Keep
  <1>2. CASE ReceiveLock
    BY <1>1, <1>2 DEF HeldIsOpen, ReceiveLock, Acquire, TypeOK
  <1>3. CASE KeepLock
    BY <1>1, <1>3 DEF HeldIsOpen, KeepLock, Acquire, TypeOK
  <1>4. CASE ReceiveWrite
    BY <1>1, <1>4 DEF HeldIsOpen, ReceiveWrite, Release, TypeOK
  <1>5. CASE KeepWrite
    BY <1>1, <1>5 DEF HeldIsOpen, KeepWrite, Release, TypeOK
  <1>6. ASSUME NEW s, NEW t, CloseFifo(s, t) PROVE HeldIsOpen'
    BY <1>6 DEF HeldIsOpen, CloseFifo, CanClose, TypeOK
  <1>7. CASE UNCHANGED <<lock, pipe>>
    BY <1>7 DEF HeldIsOpen
  <1>8. ReceiveLock \/ KeepLock \/ ReceiveWrite \/ KeepWrite
        \/ (\E s, t : CloseFifo(s, t)) \/ UNCHANGED <<lock, pipe>>
    BY DEF Next, Receive, Unreadable, OtherFrame, NoFrame, Wake, RequestStop, Join, Finish, Fault, Resume, Advance
  <1> QED
    BY <1>2, <1>3, <1>4, <1>5, <1>6, <1>7, <1>8

(***************************************************************************)
(* A writer writes under the lock of its stream, so into an open pipe.     *)
(***************************************************************************)
LEMMA WritesOpen ==
    ASSUME TypeOK, HeldIsOpen, Next, NEW s \in Stream,
           last'[s] # last[s] \/ filled'[s] # filled[s]
    PROVE  pipe[s] = "open"
  <1>1. recv.stream \in Stream /\ keep.stream \in Stream
    BY DEF TypeOK, Recv, Keep
  <1>2. CASE ReceiveWrite
    <2>1. s = recv.stream
      BY <1>1, <1>2 DEF ReceiveWrite, Stamp, TypeOK
    <2> QED
      BY <1>2, <2>1 DEF ReceiveWrite, HeldIsOpen, TypeOK
  <1>3. CASE KeepWrite
    <2>1. s = keep.stream
      BY <1>1, <1>3 DEF KeepWrite, Stamp, TypeOK
    <2> QED
      BY <1>3, <2>1 DEF KeepWrite, HeldIsOpen, TypeOK
  <1>4. ReceiveWrite \/ KeepWrite \/ UNCHANGED <<last, filled>>
    BY DEF Next, Receive, Unreadable, OtherFrame, NoFrame, ReceiveLock, Wake, KeepLock, RequestStop, Join, CloseFifo,
           Finish, Fault, Resume, Advance
  <1> QED
    BY <1>2, <1>3, <1>4

(***************************************************************************)
(* Nothing is written to a FIFO that stop_chunk has closed                 *)
(* (source_recorder.py:361-378, 505-537).                                  *)
(***************************************************************************)
THEOREM NothingLate == Spec => NoLateWrite
  <1>1. Init => HeldIsOpen
    BY DEF Init, HeldIsOpen
  <1>2. TypeOK /\ HeldIsOpen /\ [Next]_vars
        => [\A s \in Stream : last'[s] # last[s] \/ filled'[s] # filled[s]
               => pipe[s] = "open"]_vars
    BY WritesOpen
  <1> QED
    BY <1>1, <1>2, HeldStep, GapTypes, PTL DEF Spec, NoLateWrite

-----------------------------------------------------------------------------
(***************************************************************************)
(* Padding within the clock.  The blocks a round is still to write were    *)
(* counted against the time the thread woke up, and any later write only   *)
(* moves the time of the last write on.                                    *)
(***************************************************************************)
Fits(s) == Block[s] <= Pace(s)

Padded(s) == (Fits(s) => Block[s] * filled[s] <= last[s]) /\ last[s] <= now

RoundFits ==
    keep.pc \in {"lock", "write"} =>
        /\ keep.left > 0
        /\ keep.woke <= now
        /\ Fits(keep.stream) => Block[keep.stream] * (filled[keep.stream] + keep.left) <= keep.woke

PadInv == (\A s \in Stream : Padded(s)) /\ RoundFits

(***************************************************************************)
(* A round that begins fits into the time the thread woke up at.           *)
(***************************************************************************)
LEMMA RoundBegins ==
    ASSUME TypeOK, NEW s \in Stream, NEW t \in Nat, Fits(s),
           Block[s] * filled[s] <= last[s], Missing(s, t) > 0
    PROVE  Block[s] * (filled[s] + Missing(s, t)) <= t
  <1>1. Block[s] \in Nat /\ Pace(s) \in Nat /\ Block[s] <= Pace(s)
        /\ filled[s] \in Nat /\ last[s] \in Nat
    BY Paces DEF TypeOK, Fits
  <1>2. Missing(s, t) \in Nat /\ Pace(s) * Missing(s, t) <= t - last[s]
    BY MissingFacts
  <1>3. Block[s] * (filled[s] + Missing(s, t)) = Block[s] * filled[s] + Block[s] * Missing(s, t)
        /\ Block[s] * filled[s] \in Int /\ Block[s] * Missing(s, t) \in Int
    BY <1>1, <1>2, Duration
  <1>4. Block[s] * Missing(s, t) <= Pace(s) * Missing(s, t) /\ Pace(s) * Missing(s, t) \in Int
    BY <1>1, <1>2, Larger
  <1> QED
    BY <1>1, <1>2, <1>3, <1>4

LEMMA AudioPace == "audio" \in Stream => Fits("audio")
  BY Paces DEF Fits, Pace

(***************************************************************************)
(* Passing on to the audio keeps the invariant of the round.               *)
(***************************************************************************)
LEMMA AudioFits ==
    ASSUME TypeOK, NEW t \in Nat, t <= now,
           "audio" \in Stream => Block["audio"] * filled["audio"] <= last["audio"]
    PROVE  Audio(t).pc \in {"lock", "write"} =>
              /\ Audio(t) = Fill("audio", t)
              /\ "audio" \in Stream
              /\ Missing("audio", t) > 0
              /\ Block["audio"] * (filled["audio"] + Missing("audio", t)) <= t
  <1>1. Sleep.pc \notin {"lock", "write"}
    BY DEF Sleep, KeepExit
  <1>2. SUFFICES ASSUME Audio(t).pc \in {"lock", "write"}
                 PROVE  /\ Audio(t) = Fill("audio", t)
                        /\ "audio" \in Stream
                        /\ Missing("audio", t) > 0
                        /\ Block["audio"] * (filled["audio"] + Missing("audio", t)) <= t
    OBVIOUS
  <1>3. "audio" \in Stream /\ Missing("audio", t) > 0 /\ Audio(t) = Fill("audio", t)
    BY <1>1, <1>2 DEF Audio
  <1> QED
    BY <1>3, AudioPace, RoundBegins

(***************************************************************************)
(* The keep-alive thread wakes up: it finds blocks of video missing, or of *)
(* audio, or nothing.                                                      *)
(***************************************************************************)
LEMMA WakeFits == TypeOK /\ PadInv /\ Wake => PadInv'
  <1> SUFFICES ASSUME TypeOK, PadInv, Wake PROVE PadInv'
    OBVIOUS
  <1>1. "video" \in Stream /\ now \in Nat
    BY LoopStates DEF TypeOK
  <1>2. \A s \in Stream : Padded(s)'
    BY DEF PadInv, Padded, Wake
  <1>3. CASE Missing("video", now) > 0
    <2>1. keep' = Fill("video", now)
      BY <1>3 DEF Wake
    <2>2. Fits("video") => Block["video"] * (filled["video"] + Missing("video", now)) <= now
      BY <1>1, <1>3, RoundBegins DEF PadInv, Padded
    <2>3. RoundFits'
      BY <1>1, <1>3, <2>1, <2>2 DEF RoundFits, Fill, Wake
    <2> QED
      BY <1>2, <2>3 DEF PadInv
  <1>4. CASE ~ (Missing("video", now) > 0)
    <2>1. keep' = Audio(now)
      BY <1>4 DEF Wake
    <2>2. Audio(now).pc \in {"lock", "write"} =>
              /\ Audio(now) = Fill("audio", now)
              /\ Missing("audio", now) > 0
              /\ Block["audio"] * (filled["audio"] + Missing("audio", now)) <= now
      BY <1>1, AudioFits, AudioPace DEF PadInv, Padded
    <2>3. RoundFits'
      BY <1>1, <2>1, <2>2 DEF RoundFits, Fill, Wake
    <2> QED
      BY <1>2, <2>3 DEF PadInv
  <1> QED
    BY <1>3, <1>4

(***************************************************************************)
(* A block of padding is written: the round has one block less to write    *)
(* and the stream one more, and the last write is not before the thread    *)
(* woke up.                                                                *)
(***************************************************************************)
LEMMA KeepWriteFits == TypeOK /\ PadInv /\ KeepWrite => PadInv'
  <1> SUFFICES ASSUME TypeOK, PadInv, KeepWrite PROVE PadInv'
    OBVIOUS
  <1> DEFINE k == keep.stream
             u == Block[k]
  <1>1. k \in Stream /\ keep.pc = "write" /\ keep.woke \in Nat /\ keep.left \in Nat /\ now \in Nat
    BY DEF KeepWrite, TypeOK, Keep
  <1>2. u \in Nat /\ filled[k] \in Nat /\ last[k] \in Nat
    BY <1>1, BlockAssumption DEF TypeOK
  <1>3. keep.left > 0 /\ keep.woke <= now
        /\ (Fits(k) => u * (filled[k] + keep.left) <= keep.woke)
    BY <1>1 DEF PadInv, RoundFits
  <1>4. CASE ~ Written
    BY <1>4 DEF KeepWrite, PadInv, Padded, RoundFits, KeepExit
  <1>5. CASE Written
    <2>1. /\ last' = [last EXCEPT ![k] = now]
          /\ filled' = [filled EXCEPT ![k] = @ + 1]
          /\ keep' = AfterBlock(k)
          /\ now' = now
      BY <1>5 DEF KeepWrite, Stamp
    <2>2. last'[k] = now /\ filled'[k] = filled[k] + 1
      BY <1>1, <2>1 DEF TypeOK
    <2>3. u * (filled[k] + 1) <= u * (filled[k] + keep.left)
      <3>1. keep.left - 1 \in Nat /\ (filled[k] + 1) + (keep.left - 1) = filled[k] + keep.left
        BY <1>1, <1>2, <1>3
      <3>2. u * ((filled[k] + 1) + (keep.left - 1)) = u * (filled[k] + 1) + u * (keep.left - 1)
            /\ u * (filled[k] + 1) \in Int
        BY <1>2, <3>1, Duration
      <3>3. u * (keep.left - 1) \in Nat
        BY <1>2, <3>1, SMT
      <3> QED
        BY <3>1, <3>2, <3>3
    <2>4. (Fits(k) => u * filled'[k] <= last'[k]) /\ last'[k] <= now'
      <3>1. u * (filled[k] + 1) \in Int /\ u * (filled[k] + keep.left) \in Int
        BY <1>1, <1>2, SMT
      <3>2. Fits(k) => u * (filled[k] + 1) <= now
        <4> SUFFICES ASSUME Fits(k) PROVE u * (filled[k] + 1) <= now
          OBVIOUS
        <4>1. u * (filled[k] + keep.left) <= keep.woke /\ keep.woke <= now
          BY <1>3
        <4> QED
          BY <1>1, <2>3, <3>1, <4>1
      <3> QED
        BY <1>1, <2>1, <2>2, <3>2
    <2>5. ASSUME NEW s \in Stream PROVE Padded(s)'
      <3>1. CASE s = k
        BY <2>4, <3>1 DEF Padded, Fits, Pace, FramePeriod
      <3>2. CASE s # k
        BY <1>1, <2>1, <3>2 DEF PadInv, Padded, Fits, TypeOK
      <3> QED
        BY <3>1, <3>2
    <2>6. RoundFits'
      <3>1. CASE keep.left > 1
        <4>1. keep' = [keep EXCEPT !.pc = "lock", !.left = keep.left - 1]
          BY <2>1, <3>1 DEF AfterBlock
        <4>2. keep'.stream = k /\ keep'.woke = keep.woke /\ keep'.left = keep.left - 1
          BY <4>1 DEF TypeOK, Keep
        <4>3. filled'[k] + keep'.left = filled[k] + keep.left /\ keep'.left > 0
          BY <1>1, <1>2, <2>2, <3>1, <4>2
        <4> QED
          BY <1>3, <2>1, <4>2, <4>3 DEF RoundFits
      <3>2. CASE ~ (keep.left > 1) /\ k = "video"
        <4>1. keep' = Audio(keep.woke)
          BY <2>1, <3>2 DEF AfterBlock
        <4>2. Audio(keep.woke).pc \in {"lock", "write"} =>
                  /\ Audio(keep.woke) = Fill("audio", keep.woke)
                  /\ "audio" \in Stream
                  /\ Missing("audio", keep.woke) > 0
                  /\ Block["audio"] * (filled["audio"] + Missing("audio", keep.woke)) <= keep.woke
          BY <1>1, <1>3, AudioFits, AudioPace DEF PadInv, Padded
        <4>3. "audio" \in Stream => filled'["audio"] = filled["audio"]
          BY <2>1, <3>2 DEF TypeOK
        <4> QED
          BY <1>3, <2>1, <4>1, <4>2, <4>3 DEF RoundFits, Fill
      <3>3. CASE ~ (keep.left > 1) /\ k # "video"
        BY <2>1, <3>3 DEF AfterBlock, RoundFits, Sleep, KeepExit
      <3> QED
        BY <3>1, <3>2, <3>3
    <2> QED
      BY <2>5, <2>6 DEF PadInv
  <1> QED
    BY <1>4, <1>5

LEMMA PadStep == TypeOK /\ PadInv /\ [Next]_vars => PadInv'
  <1> SUFFICES ASSUME TypeOK, PadInv, [Next]_vars PROVE PadInv'
    OBVIOUS
  <1>1. CASE ReceiveWrite
    <2>1. recv.stream \in Stream
      BY DEF TypeOK, Recv
    <2>2. /\ \A s \in Stream : last'[s] = last[s] \/ last'[s] = now
          /\ filled' = filled /\ keep' = keep /\ now' = now
      BY <1>1, <2>1 DEF ReceiveWrite, Stamp, TypeOK
    <2>3. ASSUME NEW s \in Stream PROVE Padded(s)'
      <3>1. Block[s] * filled[s] \in Int /\ last[s] \in Nat /\ now \in Nat
        BY BlockAssumption DEF TypeOK
      <3> QED
        BY <2>2, <3>1 DEF PadInv, Padded
    <2> QED
      BY <2>2, <2>3 DEF PadInv, RoundFits
  <1>2. CASE KeepLock
    <2>1. keep' = KeepExit \/ keep' = [keep EXCEPT !.pc = "write"]
      BY <1>2 DEF KeepLock
    <2>2. keep'.pc \in {"lock", "write"}
          => keep.pc = "lock" /\ keep'.left = keep.left /\ keep'.woke = keep.woke
             /\ keep'.stream = keep.stream
      BY <1>2, <2>1 DEF KeepExit, KeepLock, TypeOK, Keep
    <2> QED
      BY <1>2, <2>2 DEF KeepLock, PadInv, Padded, RoundFits
  <1>3. CASE Advance
    <2>1. now' = now + 1 /\ now \in Nat /\ last' = last /\ filled' = filled /\ keep' = keep
      BY <1>3 DEF Advance, TypeOK
    <2>2. last \in [Stream -> Nat] /\ (keep.pc \in {"lock", "write"} => keep.woke \in Nat)
      BY DEF TypeOK, Keep
    <2>3. \A s \in Stream : Padded(s)'
      BY <2>1, <2>2 DEF PadInv, Padded
    <2>4. RoundFits'
      BY <2>1, <2>2 DEF PadInv, RoundFits
    <2> QED
      BY <2>3, <2>4 DEF PadInv
  <1>4. CASE UNCHANGED <<now, last, filled, keep>>
    BY <1>4 DEF PadInv, Padded, RoundFits
  <1>5. ReceiveWrite \/ KeepLock \/ Advance \/ Wake \/ KeepWrite
        \/ UNCHANGED <<now, last, filled, keep>>
    BY DEF Next, Receive, Unreadable, OtherFrame, NoFrame, ReceiveLock, RequestStop, Join, CloseFifo, Finish, Fault, Resume
  <1> QED
    BY <1>1, <1>2, <1>3, <1>4, <1>5, WakeFits, KeepWriteFits

(***************************************************************************)
(* The padding of a chunk is never longer than the time up to its last     *)
(* write: app/recorder/source_recorder.py:553-589.                         *)
(***************************************************************************)
THEOREM PaddingFits == Spec => []PaddingWithinClock
  <1>1. Init => PadInv
    <2> SUFFICES ASSUME Init PROVE PadInv
      OBVIOUS
    <2>1. ASSUME NEW s \in Stream PROVE Block[s] * 0 = 0
      <3>1. Block[s] \in Nat
        BY BlockAssumption
      <3> QED
        BY <3>1, SMT
    <2> QED
      BY <2>1 DEF Init, PadInv, Padded, RoundFits
  <1>2. PadInv => PaddingWithinClock
    BY DEF PadInv, Padded, Fits, PaddingWithinClock
  <1> QED
    BY <1>1, <1>2, PadStep, GapTypes, PTL DEF Spec

-----------------------------------------------------------------------------
(***************************************************************************)
(* Half of an outage is kept.  While FFmpeg reads, a round is written at   *)
(* the moment the thread wakes up: writes take no time, and a thread that  *)
(* waits for a lock waits for one that is writing.                         *)
(***************************************************************************)
Calm ==
    Smooth =>
        /\ ffmpeg = "reading"
        /\ \A s \in Stream : pipe[s] = "open"
        /\ keep.pc \in {"lock", "write"} => keep.woke = now

LEMMA SmoothBefore == TypeOK /\ [Next]_vars /\ Smooth' => Smooth
  BY DEF TypeOK, Next, Receive, Unreadable, OtherFrame, NoFrame, ReceiveLock, ReceiveWrite, Wake, KeepLock, KeepWrite,
         RequestStop, Join, CloseFifo, Finish, Fault, Resume, Advance, Smooth, Stopped

(***************************************************************************)
(* The clock stands still while the keep-alive thread has a round to write.*)
(***************************************************************************)
LEMMA RoundTakesNoTime ==
    ASSUME TypeOK, Calm, Smooth, keep.pc \in {"lock", "write"}
    PROVE  ~ Advance
  <1>1. Returns
    BY DEF Calm, Returns
  <1>2. CASE keep.pc = "write"
    BY <1>1, <1>2 DEF Advance, Ready
  <1>3. CASE keep.pc = "lock"
    <2>1. keep.stream \in Stream /\ lock[keep.stream] \in {"free", "receive"}
      BY <1>3 DEF TypeOK, Keep
    <2>2. lock[keep.stream] = "receive" => Ready(recv)
      BY <1>1, <2>1 DEF TypeOK, Ready
    <2>3. lock[keep.stream] = "free" => Ready(keep)
      BY <1>3 DEF Ready
    <2> QED
      BY <2>1, <2>2, <2>3 DEF Advance
  <1> QED
    BY <1>2, <1>3

LEMMA CalmStep == TypeOK /\ Calm /\ [Next]_vars => Calm'
  <1> SUFFICES ASSUME TypeOK, Calm, [Next]_vars, Smooth'
               PROVE  /\ ffmpeg' = "reading"
                      /\ \A s \in Stream : pipe'[s] = "open"
                      /\ keep'.pc \in {"lock", "write"} => keep'.woke = now'
    BY DEF Calm
  <1>1. Smooth
    BY SmoothBefore
  <1>2. /\ ffmpeg = "reading"
        /\ \A s \in Stream : pipe[s] = "open"
        /\ keep.pc \in {"lock", "write"} => keep.woke = now
    BY <1>1 DEF Calm
  <1>3. stop = "running" /\ stop' = "running" /\ faults' = 0
    BY <1>1 DEF Smooth, Stopped
  <1>4. Sleep.pc \notin {"lock", "write"} /\ KeepExit.pc \notin {"lock", "write"}
    BY DEF Sleep, KeepExit
  <1>5. CASE Wake
    BY <1>2, <1>4, <1>5 DEF Wake, Audio, Fill
  <1>6. CASE KeepLock
    <2>1. keep.pc = "lock" /\ keep' \in {KeepExit, [keep EXCEPT !.pc = "write"]}
      BY <1>6 DEF KeepLock
    <2>2. keep'.pc \in {"lock", "write"} => keep'.woke = keep.woke
      BY <1>4, <2>1 DEF TypeOK, Keep
    <2> QED
      BY <1>2, <1>6, <2>1, <2>2 DEF KeepLock
  <1>7. CASE KeepWrite
    <2>1. keep.pc = "write" /\ keep' \in {KeepExit, AfterBlock(keep.stream)} /\ now' = now
      BY <1>7 DEF KeepWrite
    <2>2. AfterBlock(keep.stream).pc \in {"lock", "write"}
          => AfterBlock(keep.stream).woke = keep.woke
      BY <1>4 DEF AfterBlock, Audio, Fill, TypeOK, Keep
    <2> QED
      BY <1>2, <1>4, <1>7, <2>1, <2>2 DEF KeepWrite
  <1>8. CASE Advance
    BY <1>1, <1>2, <1>8, RoundTakesNoTime DEF Advance
  <1>9. CASE UNCHANGED <<keep, now, pipe, ffmpeg>>
    BY <1>2, <1>9
  <1>10. Wake \/ KeepLock \/ KeepWrite \/ Advance \/ UNCHANGED <<keep, now, pipe, ffmpeg>>
    BY <1>2, <1>3 DEF TypeOK, Next, Receive, Unreadable, OtherFrame, NoFrame, ReceiveLock, ReceiveWrite, RequestStop, Join,
                CloseFifo, Finish, Fault, Resume
  <1> QED
    BY <1>5, <1>6, <1>7, <1>8, <1>9, <1>10

(***************************************************************************)
(* What is written and what a round is about to write covers half of the   *)
(* time since the last real frame: up to the moment the thread woke up     *)
(* while it fills the stream, and up to the last write otherwise.          *)
(***************************************************************************)
Covered(s, blocks, time) ==
    time - outage[s].since <= 2 * (Block[s] * (blocks - outage[s].filled))

StreamHalf(s) ==
    IF Filling(s) THEN Covered(s, filled[s] + keep.left, keep.woke)
    ELSE Covered(s, filled[s], last[s])

\* A block makes up for what it is taken to make up for.
Keeps(s) == Block[s] >= Pace(s)

Half == Smooth => \A s \in Stream : Keeps(s) => StreamHalf(s)

(***************************************************************************)
(* A round that begins covers half of the time since the last write.       *)
(***************************************************************************)
LEMMA RoundCovers ==
    ASSUME TypeOK, NEW s \in Stream, NEW t \in Nat, Keeps(s), Missing(s, t) > 0,
           Covered(s, filled[s], last[s])
    PROVE  Covered(s, filled[s] + Missing(s, t), t)
  <1>1. /\ Block[s] \in Nat /\ filled[s] \in Nat /\ last[s] \in Nat
        /\ outage[s].since \in Nat /\ outage[s].filled \in Nat
    BY BlockAssumption DEF TypeOK
  <1> DEFINE m == Missing(s, t)
             d == filled[s] - outage[s].filled
  <1>2. m \in Nat /\ t - last[s] < 2 * (Block[s] * m)
    <2>1. m \in Nat /\ t - last[s] < 2 * (Pace(s) * m)
      BY MissingFacts
    <2>2. Pace(s) \in Nat /\ Pace(s) <= Block[s]
      BY Paces, <1>1 DEF Keeps
    <2> HIDE DEF m
    <2>3. Pace(s) * m <= Block[s] * m /\ Pace(s) * m \in Nat /\ Block[s] * m \in Nat
      BY <1>1, <2>1, <2>2, Larger
    <2> QED
      BY <1>1, <2>1, <2>3
  <1>3. d \in Int /\ (filled[s] + m) - outage[s].filled = d + m
    BY <1>1, <1>2
  <1>4. Block[s] * (d + m) = Block[s] * d + Block[s] * m
        /\ Block[s] * d \in Int /\ Block[s] * m \in Int
    BY <1>1, <1>2, <1>3, Duration
  <1>5. last[s] - outage[s].since <= 2 * (Block[s] * d)
    BY DEF Covered
  <1>6. t - outage[s].since <= 2 * (Block[s] * d + Block[s] * m)
    <2> HIDE DEF m, d
    <2> QED
      BY <1>1, <1>2, <1>4, <1>5
  <1> QED
    BY <1>3, <1>4, <1>6 DEF Covered

LEMMA HalfReceive ==
    ASSUME TypeOK, Calm, Half, Smooth, ReceiveWrite, NEW s \in Stream, Keeps(s)
    PROVE  StreamHalf(s)'
  <1>1. recv.stream \in Stream /\ Written /\ keep.left \in Nat
    BY DEF TypeOK, Recv, Keep, Calm, Written
  <1>2. /\ last' = [last EXCEPT ![recv.stream] = now]
        /\ outage' = [outage EXCEPT ![recv.stream] = [since |-> now, filled |-> filled[recv.stream]]]
        /\ filled' = filled /\ keep' = keep /\ now' = now
    BY <1>1 DEF ReceiveWrite, Stamp
  <1>3. CASE s # recv.stream
    <2>1. last'[s] = last[s] /\ outage'[s] = outage[s]
      BY <1>1, <1>2, <1>3 DEF TypeOK
    <2> QED
      BY <1>2, <2>1 DEF Half, StreamHalf, Filling, Covered
  <1>4. CASE s = recv.stream
    <2>1. last'[s] = now /\ outage'[s].since = now /\ outage'[s].filled = filled[s]
      BY <1>1, <1>2, <1>4 DEF TypeOK
    <2>2. Block[s] \in Nat /\ filled[s] \in Nat /\ now \in Nat
      BY BlockAssumption DEF TypeOK
    <2>3. CASE Filling(s)
      <3>1. keep.woke = now
        BY <2>3 DEF Calm, Filling
      <3>2. Block[s] * ((filled[s] + keep.left) - filled[s]) \in Nat
        <4>1. (filled[s] + keep.left) - filled[s] = keep.left
          BY <1>1, <2>2
        <4> QED
          BY <1>1, <2>2, <4>1, SMT
      <3>3. now - now <= 2 * (Block[s] * ((filled[s] + keep.left) - filled[s]))
        BY <2>2, <3>2
      <3> QED
        BY <1>2, <2>1, <2>3, <3>1, <3>3 DEF StreamHalf, Filling, Covered
    <2>4. CASE ~ Filling(s)
      <3>1. Block[s] * (filled[s] - filled[s]) = 0
        <4>1. filled[s] - filled[s] = 0
          BY <2>2
        <4> QED
          BY <2>2, <4>1, SMT
      <3>2. now - now <= 2 * (Block[s] * (filled[s] - filled[s]))
        BY <2>2, <3>1
      <3> QED
        BY <1>2, <2>1, <2>4, <3>2 DEF StreamHalf, Filling, Covered
    <2> QED
      BY <2>3, <2>4
  <1> QED
    BY <1>3, <1>4

LEMMA HalfWake ==
    ASSUME TypeOK, Half, Smooth, Wake, NEW s \in Stream, Keeps(s)
    PROVE  StreamHalf(s)'
  <1>1. keep.pc = "sleep" /\ now \in Nat
        /\ last' = last /\ filled' = filled /\ outage' = outage /\ now' = now
    BY DEF Wake, TypeOK
  <1>2. Covered(s, filled[s], last[s])
    BY <1>1 DEF Half, StreamHalf, Filling
  <1>3. CASE Filling(s)'
    <2>1. Sleep.pc \notin {"lock", "write"}
      BY DEF Sleep, KeepExit
    <2>2. keep' = Fill(s, now) /\ Missing(s, now) > 0
      BY <1>3, <2>1 DEF Wake, Audio, Fill, Filling
    <2>3. Covered(s, filled[s] + Missing(s, now), now)
      BY <1>1, <1>2, <2>2, RoundCovers
    <2> QED
      BY <1>1, <1>3, <2>2, <2>3 DEF StreamHalf, Covered, Fill
  <1>4. CASE ~ Filling(s)'
    BY <1>1, <1>2, <1>4 DEF StreamHalf, Covered
  <1> QED
    BY <1>3, <1>4

LEMMA HalfKeepWrite ==
    ASSUME TypeOK, Calm, RoundFits, Half, Smooth, KeepWrite, NEW s \in Stream, Keeps(s)
    PROVE  StreamHalf(s)'
  <1>1. /\ keep.stream \in Stream /\ keep.pc = "write" /\ keep.woke \in Nat /\ keep.left \in Nat
        /\ keep.left > 0 /\ keep.woke = now /\ Written
    BY DEF KeepWrite, TypeOK, Keep, Calm, RoundFits, Written
  <1>2. /\ last' = [last EXCEPT ![keep.stream] = now]
        /\ filled' = [filled EXCEPT ![keep.stream] = @ + 1]
        /\ keep' = AfterBlock(keep.stream)
        /\ outage' = outage /\ now' = now
    BY <1>1 DEF KeepWrite, Stamp
  <1>3. Sleep.pc \notin {"lock", "write"}
    BY DEF Sleep, KeepExit
  <1>4. CASE s = keep.stream
    <2>1. last'[s] = now /\ filled'[s] = filled[s] + 1 /\ filled[s] \in Nat
      BY <1>1, <1>2, <1>4 DEF TypeOK
    <2>2. Covered(s, filled[s] + keep.left, keep.woke)
      BY <1>1, <1>4 DEF Half, StreamHalf, Filling
    <2>3. CASE keep.left > 1
      <3>1. keep' = [keep EXCEPT !.pc = "lock", !.left = keep.left - 1]
        BY <1>2, <2>3 DEF AfterBlock
      <3>2. keep'.pc = "lock" /\ keep'.stream = s /\ keep'.woke = keep.woke
            /\ keep'.left = keep.left - 1
        BY <1>4, <3>1 DEF TypeOK, Keep
      <3>3. filled'[s] + keep'.left = filled[s] + keep.left
        BY <1>1, <2>1, <3>2
      <3> QED
        BY <1>2, <2>2, <3>2, <3>3 DEF StreamHalf, Filling, Covered
    <2>4. CASE ~ (keep.left > 1)
      <3>1. ~ Filling(s)'
        BY <1>2, <1>3, <1>4, <2>4 DEF Filling, AfterBlock, Audio, Fill
      <3>2. filled'[s] = filled[s] + keep.left /\ last'[s] = keep.woke
        BY <1>1, <2>1, <2>4
      <3> QED
        BY <1>2, <2>2, <3>1, <3>2 DEF StreamHalf, Covered
    <2> QED
      BY <2>3, <2>4
  <1>5. CASE s # keep.stream
    <2>1. last'[s] = last[s] /\ filled'[s] = filled[s]
      BY <1>1, <1>2, <1>5 DEF TypeOK
    <2>2. Covered(s, filled[s], last[s])
      BY <1>5 DEF Half, StreamHalf, Filling
    <2>3. CASE Filling(s)'
      <3>1. keep'.stream = s /\ keep'.pc \in {"lock", "write"}
        BY <2>3 DEF Filling
      <3>2. ~ (keep.left > 1)
        BY <1>2, <1>5, <3>1 DEF AfterBlock, TypeOK, Keep
      <3>3. keep' = Fill(s, keep.woke) /\ Missing(s, keep.woke) > 0
        BY <1>2, <1>3, <3>1, <3>2 DEF AfterBlock, Audio, Fill
      <3>4. Covered(s, filled[s] + Missing(s, keep.woke), keep.woke)
        BY <1>1, <2>2, <3>3, RoundCovers
      <3> QED
        BY <1>2, <2>1, <2>3, <3>3, <3>4 DEF StreamHalf, Covered, Fill
    <2>4. CASE ~ Filling(s)'
      BY <1>2, <2>1, <2>2, <2>4 DEF StreamHalf, Covered
    <2> QED
      BY <2>3, <2>4
  <1> QED
    BY <1>4, <1>5

LEMMA HalfStep == TypeOK /\ Calm /\ PadInv /\ Half /\ [Next]_vars => Half'
  <1> SUFFICES ASSUME TypeOK, Calm, PadInv, Half, [Next]_vars, Smooth', NEW s \in Stream, Keeps(s)
               PROVE  StreamHalf(s)'
    BY DEF Half, Keeps, Pace, FramePeriod
  <1>1. Smooth /\ StreamHalf(s)
    BY SmoothBefore DEF Half
  <1>2. CASE KeepLock
    <2>1. keep.pc = "lock" /\ keep.stream \in Stream /\ pipe[keep.stream] = "open"
      BY <1>1, <1>2 DEF KeepLock, Calm, TypeOK, Keep
    <2>2. keep' = [keep EXCEPT !.pc = "write"]
      BY <1>2, <2>1 DEF KeepLock
    <2>3. /\ keep'.pc = "write" /\ keep'.stream = keep.stream
          /\ keep'.left = keep.left /\ keep'.woke = keep.woke
      BY <2>2 DEF TypeOK, Keep
    <2> QED
      BY <1>1, <1>2, <2>1, <2>3 DEF KeepLock, StreamHalf, Filling, Covered
  <1>3. CASE UNCHANGED <<last, filled, keep, outage>>
    BY <1>1, <1>3 DEF StreamHalf, Filling, Covered
  <1>4. ReceiveWrite \/ Wake \/ KeepLock \/ KeepWrite \/ UNCHANGED <<last, filled, keep, outage>>
    BY DEF Next, Receive, Unreadable, OtherFrame, NoFrame, ReceiveLock, RequestStop, Join, CloseFifo, Finish, Fault,
           Resume, Advance
  <1> QED
    BY <1>1, <1>2, <1>3, <1>4, HalfReceive, HalfWake, HalfKeepWrite DEF PadInv

(***************************************************************************)
(* The keep-alive thread tends to every stream in time.  When it goes to   *)
(* sleep, each stream has been written to, or found silent for no longer   *)
(* than the threshold, at that very moment.                                *)
(***************************************************************************)
Watched(s) == (s = "video" => cached) /\ ~ Delivering(s)

Near(s) ==
    /\ keep.pc = "sleep" => keep.due <= last[s] + Gap(s) + Tick
    /\ Filling("video") /\ s = "audio" => now <= last[s] + Gap(s) + Tick + Jitter
    /\ Filling("audio") /\ s = "video" => now <= last[s] + Gap(s)

Punctual ==
    /\ keep.pc # "exited"
    /\ keep.pc = "sleep" => now <= keep.due + Jitter /\ keep.due <= now + Tick

Tended == Smooth => Punctual /\ \A s \in Stream : Watched(s) => Near(s)

(***************************************************************************)
(* What a step may do to a stream that is near: leave it as it is, write   *)
(* to it, or let the thread go to sleep.                                   *)
(***************************************************************************)
LEMMA NearStays ==
    ASSUME NEW s \in Stream, Near(s), keep' = keep, now' = now, last'[s] = last[s]
    PROVE  Near(s)'
  BY DEF Near, Filling, Gap, Pace, FramePeriod

LEMMA NearLater ==
    ASSUME TypeOK, TypeOK', NEW s \in Stream, now' = now, last'[s] \in Nat,
           now <= last'[s] + Gap(s), keep'.pc = "sleep" => keep'.due = now + Tick
    PROVE  Near(s)'
  <1>1. Gap(s) \in Nat /\ now \in Nat /\ Tick \in Nat /\ Jitter \in Nat /\ keep'.due \in Nat
    BY Paces, ClockAssumption DEF TypeOK, Keep
  <1>2. Gap(s)' = Gap(s)
    BY DEF Gap, Pace, FramePeriod
  <1>3. now <= last'[s] + Gap(s) + Tick + Jitter
    BY <1>1
  <1>4. keep'.pc = "sleep" => keep'.due <= last'[s] + Gap(s) + Tick
    BY <1>1
  <1> QED
    BY <1>2, <1>3, <1>4 DEF Near

LEMMA TendedReceive ==
    ASSUME TypeOK, TypeOK', Calm, Tended, Smooth,
           (\E s \in {"video", "audio"} : Receive(s) \/ Unreadable(s))
              \/ OtherFrame \/ NoFrame \/ ReceiveLock \/ ReceiveWrite
    PROVE  Punctual' /\ \A s \in Stream : Watched(s)' => Near(s)'
  <1>1. keep' = keep /\ now' = now
    BY DEF Receive, Unreadable, OtherFrame, NoFrame, ReceiveLock, ReceiveWrite
  <1>2. Punctual'
    BY <1>1 DEF Tended, Punctual
  <1>3. recv.stream \in Stream /\ now \in Nat
    BY DEF TypeOK, Recv
  <1>4. ASSUME NEW s \in Stream, Watched(s)' PROVE Near(s)'
    <2>1. CASE ReceiveWrite
      <3>1. last' = [last EXCEPT ![recv.stream] = now] /\ cached' = cached
        BY <2>1 DEF ReceiveWrite, Stamp, Calm, Written
      <3>2. CASE s = recv.stream
        <4>1. last'[s] = now
          BY <1>3, <3>1, <3>2 DEF TypeOK
        <4>2. keep.pc = "sleep" => keep.due <= now + Tick
          BY DEF Tended, Punctual
        <4>3. Gap(s) \in Nat /\ Tick \in Nat /\ Jitter \in Nat /\ keep.due \in Nat
          BY Paces, ClockAssumption DEF TypeOK, Keep
        <4>4. now <= now + Gap(s) /\ now <= now + Gap(s) + Tick + Jitter
              /\ (keep.pc = "sleep" => keep.due <= now + Gap(s) + Tick)
          BY <1>3, <4>2, <4>3
        <4> QED
          BY <1>1, <4>1, <4>4 DEF Near, Gap, Pace, FramePeriod
      <3>3. CASE s # recv.stream
        <4>1. last'[s] = last[s] /\ ~ Delivering(s)
          BY <1>3, <3>1, <3>3 DEF TypeOK, Delivering
        <4>2. Watched(s)
          BY <1>4, <3>1, <4>1 DEF Watched
        <4> QED
          BY <1>1, <4>1, <4>2, NearStays DEF Tended
      <3> QED
        BY <3>2, <3>3
    <2>2. CASE ~ ReceiveWrite
      <3>1. last' = last
        BY <2>2 DEF Receive, Unreadable, OtherFrame, NoFrame, ReceiveLock
      <3>2. Watched(s)
        <4>1. CASE ReceiveLock
          <5>1. recv.pc = "lock" /\ recv' = [recv EXCEPT !.pc = "write"] /\ cached' = cached
            BY <1>3, <4>1 DEF ReceiveLock, Calm
          <5>2. recv'.pc = "write" /\ recv'.stream = recv.stream
            BY <5>1 DEF TypeOK, Recv
          <5> QED
            BY <1>4, <5>1, <5>2 DEF Watched, Delivering
        <4>2. CASE ~ ReceiveLock
          <5>1. recv.pc = "capture"
            BY <2>2, <4>2 DEF Receive, Unreadable, OtherFrame, NoFrame
          <5>2. CASE \E t \in {"video", "audio"} : Receive(t)
            <6>1. PICK t \in {"video", "audio"} : Receive(t)
              BY <5>2
            <6>2. CASE t = "video" /\ s = "video"
              BY <1>4, <6>1, <6>2 DEF Receive, Watched, Delivering
            <6>3. CASE ~ (t = "video" /\ s = "video")
              BY <1>4, <5>1, <6>1, <6>3 DEF Receive, Watched, Delivering
            <6> QED
              BY <6>2, <6>3
          <5>3. CASE ~ \E t \in {"video", "audio"} : Receive(t)
            <6>1. cached' = cached
              BY <2>2, <4>2, <5>3 DEF Unreadable, OtherFrame, NoFrame
            <6> QED
              BY <1>4, <5>1, <6>1 DEF Watched, Delivering
          <5> QED
            BY <5>2, <5>3
        <4> QED
          BY <4>1, <4>2
      <3> QED
        BY <1>1, <3>1, <3>2, NearStays DEF Tended
    <2> QED
      BY <2>1, <2>2
  <1> QED
    BY <1>2, <1>4

LEMMA TendedWake ==
    ASSUME TypeOK, TypeOK', Tended, Smooth, Wake
    PROVE  Punctual' /\ \A s \in Stream : Watched(s)' => Near(s)'
  <1>1. /\ keep.pc = "sleep" /\ now \in Nat /\ keep.due \in Nat
        /\ last' = last /\ cached' = cached /\ recv' = recv /\ now' = now
        /\ last \in [Stream -> Nat]
    BY DEF Wake, TypeOK, Keep
  <1>2. Tick \in Nat /\ Jitter \in Nat /\ now <= keep.due + Jitter
    BY <1>1, ClockAssumption DEF Tended, Punctual
  <1>3. \A s \in Stream : Watched(s)' = Watched(s)
    BY <1>1 DEF Watched, Delivering
  <1>4. Sleep = [pc |-> "sleep", stream |-> "video", left |-> 0, woke |-> 0, due |-> now + Tick]
    BY DEF Sleep, Smooth
  <1>5. CASE Missing("video", now) > 0
    <2>1. keep' = Fill("video", now)
      BY <1>5 DEF Wake
    <2>2. keep'.pc = "lock" /\ keep'.stream = "video"
      BY <2>1 DEF Fill
    <2>3. ASSUME NEW s \in Stream, Watched(s) PROVE Near(s)'
      <3>1. keep.due <= last[s] + Gap(s) + Tick
        BY <1>1, <2>3 DEF Tended, Near
      <3>2. last[s] \in Nat /\ Gap(s) \in Nat
        BY <1>1, Paces
      <3>3. now <= last[s] + Gap(s) + Tick + Jitter
        BY <1>1, <1>2, <3>1, <3>2
      <3> QED
        BY <1>1, <2>2, <3>3 DEF Near, Filling, Gap, Pace, FramePeriod
    <2> QED
      BY <1>3, <2>2, <2>3 DEF Punctual
  <1>6. CASE ~ (Missing("video", now) > 0) /\ "audio" \in Stream /\ Missing("audio", now) > 0
    <2>1. keep' = Fill("audio", now)
      BY <1>6 DEF Wake, Audio
    <2>2. keep'.pc = "lock" /\ keep'.stream = "audio"
      BY <2>1 DEF Fill
    <2>3. ASSUME NEW s \in Stream, Watched(s) PROVE Near(s)'
      <3>1. s = "video" => now <= last[s] + Gap(s)
        BY <1>1, <1>6, <2>3, MissingFacts DEF Watched
      <3> QED
        BY <1>1, <2>2, <3>1 DEF Near, Filling, Gap, Pace, FramePeriod
    <2> QED
      BY <1>3, <2>2, <2>3 DEF Punctual
  <1>7. CASE ~ (Missing("video", now) > 0) /\ ~ ("audio" \in Stream /\ Missing("audio", now) > 0)
    <2>1. keep' = Sleep
      BY <1>7 DEF Wake, Audio
    <2>2. keep'.pc = "sleep" /\ keep'.due = now + Tick
      BY <1>4, <2>1
    <2>3. ASSUME NEW s \in Stream, Watched(s) PROVE Near(s)'
      <3>1. ~ (Missing(s, now) > 0) /\ (s = "video" => cached)
        BY <1>7, <2>3, StreamAssumption DEF Watched
      <3>2. now <= last[s] + Gap(s)
        BY <1>1, <3>1, MissingFacts
      <3> QED
        BY <1>1, <2>2, <3>2, NearLater
    <2>4. Punctual'
      BY <1>1, <1>2, <2>2 DEF Punctual
    <2> QED
      BY <1>3, <2>3, <2>4
  <1> QED
    BY <1>5, <1>6, <1>7

LEMMA TendedKeepWrite ==
    ASSUME TypeOK, TypeOK', Calm, Tended, Smooth, KeepWrite
    PROVE  Punctual' /\ \A s \in Stream : Watched(s)' => Near(s)'
  <1> DEFINE k == keep.stream
  <1>1. /\ k \in Stream /\ keep.pc = "write" /\ keep.woke = now /\ Written
        /\ now \in Nat /\ last \in [Stream -> Nat] /\ Tick \in Nat /\ Jitter \in Nat
    BY ClockAssumption DEF KeepWrite, TypeOK, Keep, Calm, Written
  <1>2. /\ last' = [last EXCEPT ![k] = now] /\ keep' = AfterBlock(k)
        /\ now' = now /\ recv' = recv /\ cached' = cached
    BY <1>1 DEF KeepWrite, Stamp
  <1>3. \A s \in Stream : Watched(s)' = Watched(s)
    BY <1>2 DEF Watched, Delivering
  <1>4. Sleep = [pc |-> "sleep", stream |-> "video", left |-> 0, woke |-> 0, due |-> now + Tick]
    BY DEF Sleep, Smooth
  <1>5. \/ keep'.pc = "lock" /\ keep'.stream = k
        \/ keep'.pc = "lock" /\ keep'.stream = "audio" /\ k = "video"
        \/ /\ keep' = Sleep
           /\ k = "video" => ~ ("audio" \in Stream /\ Missing("audio", now) > 0)
    BY <1>1, <1>2 DEF AfterBlock, Audio, Fill, TypeOK, Keep
  <1>6. keep'.pc = "sleep" => keep'.due = now + Tick
    BY <1>4, <1>5
  <1>7. keep'.pc \in {"lock", "sleep"}
    BY <1>4, <1>5
  <1>8. Punctual'
    BY <1>1, <1>2, <1>6, <1>7 DEF Punctual
  <1>9. ASSUME NEW s \in Stream, Watched(s) PROVE Near(s)'
    <2>1. CASE s = k
      <3>1. last'[s] = now /\ Gap(s) \in Nat
        BY <1>1, <1>2, <2>1, Paces
      <3> QED
        BY <1>1, <1>2, <1>6, <3>1, NearLater
    <2>2. CASE s # k
      <3>1. last'[s] = last[s] /\ last[s] \in Nat /\ Near(s)
        BY <1>1, <1>2, <1>9, <2>2 DEF Tended
      <3>2. CASE keep'.pc = "lock" /\ keep'.stream = k
        BY <1>1, <1>2, <3>1, <3>2 DEF Near, Filling, Gap, Pace, FramePeriod
      <3>3. CASE keep'.pc = "lock" /\ keep'.stream = "audio" /\ k = "video"
        <4>1. s = "audio"
          BY <2>2, <3>3, StreamAssumption
        <4> QED
          BY <3>3, <4>1 DEF Near, Filling
      <3>4. CASE /\ keep' = Sleep
                 /\ k = "video" => ~ ("audio" \in Stream /\ Missing("audio", now) > 0)
        <4>1. now <= last[s] + Gap(s)
          <5>1. CASE k = "video"
            <6>1. s = "audio" /\ ~ (Missing(s, now) > 0)
              BY <2>2, <3>4, <5>1, StreamAssumption
            <6> QED
              BY <1>1, <6>1, MissingFacts
          <5>2. CASE k # "video"
            <6>1. k = "audio" /\ s = "video"
              BY <1>1, <2>2, <5>2, StreamAssumption
            <6> QED
              BY <1>1, <3>1, <6>1 DEF Near, Filling
          <5> QED
            BY <5>1, <5>2
        <4> QED
          BY <1>2, <1>6, <3>1, <4>1, NearLater
      <3> QED
        BY <1>5, <3>2, <3>3, <3>4
    <2> QED
      BY <2>1, <2>2
  <1> QED
    BY <1>3, <1>8, <1>9

LEMMA TendedStep == TypeOK /\ TypeOK' /\ Calm /\ Tended /\ [Next]_vars => Tended'
  <1> SUFFICES ASSUME TypeOK, TypeOK', Calm, Tended, [Next]_vars, Smooth'
               PROVE  Punctual' /\ \A s \in Stream : Watched(s)' => Near(s)'
    BY DEF Tended
  <1>1. Smooth /\ Punctual
    BY SmoothBefore DEF Tended
  <1>2. CASE KeepLock
    <2>1. keep.pc = "lock" /\ keep.stream \in Stream /\ pipe[keep.stream] = "open"
      BY <1>1, <1>2 DEF KeepLock, Calm, TypeOK, Keep
    <2>2. keep' = [keep EXCEPT !.pc = "write"]
      BY <1>2, <2>1 DEF KeepLock
    <2>3. keep'.pc = "write" /\ keep'.stream = keep.stream
      BY <2>2 DEF TypeOK, Keep
    <2>4. now' = now /\ last' = last /\ cached' = cached /\ recv' = recv
      BY <1>2 DEF KeepLock
    <2>5. ASSUME NEW s \in Stream, Watched(s)' PROVE Near(s)'
      <3>1. Near(s)
        BY <1>1, <2>4, <2>5 DEF Tended, Watched, Delivering
      <3> QED
        BY <2>1, <2>3, <2>4, <3>1 DEF Near, Filling, Gap, Pace, FramePeriod
    <2> QED
      BY <2>3, <2>5 DEF Punctual
  <1>3. CASE Advance
    <2>1. keep.pc = "sleep"
      BY <1>1, <1>3, RoundTakesNoTime DEF Punctual, TypeOK, Keep
    <2>2. /\ keep' = keep /\ last' = last /\ recv' = recv /\ cached' = cached
          /\ now' = now + 1 /\ now < keep.due + Jitter
      BY <1>3, <2>1 DEF Advance
    <2>3. Punctual'
      <3>1. now \in Nat /\ keep.due \in Nat /\ Jitter \in Nat /\ Tick \in Nat
        BY ClockAssumption DEF TypeOK, Keep
      <3>2. keep.due <= now + Tick
        BY <1>1, <2>1 DEF Punctual
      <3>3. now + 1 <= keep.due + Jitter /\ keep.due <= now + 1 + Tick
        BY <2>2, <3>1, <3>2
      <3> QED
        BY <2>1, <2>2, <3>3 DEF Punctual
    <2>4. ASSUME NEW s \in Stream, Watched(s)' PROVE Near(s)'
      <3>1. Near(s)
        BY <1>1, <2>2, <2>4 DEF Tended, Watched, Delivering
      <3> QED
        BY <2>1, <2>2, <3>1 DEF Near, Filling, Gap, Pace, FramePeriod
    <2> QED
      BY <2>3, <2>4
  <1>4. CASE UNCHANGED <<keep, now, last, recv, cached>>
    <2>1. \A s \in Stream : Watched(s)' => Near(s)
      BY <1>1, <1>4 DEF Tended, Watched, Delivering
    <2> QED
      BY <1>1, <1>4, <2>1, NearStays DEF Punctual
  <1>5. \/ (\E s \in {"video", "audio"} : Receive(s) \/ Unreadable(s))
           \/ OtherFrame \/ NoFrame \/ ReceiveLock \/ ReceiveWrite
        \/ Wake \/ KeepLock \/ KeepWrite \/ Advance
        \/ UNCHANGED <<keep, now, last, recv, cached>>
    BY DEF Smooth, Stopped, Next, RequestStop, Join, CloseFifo, Finish, Fault, Resume
  <1> QED
    BY <1>1, <1>2, <1>3, <1>4, <1>5, TendedReceive, TendedWake, TendedKeepWrite

LEMMA InitHalf == Init => Calm /\ PadInv /\ Half /\ Tended
  <1> SUFFICES ASSUME Init PROVE Calm /\ PadInv /\ Half /\ Tended
    OBVIOUS
  <1>1. Calm /\ RoundFits
    BY DEF Init, Calm, RoundFits
  <1>2. ASSUME NEW s \in Stream PROVE Padded(s) /\ StreamHalf(s)
    <2>1. Block[s] \in Nat
      BY BlockAssumption
    <2>2. Block[s] * 0 = 0 /\ Block[s] * (0 - 0) = 0
      BY <2>1, SMT
    <2> QED
      BY <2>2 DEF Init, Padded, StreamHalf, Covered, Filling
  <1>3. Punctual
    BY ClockAssumption DEF Init, Punctual
  <1>4. ASSUME NEW s \in Stream PROVE Near(s)
    <2>1. Gap(s) \in Nat /\ Tick \in Nat
      BY Paces, ClockAssumption
    <2>2. last[s] = 0 /\ keep.pc = "sleep" /\ keep.due = Tick
      BY DEF Init
    <2> QED
      BY <2>1, <2>2 DEF Near, Filling
  <1> QED
    BY <1>1, <1>2, <1>3, <1>4 DEF PadInv, Half, Tended

(***************************************************************************)
(* As long as FFmpeg reads, padding makes up for at least half of the time *)
(* that no frame of a stream has come for, once it has had its first one,  *)
(* but for the threshold, a tick and the jitter: at every frame rate up to *)
(* 120 and however late the keep-alive thread wakes up                     *)
(* (source_recorder.py:553-589).                                           *)
(***************************************************************************)
THEOREM HalfIsKept == Spec => []HalfKept
  <1>1. TypeOK /\ Calm /\ Half /\ Tended => HalfKept
    <2> SUFFICES ASSUME TypeOK, Calm, Half, Tended, Smooth, NEW s \in Stream,
                        ~ Filling(s), Watched(s), Keeps(s)
                 PROVE  now - outage[s].since <=
                            2 * Block[s] * (filled[s] - outage[s].filled) + Gap(s) + Tick + Jitter
      BY DEF HalfKept, Watched, Keeps
    <2>1. last[s] - outage[s].since <= 2 * (Block[s] * (filled[s] - outage[s].filled))
      BY DEF Half, StreamHalf, Covered
    <2>2. /\ Block[s] \in Nat /\ last[s] \in Nat /\ outage[s].since \in Nat /\ now \in Nat
          /\ filled[s] - outage[s].filled \in Int
          /\ Gap(s) \in Nat /\ Tick \in Nat /\ Jitter \in Nat
      BY Paces, ClockAssumption DEF TypeOK
    <2>3. \A d \in Int : 2 * Block[s] * d = 2 * (Block[s] * d) /\ Block[s] * d \in Int
      BY <2>2, SMT
    <2>4. now <= last[s] + Gap(s) + Tick + Jitter
      <3>1. Near(s) /\ Punctual
        BY DEF Tended
      <3>2. CASE keep.pc = "sleep"
        <4>1. keep.due <= last[s] + Gap(s) + Tick /\ now <= keep.due + Jitter /\ keep.due \in Nat
          BY <3>1, <3>2 DEF Near, Punctual, TypeOK, Keep
        <4> QED
          BY <2>2, <4>1
      <3>3. CASE keep.pc # "sleep"
        <4>1. keep.pc \in {"lock", "write"} /\ keep.stream \in Stream /\ keep.stream # s
          BY <3>1, <3>3 DEF Punctual, Filling, TypeOK, Keep
        <4>2. \/ Filling("video") /\ s = "audio"
              \/ Filling("audio") /\ s = "video"
          BY <4>1, StreamAssumption DEF Filling
        <4>3. now <= last[s] + Gap(s) + Tick + Jitter \/ now <= last[s] + Gap(s)
          BY <3>1, <4>2 DEF Near
        <4> QED
          BY <2>2, <4>3
      <3> QED
        BY <3>2, <3>3
    <2> DEFINE d == filled[s] - outage[s].filled
    <2>5. 2 * Block[s] * d = 2 * (Block[s] * d) /\ Block[s] * d \in Int
      BY <2>2, <2>3
    <2>6. last[s] - outage[s].since <= 2 * (Block[s] * d)
      BY <2>1
    <2> HIDE DEF d
    <2>7. now - outage[s].since <= 2 * Block[s] * d + Gap(s) + Tick + Jitter
      BY <2>2, <2>4, <2>5, <2>6
    <2> USE DEF d
    <2> QED
      BY <2>7
  <1> QED
    BY <1>1, InitHalf, CalmStep, PadStep, HalfStep, TendedStep, GapTypes, PTL DEF Spec

-----------------------------------------------------------------------------
(***************************************************************************)
(* Silence is reported.  As long as FFmpeg reads, a write takes no time,   *)
(* so a frame that is on its way to the FIFO is as old as the present, and *)
(* each timeout that the loop has counted is one wait since then.          *)
(***************************************************************************)
WaitOf(n) == (n + 1) * CaptureWait

WaitBounded ==
    recv.pc = "capture" => now <= recv.until /\ recv.until <= lastFrame + WaitOf(recv.timeouts)

OnItsWay == recv.pc \in {"lock", "write"} => now = lastFrame

Quiet == faults = 0 => ffmpeg # "hung" /\ WaitBounded /\ OnItsWay

LEMMA Waits ==
    ASSUME NEW n \in Nat
    PROVE  /\ WaitOf(n) \in Nat /\ WaitOf(0) = CaptureWait
           /\ WaitOf(n + 1) = WaitOf(n) + CaptureWait
           /\ n < MaxTimeouts => WaitOf(n) <= MaxTimeouts * CaptureWait
  <1>1. CaptureWait \in Nat /\ MaxTimeouts \in Nat
    BY ClockAssumption
  <1>2. \A c, m \in Nat : /\ (m + 1) * c \in Nat /\ (0 + 1) * c = c
                          /\ ((m + 1) + 1) * c = (m + 1) * c + c
    BY SMT
  <1>3. \A c, m, x \in Nat : m < x => (m + 1) * c <= x * c
    <2> SUFFICES ASSUME NEW c \in Nat, NEW m \in Nat, NEW x \in Nat, m < x
                 PROVE  (m + 1) * c <= x * c
      OBVIOUS
    <2>1. x = (m + 1) + (x - (m + 1)) /\ x - (m + 1) \in Nat
      BY SMT
    <2>2. \A d \in Nat : ((m + 1) + d) * c = (m + 1) * c + d * c /\ d * c \in Nat
      BY SMT
    <2>3. (m + 1) * c \in Nat
      BY SMT
    <2> QED
      BY <2>1, <2>2, <2>3
  <1> QED
    BY <1>1, <1>2, <1>3 DEF WaitOf

(***************************************************************************)
(* The loop waits anew: NextCapture waits CaptureWait from now on.         *)
(***************************************************************************)
LEMMA WaitsAnew ==
    ASSUME TypeOK, NEW n \in Nat, NextCapture(n).pc = "capture",
           n = 0 => now = lastFrame,
           n > 0 => now <= lastFrame + WaitOf(n - 1)
    PROVE  /\ NextCapture(n).timeouts = n
           /\ now <= NextCapture(n).until
           /\ NextCapture(n).until <= lastFrame + WaitOf(n)
  <1>1. now \in Nat /\ lastFrame \in Nat /\ CaptureWait \in Nat
    BY ClockAssumption DEF TypeOK
  <1>2. NextCapture(n).timeouts = n /\ NextCapture(n).until = now + CaptureWait
    BY DEF NextCapture, RecvExit
  <1>3. now + CaptureWait <= lastFrame + WaitOf(n)
    <2>1. CASE n = 0
      <3>1. WaitOf(0) = CaptureWait /\ now = lastFrame
        BY <2>1, Waits
      <3> QED
        BY <1>1, <2>1, <3>1
    <2>2. CASE n > 0
      <3>1. n - 1 \in Nat /\ (n - 1) + 1 = n
        BY <2>2
      <3>2. WaitOf(n - 1) \in Nat /\ WaitOf(n) = WaitOf(n - 1) + CaptureWait
        BY <3>1, Waits
      <3> QED
        BY <1>1, <2>2, <3>2
    <2> QED
      BY <2>1, <2>2
  <1> QED
    BY <1>1, <1>2, <1>3

(***************************************************************************)
(* While FFmpeg reads, the clock moves only when the loop waits or is gone.*)
(***************************************************************************)
LEMMA ClockWaits ==
    ASSUME TypeOK, ffmpeg # "hung", Advance
    PROVE  recv.pc \notin {"lock", "write"}
  <1>1. Returns
    BY DEF Returns
  <1>2. recv.pc # "write" /\ keep.pc # "write"
    BY <1>1 DEF Advance, Ready
  <1>3. recv.stream \in Stream
    BY DEF TypeOK, Recv
  <1>4. lock[recv.stream] = "free"
    BY <1>2, <1>3 DEF TypeOK
  <1> QED
    BY <1>2, <1>4 DEF Advance, Ready

LEMMA QuietReceives ==
    ASSUME TypeOK, Quiet, faults' = 0,
           (\E s \in {"video", "audio"} : Receive(s) \/ Unreadable(s))
              \/ OtherFrame \/ NoFrame \/ ReceiveLock \/ ReceiveWrite
    PROVE  Quiet'
  <1>1. faults = 0 /\ ffmpeg' = ffmpeg /\ now' = now /\ now \in Nat /\ lastFrame \in Nat
    BY DEF Receive, Unreadable, OtherFrame, NoFrame, ReceiveLock, ReceiveWrite, TypeOK
  <1>2. ffmpeg # "hung" /\ WaitBounded /\ OnItsWay
    BY <1>1 DEF Quiet
  <1>3. RecvExit.pc = "exited" /\ \A n : NextCapture(n).pc \in {"capture", "exited"}
    BY DEF RecvExit, NextCapture
  <1>4. ASSUME NEW s \in {"video", "audio"}, Receive(s) PROVE WaitBounded' /\ OnItsWay'
    <2>1. lastFrame' = now
      BY <1>4 DEF Receive
    <2>2. CASE s \in Stream
      BY <1>1, <1>4, <2>1, <2>2 DEF Receive, WaitBounded, OnItsWay
    <2>3. CASE s \notin Stream
      <3>1. recv' = NextCapture(0)
        BY <1>4, <2>3 DEF Receive
      <3>2. NextCapture(0).pc = "capture" =>
               /\ NextCapture(0).timeouts = 0
               /\ NextCapture(0).until = now + CaptureWait
        BY DEF NextCapture, RecvExit
      <3>3. WaitOf(0) = CaptureWait /\ CaptureWait \in Nat
        BY Waits, ClockAssumption
      <3> QED
        BY <1>1, <1>3, <2>1, <3>1, <3>2, <3>3 DEF WaitBounded, OnItsWay, WaitOf
    <2> QED
      BY <2>2, <2>3
  <1>8. ASSUME NEW s \in {"video", "audio"}, Unreadable(s) PROVE WaitBounded' /\ OnItsWay'
    <2>1. lastFrame' = now /\ recv' \in {RecvExit, NextCapture(0)}
      BY <1>8 DEF Unreadable
    <2>2. NextCapture(0).pc = "capture" =>
             /\ NextCapture(0).timeouts = 0
             /\ NextCapture(0).until = now + CaptureWait
      BY DEF NextCapture, RecvExit
    <2>3. WaitOf(0) = CaptureWait /\ CaptureWait \in Nat
      BY Waits, ClockAssumption
    <2> QED
      BY <1>1, <1>3, <2>1, <2>2, <2>3 DEF WaitBounded, OnItsWay, WaitOf
  <1>5. ASSUME OtherFrame \/ NoFrame PROVE WaitBounded' /\ OnItsWay'
    <2> DEFINE n == recv.timeouts + 1
    <2>1. recv.pc = "capture" /\ lastFrame' = lastFrame /\ recv.timeouts \in Nat
          /\ recv' \in {RecvExit, NextCapture(n)}
      BY <1>5 DEF OtherFrame, NoFrame, CountTimeout, TypeOK, Recv
    <2>2. recv.until \in Nat /\ now <= lastFrame + WaitOf(recv.timeouts)
      <3>1. recv.until \in Nat /\ now <= recv.until
            /\ recv.until <= lastFrame + WaitOf(recv.timeouts)
        BY <1>2, <2>1 DEF WaitBounded, TypeOK, Recv
      <3>2. WaitOf(recv.timeouts) \in Nat
        BY <2>1, Waits
      <3> QED
        BY <1>1, <3>1, <3>2
    <2>3. n \in Nat /\ n > 0 /\ n - 1 = recv.timeouts
      BY <2>1
    <2>4. NextCapture(n).pc = "capture" =>
             /\ NextCapture(n).timeouts = n
             /\ now <= NextCapture(n).until
             /\ NextCapture(n).until <= lastFrame + WaitOf(n)
      <3> HIDE DEF n
      <3> QED
        BY <2>2, <2>3, WaitsAnew
    <2> HIDE DEF n
    <2> QED
      BY <1>1, <1>3, <2>1, <2>4 DEF WaitBounded, OnItsWay, WaitOf
  <1>6. ASSUME ReceiveLock PROVE WaitBounded' /\ OnItsWay'
    <2>1. recv.pc = "lock" /\ lastFrame' = lastFrame /\ recv' \in {RecvExit, [recv EXCEPT !.pc = "write"]}
      BY <1>6 DEF ReceiveLock
    <2>2. recv'.pc # "capture" /\ now = lastFrame
      BY <1>2, <1>3, <2>1 DEF OnItsWay, TypeOK, Recv
    <2> QED
      BY <1>1, <2>1, <2>2 DEF WaitBounded, OnItsWay
  <1>7. ASSUME ReceiveWrite PROVE WaitBounded' /\ OnItsWay'
    <2>1. recv.pc = "write" /\ lastFrame' = lastFrame /\ recv' \in {RecvExit, NextCapture(0)}
      BY <1>7 DEF ReceiveWrite
    <2>2. now = lastFrame
      BY <1>2, <2>1 DEF OnItsWay
    <2>3. NextCapture(0).pc = "capture" =>
             /\ NextCapture(0).timeouts = 0
             /\ now <= NextCapture(0).until
             /\ NextCapture(0).until <= lastFrame + WaitOf(0)
      BY <2>2, WaitsAnew
    <2> QED
      BY <1>1, <1>3, <2>1, <2>2, <2>3 DEF WaitBounded, OnItsWay, WaitOf
  <1> QED
    BY <1>1, <1>2, <1>4, <1>5, <1>6, <1>7, <1>8 DEF Quiet

LEMMA QuietStep == TypeOK /\ Quiet /\ [Next]_vars => Quiet'
  <1> SUFFICES ASSUME TypeOK, Quiet, [Next]_vars, faults' = 0 PROVE Quiet'
    BY DEF Quiet
  <1>1. CASE (\E s \in {"video", "audio"} : Receive(s) \/ Unreadable(s))
             \/ OtherFrame \/ NoFrame \/ ReceiveLock \/ ReceiveWrite
    BY <1>1, QuietReceives
  <1>2. CASE Fault("hung") \/ Fault("dead")
    BY <1>2 DEF Fault, TypeOK
  <1>3. CASE Advance
    <2>1. faults = 0 /\ UNCHANGED <<lastFrame, recv, ffmpeg>> /\ now' = now + 1 /\ now \in Nat
      BY <1>3 DEF Advance, TypeOK
    <2>2. ffmpeg # "hung" /\ WaitBounded
      BY <2>1 DEF Quiet
    <2>3. recv.pc \notin {"lock", "write"}
      BY <1>3, <2>2, ClockWaits
    <2>4. recv.pc = "capture" => now < recv.until
      BY <1>3 DEF Advance
    <2>5. recv.until \in Nat
      BY DEF TypeOK, Recv
    <2>6. WaitBounded'
      BY <2>1, <2>2, <2>4, <2>5 DEF WaitBounded, WaitOf
    <2>7. OnItsWay'
      BY <2>1, <2>3 DEF OnItsWay
    <2> QED
      BY <2>1, <2>2, <2>6, <2>7 DEF Quiet
  <1>4. CASE UNCHANGED <<now, lastFrame, recv, faults>> /\ ffmpeg' \in {ffmpeg, "reading", "dead"}
    BY <1>4 DEF Quiet, WaitBounded, OnItsWay, WaitOf
  <1>5. \/ (\E s \in {"video", "audio"} : Receive(s) \/ Unreadable(s))
           \/ OtherFrame \/ NoFrame \/ ReceiveLock \/ ReceiveWrite
        \/ Fault("hung") \/ Fault("dead") \/ Advance
        \/ UNCHANGED <<now, lastFrame, recv, faults>> /\ ffmpeg' \in {ffmpeg, "reading", "dead"}
    BY DEF Next, Wake, KeepLock, KeepWrite, RequestStop, Join, CloseFifo, Finish, Resume
  <1> QED
    BY <1>1, <1>2, <1>3, <1>4, <1>5

(***************************************************************************)
(* A receive loop that still waits has had a frame within the time its     *)
(* timeouts add up to (source_recorder.py:484-501), for any timeout, any   *)
(* number of timeouts, and whatever the keep-alive thread writes.          *)
(***************************************************************************)
THEOREM SilenceBounded == Spec => []SilenceIsReported
  <1>1. Init => Quiet
    <2> SUFFICES ASSUME Init PROVE Quiet
      OBVIOUS
    <2>1. now = 0 /\ lastFrame = 0 /\ recv.pc = "capture" /\ recv.timeouts = 0
          /\ recv.until = CaptureWait /\ ffmpeg = "reading"
      BY DEF Init
    <2>2. WaitOf(0) = CaptureWait /\ CaptureWait \in Nat
      BY Waits, ClockAssumption
    <2> QED
      BY <2>1, <2>2 DEF Quiet, WaitBounded, OnItsWay
  <1>2. TypeOK /\ Quiet => SilenceIsReported
    <2> SUFFICES ASSUME TypeOK, Quiet, recv.pc = "capture", faults = 0
                 PROVE  now - lastFrame <= MaxTimeouts * CaptureWait
      BY DEF SilenceIsReported
    <2>1. /\ now \in Nat /\ lastFrame \in Nat /\ recv.until \in Nat
          /\ recv.timeouts \in Nat /\ recv.timeouts < MaxTimeouts
      BY DEF TypeOK, Recv
    <2>2. now <= recv.until /\ recv.until <= lastFrame + WaitOf(recv.timeouts)
      BY DEF Quiet, WaitBounded
    <2>3. WaitOf(recv.timeouts) \in Nat /\ WaitOf(recv.timeouts) <= MaxTimeouts * CaptureWait
      BY <2>1, Waits
    <2>4. MaxTimeouts * CaptureWait \in Nat
      BY ClockAssumption, SMT
    <2> QED
      BY <2>1, <2>2, <2>3, <2>4
  <1> QED
    BY <1>1, <1>2, QuietStep, GapTypes, PTL DEF Spec
=============================================================================
