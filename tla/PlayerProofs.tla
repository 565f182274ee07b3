---------------------------- MODULE PlayerProofs ----------------------------
(***************************************************************************)
(* Theorems of Player, for any number of panes, overlapping refreshes and  *)
(* chunks: the type invariant, that a pane plays the footage of another    *)
(* source only while the seek after a change of source is due, that lists  *)
(* are current once a refresh has gone through, that a seek arrives, and   *)
(* that a range request is answered with the bytes it names.               *)
(***************************************************************************)
EXTENDS Player, WellFoundedInduction, TLAPS

PaneState  == [source : Source \cup {NoSource}, chunks : SUBSET Chunk,
               active : Chunk \cup {NoChunk}]
VideoState == [file : Chunk \cup {NoChunk}, pos : Nat, ready : BOOLEAN, seek : Nat]
Request    == [pane : Pane \cup {None}, source : Source \cup {NoSource},
               center : Time, alive : BOOLEAN, seek : BOOLEAN]

\* The lists of panes hold chunks of the source each shows.
OwnLists(panes) == \A p \in Pane : \A c \in panes[p].chunks : Row[c].source = panes[p].source

\* A request that will still be heard asks for the source its pane shows.
OwnAnswers(panes, requests) ==
    \A f \in Refresh : requests[f].alive /\ requests[f].pane # None =>
        requests[f].source = panes[requests[f].pane].source

Shape   == /\ pane \in [Pane -> PaneState] /\ video \in [Pane -> VideoState]
           /\ master \in Time /\ center \in Time
           /\ refresh \in [Refresh -> Request] /\ newest \in Refresh
Switches == /\ playing \in BOOLEAN /\ reverse \in BOOLEAN
            /\ clean \in BOOLEAN /\ trusted \in BOOLEAN /\ missed \in BOOLEAN
            /\ events \in 0..MaxEvents

\* A pane that is not shown has nothing to play.
Blank == \A p \in Pane : ~Shown(p) => pane[p].active = NoChunk /\ video[p].file = NoChunk

PlayInv == Shape /\ OwnLists(pane) /\ OwnAnswers(pane, refresh) /\ PlaysOwn /\ Blank

USE DEF vars, timelines, Time

-----------------------------------------------------------------------------
(* Choices                                                                 *)

(***************************************************************************)
(* A set of natural numbers has a least one.                               *)
(***************************************************************************)
LEMMA Least == ASSUME NEW S \in SUBSET Nat, S # {}
               PROVE  \E q \in S : \A r \in S : q <= r
<1> DEFINE R == OpToRel(<, Nat)
<1>1. IsWellFoundedOn(R, Nat)
  BY NatLessThanWellFounded
<1>2. \E q \in S : \A r \in S : <<r, q>> \notin R
  <2> HIDE DEF R
  <2> QED BY <1>1, WFMin
<1>3. ASSUME NEW q \in S, NEW r \in S, <<r, q>> \notin R PROVE q <= r
  BY <1>3 DEF OpToRel
<1> QED BY <1>2, <1>3

(***************************************************************************)
(* Rows of the table.                                                      *)
(***************************************************************************)
LEMMA RowType == \A c \in Chunk :
    /\ Row[c].start \in Nat /\ Row[c].length \in Nat /\ Row[c].source \in Source
    /\ EffectiveEnd(c) \in Nat /\ Row[c].available \in BOOLEAN
  BY RowAssumption DEF ChunkRow, EffectiveEnd

(***************************************************************************)
(* The chunk a seek finds is one of the list and has begun.                *)
(***************************************************************************)
LEMMA FoundType ==
  ASSUME NEW chunks \in SUBSET Chunk, NEW t \in Int, ChunkContaining(chunks, t) # NoChunk
  PROVE  ChunkContaining(chunks, t) \in chunks /\ Row[ChunkContaining(chunks, t)].start <= t
<1> DEFINE spanning == {c \in chunks : Row[c].start <= t /\ t <= EffectiveEnd(c)}
           starts   == {Row[c].start : c \in spanning}
           first    == CHOOSE c \in spanning : \A d \in spanning : Row[c].start <= Row[d].start
<1>1. spanning # {} /\ ChunkContaining(chunks, t) = first
  BY DEF ChunkContaining
<1>2. starts \in SUBSET Nat /\ starts # {}
  BY <1>1, RowType
<1>3. PICK q \in starts : \A r \in starts : q <= r
  BY <1>2, Least
<1>4. \E c \in spanning : \A d \in spanning : Row[c].start <= Row[d].start
  BY <1>3
<1>5. first \in spanning
  <2> HIDE DEF spanning
  <2> QED BY <1>4
<1> QED BY <1>1, <1>5

LEMMA TargetType ==
  ASSUME NEW chunks \in SUBSET Chunk, NEW t \in Int, Target(chunks, t) # NoChunk
  PROVE  Target(chunks, t) \in chunks /\ Row[Target(chunks, t)].start <= t
BY FoundType DEF Target

(***************************************************************************)
(* A position in a file.                                                   *)
(***************************************************************************)
LEMMA ClampType == \A c \in Chunk, x \in Int : Clamp(c, x) \in Nat
  BY RowType DEF Clamp

(***************************************************************************)
(* The next request of a refresh is for a pane that is shown, and names    *)
(* its source; the other refreshes are left alone.                         *)
(***************************************************************************)
LEMMA AskType ==
  ASSUME NEW f \in Refresh, NEW panes \in [Pane -> PaneState], NEW mid \in Int,
         NEW n, NEW b \in BOOLEAN, refresh \in [Refresh -> Request]
  PROVE  LET r == Ask(f, panes, mid, n, b)
         IN  /\ r \in [Refresh -> Request]
             /\ \A g \in Refresh : g # f => r[g] = refresh[g]
             /\ r[f].pane # None => r[f].source = panes[r[f].pane].source
<1> DEFINE later == From(panes, n)
           next  == CHOOSE q \in later : \A r \in later : q <= r
           asked == [pane |-> next, source |-> panes[next].source, center |-> mid,
                     alive |-> TRUE, seek |-> b]
<1>1. NoRequest \in Request /\ NoRequest.pane = None
  BY DEF NoRequest, Request
<1>2. later \in SUBSET Nat /\ later \subseteq Pane
  BY PaneAssumption DEF From
<1>3. CASE later = {}
  <2>1. Ask(f, panes, mid, n, b) = [refresh EXCEPT ![f] = NoRequest]
    BY <1>3 DEF Ask
  <2> HIDE DEF later
  <2> QED BY <1>1, <2>1
<1>4. CASE later # {}
  <2>1. next \in later
    <3>1. \E q \in later : \A r \in later : q <= r
      BY <1>2, <1>4, Least
    <3> HIDE DEF later
    <3> QED BY <3>1
  <2>2. next \in Pane /\ panes[next] \in PaneState
    BY <1>2, <2>1
  <2>3. asked \in Request
    <3> HIDE DEF next
    <3> QED BY <2>2 DEF Request, PaneState
  <2>4. Ask(f, panes, mid, n, b) = [refresh EXCEPT ![f] = asked]
    BY <1>4 DEF Ask
  <2>5. asked.pane = next /\ asked.source = panes[next].source
    OBVIOUS
  <2> HIDE DEF next, later, asked
  <2> QED BY <2>3, <2>4, <2>5
<1> QED BY <1>3, <1>4

(***************************************************************************)
(* A refresh that goes on will seek at its end if it was to; it goes on if *)
(* a pane is left.                                                         *)
(***************************************************************************)
LEMMA AskSeeks ==
  ASSUME NEW f \in Refresh, NEW panes, NEW mid, NEW n, NEW b, refresh \in [Refresh -> Request]
  PROVE  LET r == Ask(f, panes, mid, n, b)
         IN  /\ r[f] = NoRequest \/ (r[f].pane # None /\ r[f].seek = b)
             /\ From(panes, n) # {} => r[f].pane # None
<1> DEFINE later == From(panes, n)
           next  == CHOOSE q \in later : \A r \in later : q <= r
           asked == [pane |-> next, source |-> panes[next].source, center |-> mid,
                     alive |-> TRUE, seek |-> b]
<1>1. CASE later = {}
  <2>1. Ask(f, panes, mid, n, b) = [refresh EXCEPT ![f] = NoRequest]
    BY <1>1 DEF Ask
  <2>2. Ask(f, panes, mid, n, b)[f] = NoRequest
    BY <2>1
  <2> QED BY <1>1, <2>2
<1>2. CASE later # {}
  <2>1. later \in SUBSET Nat
    BY PaneAssumption DEF From
  <2>2. next \in Nat
    <3>1. \E q \in later : \A r \in later : q <= r
      BY <1>2, <2>1, Least
    <3> HIDE DEF later
    <3> QED BY <2>1, <3>1
  <2>3. Ask(f, panes, mid, n, b) = [refresh EXCEPT ![f] = asked]
    BY <1>2 DEF Ask
  <2>4. asked.pane = next /\ asked.seek = b
    OBVIOUS
  <2> HIDE DEF next, asked
  <2>5. asked.pane # None
    BY <2>2, <2>4 DEF None
  <2>6. Ask(f, panes, mid, n, b)[f] = asked
    BY <2>3
  <2> QED BY <2>4, <2>5, <2>6
<1> QED BY <1>1, <1>2

-----------------------------------------------------------------------------
(* Seeks                                                                   *)

\* Chunk c, if there is one, has begun by time t.
Begun(c, t) == c # NoChunk => Row[c].start <= t

\* Video w is what v, that played chunk active, becomes to show c.
Shows(w, v, active, c) == /\ w \in VideoState
                          /\ c # NoChunk /\ c # active => w.file = c
                          /\ c # NoChunk /\ c = active => w.file = v.file
                          /\ c = NoChunk => w.file = NoChunk

(***************************************************************************)
(* Where loadChunkInPane leaves a video that is to show chunk c, begun by  *)
(* time t: c is loaded, or the file that was there already is kept.        *)
(***************************************************************************)
LEMMA MovedType ==
  \A v \in VideoState, active \in Chunk \cup {NoChunk}, c \in Chunk \cup {NoChunk}, t \in Int :
    Begun(c, t) => Shows(Moved(v, active, c, t), v, active, c)
<1> SUFFICES ASSUME NEW v \in VideoState, NEW active \in Chunk \cup {NoChunk},
                    NEW c \in Chunk \cup {NoChunk}, NEW t \in Int,
                    c # NoChunk => Row[c].start <= t
             PROVE  /\ Moved(v, active, c, t) \in VideoState
                    /\ c # NoChunk /\ c # active => Moved(v, active, c, t).file = c
                    /\ c # NoChunk /\ c = active => Moved(v, active, c, t).file = v.file
                    /\ c = NoChunk => Moved(v, active, c, t).file = NoChunk
  BY DEF Begun, Shows
<1>1. CASE c = NoChunk
  BY <1>1 DEF Moved, NoVideo, VideoState
<1>2. CASE c # NoChunk /\ c # active
  <2>1. t - Row[c].start \in Nat
    BY <1>2, RowType
  <2>2. Moved(v, active, c, t) = [file |-> c, pos |-> 0, ready |-> FALSE, seek |-> t - Row[c].start]
    BY <1>2 DEF Moved
  <2> QED BY <1>2, <2>1, <2>2 DEF VideoState
<1>3. CASE c # NoChunk /\ c = active
  <2>1. Clamp(c, t - Row[c].start) \in Nat
    BY <1>3, RowType, ClampType
  <2>2. Moved(v, active, c, t) = [v EXCEPT !.pos = Clamp(c, t - Row[c].start)]
    BY <1>3 DEF Moved
  <2> QED BY <1>3, <2>1, <2>2 DEF VideoState
<1> QED BY <1>1, <1>2, <1>3

(***************************************************************************)
(* A seek over lists of the panes' own chunks leaves every pane with a     *)
(* chunk of its own.                                                       *)
(***************************************************************************)
LEMMA SeekKeeps ==
  ASSUME NEW panes \in [Pane -> PaneState], NEW t \in Int, Shape, PlaysOwn, Blank, OwnLists(panes),
         \A p \in Pane : panes[p].active = pane[p].active /\ panes[p].source = pane[p].source,
         SeekAll(panes, t)
  PROVE  /\ pane' \in [Pane -> PaneState] /\ video' \in [Pane -> VideoState] /\ master' \in Int
         /\ \A p \in Pane : pane'[p].source = panes[p].source /\ pane'[p].chunks = panes[p].chunks
         /\ PlaysOwn' /\ Blank'
<1> DEFINE target == [p \in Pane |-> Target(panes[p].chunks, t)]
           on(p)  == panes[p].source # NoSource
<1>1. /\ master' = t
      /\ pane' = [p \in Pane |-> IF on(p) THEN [panes[p] EXCEPT !.active = target[p]] ELSE panes[p]]
      /\ video' = [p \in Pane |-> IF on(p) THEN Moved(video[p], panes[p].active, target[p], t)
                                           ELSE video[p]]
  BY DEF SeekAll
<1>2. ASSUME NEW p \in Pane
      PROVE  /\ target[p] \in panes[p].chunks \cup {NoChunk}
             /\ Moved(video[p], panes[p].active, target[p], t) \in VideoState
             /\ target[p] # NoChunk /\ target[p] # panes[p].active =>
                   Moved(video[p], panes[p].active, target[p], t).file = target[p]
             /\ target[p] # NoChunk /\ target[p] = panes[p].active =>
                   Moved(video[p], panes[p].active, target[p], t).file = video[p].file
             /\ target[p] = NoChunk => Moved(video[p], panes[p].active, target[p], t).file = NoChunk
  <2>1. panes[p].chunks \in SUBSET Chunk /\ panes[p].active \in Chunk \cup {NoChunk}
        /\ video[p] \in VideoState
    BY DEF PaneState, Shape
  <2>2. target[p] = Target(panes[p].chunks, t)
    OBVIOUS
  <2> HIDE DEF target
  <2>3. target[p] # NoChunk => target[p] \in panes[p].chunks /\ Row[target[p]].start <= t
    BY <2>1, <2>2, TargetType
  <2>4. target[p] \in Chunk \cup {NoChunk}
    BY <2>1, <2>3
  <2> DEFINE v == video[p]  a == panes[p].active  c == target[p]
  <2>5. /\ v \in VideoState /\ a \in Chunk \cup {NoChunk} /\ c \in Chunk \cup {NoChunk}
        /\ Begun(c, t)
    BY <2>1, <2>3, <2>4 DEF Begun
  <2>6. Shows(Moved(v, a, c, t), v, a, c)
    <3> HIDE DEF v, a, c
    <3> QED BY <2>5, MovedType, Zenon
  <2> QED BY <2>3, <2>6 DEF Shows
<1>3. ASSUME NEW p \in Pane
      PROVE  [panes[p] EXCEPT !.active = target[p]] \in PaneState
  <2>1. target[p] \in Chunk \cup {NoChunk}
    BY <1>2 DEF PaneState
  <2> HIDE DEF target
  <2> QED BY <2>1 DEF PaneState
<1> HIDE DEF target
<1>4. pane' \in [Pane -> PaneState] /\ video' \in [Pane -> VideoState] /\ master' \in Int
  BY <1>1, <1>2, <1>3 DEF Shape
<1>5. \A p \in Pane : pane'[p].source = panes[p].source /\ pane'[p].chunks = panes[p].chunks
  BY <1>1 DEF PaneState
<1>6. ASSUME NEW p \in Pane
      PROVE  /\ pane'[p].active # NoChunk => Row[pane'[p].active].source = pane'[p].source
             /\ video'[p].file = pane'[p].active
             /\ pane'[p].source = NoSource => pane'[p].active = NoChunk /\ video'[p].file = NoChunk
  <2>1. CASE on(p)
    <3>1. pane'[p].active = target[p] /\ pane'[p].source = panes[p].source
      BY <1>1, <2>1 DEF PaneState
    <3>2. video'[p] = Moved(video[p], panes[p].active, target[p], t)
      BY <1>1, <2>1
    <3>3. target[p] # NoChunk => Row[target[p]].source = pane'[p].source
      BY <1>2, <1>5 DEF OwnLists
    <3>4. target[p] # NoChunk /\ target[p] = pane[p].active => video[p].file = target[p]
      BY DEF PlaysOwn
    <3> QED BY <1>2, <2>1, <3>1, <3>2, <3>3, <3>4
  <2>2. CASE ~on(p)
    BY <1>1, <2>2 DEF Blank, Shown
  <2> QED BY <2>1, <2>2
<1>7. PlaysOwn' /\ Blank'
  <2>1. PlaysOwn'
    BY <1>6 DEF PlaysOwn
  <2>2. Blank'
    BY <1>6 DEF Blank, Shown
  <2> QED BY <2>1, <2>2
<1> QED BY <1>4, <1>5, <1>7

(***************************************************************************)
(* The same for a seek over the lists there are.                           *)
(***************************************************************************)
LEMMA SeekStep ==
  ASSUME NEW t \in Int, PlayInv, SeekAll(pane, t)
  PROVE  /\ pane' \in [Pane -> PaneState] /\ video' \in [Pane -> VideoState] /\ master' \in Int
         /\ \A p \in Pane : pane'[p].source = pane[p].source /\ pane'[p].chunks = pane[p].chunks
         /\ OwnLists(pane') /\ PlaysOwn' /\ Blank'
<1>1. pane \in [Pane -> PaneState] /\ OwnLists(pane) /\ Shape /\ PlaysOwn /\ Blank
  BY DEF PlayInv, Shape
<1>2. /\ pane' \in [Pane -> PaneState] /\ video' \in [Pane -> VideoState] /\ master' \in Int
      /\ \A p \in Pane : pane'[p].source = pane[p].source /\ pane'[p].chunks = pane[p].chunks
      /\ PlaysOwn' /\ Blank'
  BY <1>1, SeekKeeps
<1> QED BY <1>1, <1>2 DEF OwnLists

-----------------------------------------------------------------------------
(* Timelines                                                               *)

(***************************************************************************)
(* A handler that leaves the requests alone and the panes their sources    *)
(* leaves their answers genuine.                                           *)
(***************************************************************************)
LEMMA AnswersKept ==
  ASSUME NEW panes, OwnAnswers(pane, refresh), Shape,
         \A p \in Pane : panes[p].source = pane[p].source
  PROVE  OwnAnswers(panes, refresh)
BY DEF OwnAnswers, Shape, Request, None

(***************************************************************************)
(* A handler that fails no refresh, and leaves the others waiting as they  *)
(* are, leaves a seek that is due to be made.                              *)
(***************************************************************************)
LEMMA DueKept ==
  ASSUME missed' = missed, NEW f \in Refresh, ~Done(f) /\ refresh[f].seek => ~Done(f)' /\ refresh'[f].seek,
         \A g \in Refresh : g # f => refresh'[g].pane = refresh[g].pane /\ refresh'[g].seek = refresh[g].seek
  PROVE  SeekDue => SeekDue'
BY DEF SeekDue, Done

(***************************************************************************)
(* An answer fills the list of a pane with chunks of the source it asked   *)
(* for, which is the pane's own if the pane is still there.                *)
(***************************************************************************)
LEMMA FillKeeps ==
  ASSUME PlayInv, NEW f \in Refresh, ~Done(f), NEW chunks \in SUBSET Chunk,
         \A c \in chunks : Row[c].source = refresh[f].source, Fill(f, chunks)
  PROVE  PlayInv'
<1> DEFINE p == refresh[f].pane
           panes == IF refresh[f].alive THEN [pane EXCEPT ![p].chunks = chunks] ELSE pane
<1>1. refresh[f] \in Request /\ p \in Pane /\ refresh[f].seek \in BOOLEAN
  BY DEF PlayInv, Shape, Request, Done
<1>2. panes \in [Pane -> PaneState]
  BY <1>1 DEF PlayInv, Shape, PaneState
<1>3. \A q \in Pane : panes[q].active = pane[q].active /\ panes[q].source = pane[q].source
  BY <1>1 DEF PlayInv, Shape, PaneState
<1>4. OwnLists(panes)
  <2>1. CASE refresh[f].alive
    <3>1. refresh[f].source = pane[p].source
      BY <1>1, <2>1 DEF PlayInv, OwnAnswers, Done
    <3>2. \A q \in Pane : panes[q].chunks = IF q = p THEN chunks ELSE pane[q].chunks
      BY <1>1, <2>1 DEF PlayInv, Shape, PaneState
    <3> HIDE DEF panes
    <3> QED BY <1>3, <3>1, <3>2 DEF PlayInv, OwnLists
  <2>2. CASE ~refresh[f].alive
    BY <2>2 DEF PlayInv, OwnLists
  <2> QED BY <2>1, <2>2
<1>5. /\ refresh' = Ask(f, panes, center, p + 1, refresh[f].seek)
      /\ newest' = newest /\ center' = center
      /\ \/ SeekAll(panes, master)
         \/ /\ pane' = panes /\ video' = video /\ master' = master /\ missed' = missed
            /\ refresh[f].seek => refresh'[f] # NoRequest
  BY DEF Fill
<1> HIDE DEF panes
<1>6. /\ refresh' \in [Refresh -> Request]
      /\ \A g \in Refresh : g # f => refresh'[g] = refresh[g]
      /\ refresh'[f].pane # None => refresh'[f].source = panes[refresh'[f].pane].source
  BY <1>1, <1>2, <1>5, AskType DEF PlayInv, Shape
<1>6a. refresh'[f] = NoRequest \/ (refresh'[f].pane # None /\ refresh'[f].seek = refresh[f].seek)
  <2>1. refresh \in [Refresh -> Request]
    BY DEF PlayInv, Shape
  <2> QED BY <1>5, <2>1, AskSeeks
<1>7. /\ pane' \in [Pane -> PaneState] /\ video' \in [Pane -> VideoState] /\ master' \in Int
      /\ \A q \in Pane : pane'[q].source = panes[q].source /\ pane'[q].chunks = panes[q].chunks
      /\ PlaysOwn' /\ Blank'
  <2>1. CASE SeekAll(panes, master)
    <3>1. Shape /\ PlaysOwn /\ Blank /\ master \in Int
      BY DEF PlayInv, Shape
    <3> QED BY <1>2, <1>3, <1>4, <2>1, <3>1, SeekKeeps
  <2>2. CASE /\ pane' = panes /\ video' = video /\ master' = master /\ missed' = missed
             /\ refresh[f].seek => refresh'[f] # NoRequest
    <3>1. SeekDue => SeekDue'
      BY <1>6, <1>6a, <2>2, DueKept DEF Done
    <3>2. PlaysOwn'
      BY <1>3, <2>2, <3>1 DEF PlayInv, PlaysOwn
    <3>3. Blank'
      BY <1>3, <2>2 DEF PlayInv, Blank, Shown
    <3> QED BY <1>2, <2>2, <3>2, <3>3 DEF PlayInv, Shape
  <2> QED BY <1>5, <2>1, <2>2
<1>8. Shape'
  BY <1>5, <1>6, <1>7 DEF PlayInv, Shape
<1>9. OwnLists(pane)'
  BY <1>4, <1>7 DEF OwnLists
<1>10. OwnAnswers(pane, refresh)'
  <2> SUFFICES ASSUME NEW g \in Refresh, refresh'[g].alive, refresh'[g].pane # None
               PROVE  refresh'[g].source = pane'[refresh'[g].pane].source
    BY DEF OwnAnswers
  <2>1. refresh'[g].pane \in Pane
    BY <1>6 DEF Request
  <2>2. CASE g = f
    BY <1>6, <1>7, <2>1, <2>2
  <2>3. CASE g # f
    BY <1>3, <1>6, <1>7, <2>1, <2>3 DEF PlayInv, OwnAnswers
  <2> QED BY <2>2, <2>3
<1> QED BY <1>7, <1>8, <1>9, <1>10 DEF PlayInv

(***************************************************************************)
(* An answer, a refusal, and the end of a refresh.                         *)
(***************************************************************************)
LEMMA AnswerKeeps == ASSUME PlayInv, NEW f \in Refresh, Answered(f) PROVE PlayInv'
<1>1. Answer(f) \in SUBSET Chunk /\ \A c \in Answer(f) : Row[c].source = refresh[f].source
  BY DEF Answer, Timeline
<1>2. ~Done(f) /\ Fill(f, Answer(f))
  BY DEF Answered
<1> HIDE DEF Answer, Fill, Done
<1> QED BY <1>1, <1>2, FillKeeps

LEMMA ErrorKeeps == ASSUME PlayInv, NEW f \in Refresh, ServerError(f) PROVE PlayInv'
<1>1. ~Done(f) /\ Fill(f, {})
  BY DEF ServerError
<1> QED BY <1>1, FillKeeps

LEMMA AbortKeeps == ASSUME PlayInv, NEW f \in Refresh, Abort(f) PROVE PlayInv'
<1>1. NoRequest \in Request /\ NoRequest.pane = None
  BY DEF NoRequest, Request
<1>2. refresh' \in [Refresh -> Request]
      /\ \A g \in Refresh : refresh'[g] = IF g = f THEN NoRequest ELSE refresh[g]
  BY <1>1 DEF Abort, PlayInv, Shape
<1>3. UNCHANGED <<pane, video, master, center, newest>>
  BY DEF Abort
<1>4. OwnAnswers(pane, refresh)'
  BY <1>1, <1>2, <1>3 DEF PlayInv, OwnAnswers
<1>5. SeekDue => SeekDue'
  <2>1. missed' = (missed \/ refresh[f].seek)
    BY DEF Abort
  <2> QED BY <1>2, <2>1 DEF SeekDue, Done
<1>6. PlaysOwn' /\ Blank'
  BY <1>3, <1>5 DEF PlayInv, PlaysOwn, Blank, Shown
<1> QED BY <1>2, <1>3, <1>4, <1>6 DEF PlayInv, Shape, OwnLists

-----------------------------------------------------------------------------
(* The operator                                                            *)

(***************************************************************************)
(* Another source in a pane: a new pane object, with no list and nothing   *)
(* to play, for which only the new refresh asks.                           *)
(***************************************************************************)
LEMMA SourceKeeps ==
  ASSUME PlayInv, NEW p \in Pane, NEW s \in Source \cup {NoSource}, NEW f \in Refresh,
         OnPaneSourceChanged(p, s, f)
  PROVE  PlayInv'
<1> DEFINE seek  == s # NoSource
           asked == Ask(f, pane', center, Primary, seek)
<1>1. /\ pane' = [pane EXCEPT ![p] = [source |-> s, chunks |-> {}, active |-> NoChunk]]
      /\ video' = IF s = NoSource THEN [video EXCEPT ![p] = NoVideo] ELSE video
      /\ center' = center /\ newest' = f /\ master' = master
      /\ refresh' = [g \in Refresh |-> [asked[g] EXCEPT !.alive = @ /\ (g = f \/ asked[g].pane # p)]]
  <2>1. [NoPane EXCEPT !.source = s] = [source |-> s, chunks |-> {}, active |-> NoChunk]
    BY DEF NoPane
  <2>2. refresh' = [g \in Refresh |-> [asked[g] EXCEPT !.alive = @ /\ (g = f \/ asked[g].pane # p)]]
    BY Zenon DEF OnPaneSourceChanged
  <2>3. /\ pane' = NewPane(p, s) /\ center' = center /\ newest' = f /\ master' = master
        /\ video' = IF s = NoSource THEN [video EXCEPT ![p] = NoVideo] ELSE video
    BY Zenon DEF OnPaneSourceChanged
  <2> QED BY <2>1, <2>2, <2>3, Zenon DEF NewPane
<1>2. pane' \in [Pane -> PaneState]
      /\ \A q \in Pane : pane'[q] = IF q = p THEN [source |-> s, chunks |-> {}, active |-> NoChunk]
                                             ELSE pane[q]
  BY <1>1 DEF PlayInv, Shape, PaneState
<1>3. video' \in [Pane -> VideoState] /\ \A q \in Pane : q # p => video'[q] = video[q]
  BY <1>1 DEF PlayInv, Shape, VideoState, NoVideo
<1>4. /\ asked \in [Refresh -> Request]
      /\ \A g \in Refresh : g # f => asked[g] = refresh[g]
      /\ asked[f].pane # None => asked[f].source = pane'[asked[f].pane].source
  <2>1. seek \in BOOLEAN /\ center \in Int /\ refresh \in [Refresh -> Request]
    BY DEF PlayInv, Shape
  <2> HIDE DEF seek
  <2> QED BY <1>2, <2>1, AskType
<1>4a. /\ asked[f] = NoRequest \/ (asked[f].pane # None /\ asked[f].seek = seek)
       /\ From(pane', Primary) # {} => asked[f].pane # None
  <2>1. refresh \in [Refresh -> Request]
    BY DEF PlayInv, Shape
  <2> DEFINE panes == pane'
  <2> HIDE DEF seek, panes
  <2>2. LET r == Ask(f, panes, center, Primary, seek)
        IN  /\ r[f] = NoRequest \/ (r[f].pane # None /\ r[f].seek = seek)
            /\ From(panes, Primary) # {} => r[f].pane # None
    BY <2>1, AskSeeks
  <2> QED BY <2>2 DEF panes
<1> HIDE DEF asked
<1>5. \A g \in Refresh : /\ refresh'[g] \in Request
                         /\ refresh'[g].pane = asked[g].pane /\ refresh'[g].source = asked[g].source
                         /\ refresh'[g].seek = asked[g].seek
                         /\ refresh'[g].alive => asked[g].alive /\ (g = f \/ asked[g].pane # p)
  <2> SUFFICES ASSUME NEW g \in Refresh
               PROVE  /\ refresh'[g] \in Request
                      /\ refresh'[g].pane = asked[g].pane /\ refresh'[g].source = asked[g].source
                      /\ refresh'[g].seek = asked[g].seek
                      /\ refresh'[g].alive => asked[g].alive /\ (g = f \/ asked[g].pane # p)
    OBVIOUS
  <2>1. asked[g] \in Request
    BY <1>4
  <2>2. refresh'[g] = [asked[g] EXCEPT !.alive = @ /\ (g = f \/ asked[g].pane # p)]
    BY <1>1
  <2> DEFINE heard == asked[g].alive /\ (g = f \/ asked[g].pane # p)
  <2>3. heard \in BOOLEAN
    BY <2>1 DEF Request
  <2>4. refresh'[g] = [asked[g] EXCEPT !.alive = heard]
    BY <2>2
  <2>5. heard => asked[g].alive /\ (g = f \/ asked[g].pane # p)
    OBVIOUS
  <2> HIDE DEF heard
  <2>6. refresh'[g] \in Request /\ refresh'[g].alive = heard
        /\ refresh'[g].pane = asked[g].pane /\ refresh'[g].source = asked[g].source
        /\ refresh'[g].seek = asked[g].seek
    BY <2>1, <2>3, <2>4 DEF Request
  <2> QED BY <2>5, <2>6
<1>6. refresh' \in [Refresh -> Request]
  BY <1>1, <1>5
<1>7. OwnAnswers(pane, refresh)'
  <2> SUFFICES ASSUME NEW g \in Refresh, refresh'[g].alive, refresh'[g].pane # None
               PROVE  refresh'[g].source = pane'[refresh'[g].pane].source
    BY DEF OwnAnswers
  <2>1. refresh'[g].pane \in Pane
    BY <1>6 DEF Request
  <2>2. CASE g = f
    BY <1>4, <1>5, <2>2
  <2>3. CASE g # f
    <3>1. refresh[g].alive /\ refresh[g].pane # None /\ refresh[g].pane # p
      BY <1>4, <1>5, <2>3
    <3> QED BY <1>2, <1>4, <1>5, <2>1, <2>3, <3>1 DEF PlayInv, OwnAnswers
  <2> QED BY <2>2, <2>3
<1>8. OwnLists(pane)'
  BY <1>2 DEF PlayInv, OwnLists
<1>9. SeekDue => SeekDue'
  <2>1. missed' = missed /\ refresh[f].pane = None
    BY Zenon DEF OnPaneSourceChanged, Done
  <2> QED BY <1>4, <1>5, <2>1, DueKept DEF Done
<1>10. s # NoSource => SeekDue'
  <2>1. ASSUME s # NoSource PROVE From(pane', Primary) # {}
    BY <1>2, <2>1, PaneAssumption DEF From, Primary
  <2>2. ASSUME s # NoSource PROVE ~Done(f)' /\ refresh'[f].seek
    <3>1. asked[f].pane # None /\ NoRequest.pane = None
      BY <1>4a, <2>1, <2>2 DEF NoRequest
    <3>2. asked[f] # NoRequest
      BY <3>1
    <3>3. asked[f].seek
      BY <1>4a, <2>2, <3>2
    <3> QED BY <1>5, <3>1, <3>3 DEF Done
  <2> QED BY <2>2 DEF SeekDue
<1>11. ASSUME NEW q \in Pane
       PROVE  /\ pane'[q].active # NoChunk => Row[pane'[q].active].source = pane'[q].source
              /\ video'[q].file = pane'[q].active \/ (pane'[q].active = NoChunk /\ SeekDue')
              /\ pane'[q].source = NoSource => pane'[q].active = NoChunk /\ video'[q].file = NoChunk
  <2>1. CASE q = p /\ s = NoSource
    <3>1. video'[q] = NoVideo
      BY <1>1, <2>1 DEF PlayInv, Shape
    <3> QED BY <1>2, <2>1, <3>1 DEF NoVideo
  <2>2. CASE q = p /\ s # NoSource
    BY <1>2, <1>10, <2>2
  <2>3. CASE q # p
    BY <1>2, <1>3, <1>9, <2>3 DEF PlayInv, PlaysOwn, Blank, Shown
  <2> QED BY <2>1, <2>2, <2>3
<1>12. PlaysOwn' /\ Blank'
  <2>1. PlaysOwn'
    BY <1>11 DEF PlaysOwn
  <2>2. Blank'
    BY <1>11 DEF Blank, Shown
  <2> QED BY <2>1, <2>2
<1> QED BY <1>1, <1>2, <1>3, <1>6, <1>7, <1>8, <1>12 DEF PlayInv, Shape

(***************************************************************************)
(* A refresh that is begun by a handler which leaves the panes their       *)
(* sources.                                                                *)
(***************************************************************************)
LEMMA BeginKeeps ==
  ASSUME PlayInv, NEW f \in Refresh, center' \in Int, BeginRefresh(f, pane, FALSE),
         \A p \in Pane : pane'[p].source = pane[p].source
  PROVE  /\ refresh' \in [Refresh -> Request] /\ newest' \in Refresh /\ OwnAnswers(pane, refresh)'
         /\ missed' = missed => (SeekDue => SeekDue')
<1>1. refresh' = Ask(f, pane, center', Primary, FALSE) /\ newest' = f /\ Done(f)
  BY DEF BeginRefresh
<1>2. /\ refresh' \in [Refresh -> Request]
      /\ \A g \in Refresh : g # f => refresh'[g] = refresh[g]
      /\ refresh'[f].pane # None => refresh'[f].source = pane[refresh'[f].pane].source
  <2> DEFINE mid == center'  seek == FALSE
  <2>1. refresh' = Ask(f, pane, mid, Primary, seek)
    BY <1>1
  <2>2. mid \in Int /\ seek \in BOOLEAN /\ pane \in [Pane -> PaneState]
        /\ refresh \in [Refresh -> Request]
    BY DEF PlayInv, Shape
  <2> HIDE DEF mid, seek
  <2>3. refresh' \in [Refresh -> Request]
    BY <2>1, <2>2, AskType
  <2>4. \A g \in Refresh : g # f => refresh'[g] = refresh[g]
    BY <2>1, <2>2, AskType
  <2>5. refresh'[f].pane # None => refresh'[f].source = pane[refresh'[f].pane].source
    BY <2>1, <2>2, AskType
  <2> QED BY <2>3, <2>4, <2>5
<1>3. OwnAnswers(pane, refresh)'
  <2> SUFFICES ASSUME NEW g \in Refresh, refresh'[g].alive, refresh'[g].pane # None
               PROVE  refresh'[g].source = pane'[refresh'[g].pane].source
    BY DEF OwnAnswers
  <2>1. refresh'[g].pane \in Pane
    BY <1>2 DEF Request
  <2>2. CASE g = f
    BY <1>2, <2>1, <2>2
  <2>3. CASE g # f
    BY <1>2, <2>1, <2>3 DEF PlayInv, OwnAnswers
  <2> QED BY <2>2, <2>3
<1>4. missed' = missed => (SeekDue => SeekDue')
  BY <1>1, <1>2, DueKept
<1> QED BY <1>1, <1>2, <1>3, <1>4

(***************************************************************************)
(* "Go to", a click, a change of the window's size, and playing.           *)
(***************************************************************************)
LEMMA GoToKeeps ==
  ASSUME PlayInv, NEW t \in Instant, NEW f \in Refresh, GoTo(t, f) PROVE PlayInv'
<1>1. t \in Int /\ center' = t /\ BeginRefresh(f, pane, FALSE) /\ SeekAll(pane, t)
  <2>1. t \in Int
    BY TimeAssumption
  <2> QED BY <2>1, Zenon DEF GoTo
<1>2. /\ pane' \in [Pane -> PaneState] /\ video' \in [Pane -> VideoState] /\ master' \in Int
      /\ \A p \in Pane : pane'[p].source = pane[p].source
      /\ OwnLists(pane') /\ PlaysOwn' /\ Blank'
  BY <1>1, SeekStep
<1>3. refresh' \in [Refresh -> Request] /\ newest' \in Refresh /\ OwnAnswers(pane, refresh)'
  BY <1>1, <1>2, BeginKeeps
<1> QED BY <1>1, <1>2, <1>3 DEF PlayInv, Shape

(***************************************************************************)
(* A seek while the window and its requests stay as they are.              *)
(***************************************************************************)
LEMMA SeekInv ==
  ASSUME PlayInv, NEW t \in Int, SeekAll(pane, t), UNCHANGED timelines PROVE PlayInv'
<1>1. /\ pane' \in [Pane -> PaneState] /\ video' \in [Pane -> VideoState] /\ master' \in Int
      /\ \A p \in Pane : pane'[p].source = pane[p].source
      /\ OwnLists(pane') /\ PlaysOwn' /\ Blank'
  BY SeekStep
<1>2. OwnAnswers(pane', refresh)
  BY <1>1, AnswersKept DEF PlayInv
<1> QED BY <1>1, <1>2 DEF PlayInv, Shape

(***************************************************************************)
(* A step of the videos that loads no other file.                          *)
(***************************************************************************)
LEMMA VideoInv ==
  ASSUME PlayInv, UNCHANGED <<pane, timelines, missed>>, master' \in Int,
         video' \in [Pane -> VideoState],
         \A p \in Pane : video'[p].file = video[p].file
  PROVE  PlayInv'
<1>1. Shape' /\ OwnLists(pane)' /\ OwnAnswers(pane, refresh)'
  BY DEF PlayInv, Shape, OwnLists, OwnAnswers
<1>2. SeekDue' <=> SeekDue
  BY DEF SeekDue, Done
<1>3. PlaysOwn' /\ Blank'
  BY <1>2 DEF PlayInv, PlaysOwn, Blank, Shown
<1> QED BY <1>1, <1>3 DEF PlayInv

LEMMA RecenterKeeps == ASSUME PlayInv, NEW f \in Refresh, Recenter(f) PROVE PlayInv'
<1>1. center' = master /\ BeginRefresh(f, pane, FALSE) /\ UNCHANGED <<pane, video, master, missed>>
  BY DEF Recenter
<1>2. /\ refresh' \in [Refresh -> Request] /\ newest' \in Refresh /\ OwnAnswers(pane, refresh)'
      /\ SeekDue => SeekDue'
  BY <1>1, BeginKeeps DEF PlayInv, Shape
<1>3. PlaysOwn' /\ Blank'
  BY <1>1, <1>2 DEF PlayInv, PlaysOwn, Blank, Shown
<1> QED BY <1>1, <1>2, <1>3 DEF PlayInv, Shape, OwnLists

LEMMA PlayKeeps == ASSUME PlayInv, NEW b \in BOOLEAN, Play(b) PROVE PlayInv'
<1> DEFINE over(p) == ~b /\ video[p].ready /\ video[p].pos = Row[video[p].file].length
<1>1. video' = [p \in Pane |-> IF over(p) THEN [video[p] EXCEPT !.pos = 0] ELSE video[p]]
      /\ UNCHANGED <<pane, timelines, master, missed>>
  BY Zenon DEF Play
<1> HIDE DEF over
<1>2. ASSUME NEW p \in Pane
      PROVE  video'[p] \in VideoState /\ video'[p].file = video[p].file
  <2>1. video[p] \in VideoState
    BY DEF PlayInv, Shape
  <2>2. [video[p] EXCEPT !.pos = 0] \in VideoState
        /\ [video[p] EXCEPT !.pos = 0].file = video[p].file
    BY <2>1 DEF VideoState
  <2>3. video'[p] = IF over(p) THEN [video[p] EXCEPT !.pos = 0] ELSE video[p]
    BY <1>1
  <2> QED BY <2>1, <2>2, <2>3
<1>3. video' \in [Pane -> VideoState]
  BY <1>1, <1>2
<1> QED BY <1>1, <1>2, <1>3, VideoInv DEF PlayInv, Shape

-----------------------------------------------------------------------------
(* Videos and timers                                                       *)

(***************************************************************************)
(* Loading, rolling, the correction of a pane's drift and the clock that   *)
(* follows the primary one move positions only.                            *)
(***************************************************************************)
LEMMA TrackedType == ASSUME PlayInv, NEW p \in Pane, Tracked(p)
                     PROVE  pane[p].active \in Chunk /\ Row[pane[p].active].start \in Nat
BY RowType DEF PlayInv, Shape, PaneState, Tracked

LEMMA LoadedKeeps == ASSUME PlayInv, NEW p \in Pane, LoadedMetadata(p) PROVE PlayInv'
<1> DEFINE x == Clamp(video[p].file, video[p].seek)
<1>1. video[p].file \in Chunk /\ x \in Nat
  BY ClampType DEF PlayInv, Shape, VideoState, LoadedMetadata
<1>2. video' = [video EXCEPT ![p].ready = TRUE, ![p].pos = x]
      /\ UNCHANGED <<pane, timelines, master, missed>>
  BY DEF LoadedMetadata
<1> HIDE DEF x
<1>3. video' \in [Pane -> VideoState] /\ \A q \in Pane : video'[q].file = video[q].file
  BY <1>1, <1>2 DEF PlayInv, Shape, VideoState
<1> QED BY <1>2, <1>3, VideoInv DEF PlayInv, Shape

LEMMA RollKeeps == ASSUME PlayInv, NEW p \in Pane, Roll(p) PROVE PlayInv'
<1>1. video' = [video EXCEPT ![p].pos = @ + 1] /\ UNCHANGED <<pane, timelines, master, missed>>
  BY DEF Roll
<1>2. video' \in [Pane -> VideoState] /\ \A q \in Pane : video'[q].file = video[q].file
  BY <1>1 DEF PlayInv, Shape, VideoState
<1> QED BY <1>1, <1>2, VideoInv DEF PlayInv, Shape

LEMMA DriftKeeps == ASSUME PlayInv, NEW p \in Pane, DriftCorrect(p) PROVE PlayInv'
<1> DEFINE x == Clamp(pane[p].active, master - Row[pane[p].active].start)
<1>1. x \in Nat
  BY TrackedType, ClampType DEF PlayInv, Shape, DriftCorrect
<1>2. video' = [video EXCEPT ![p].pos = x] /\ UNCHANGED <<pane, timelines, master, missed>>
  BY DEF DriftCorrect
<1> HIDE DEF x
<1>3. video' \in [Pane -> VideoState] /\ \A q \in Pane : video'[q].file = video[q].file
  BY <1>1, <1>2 DEF PlayInv, Shape, VideoState
<1> QED BY <1>2, <1>3, VideoInv DEF PlayInv, Shape

LEMMA TimeKeeps == ASSUME PlayInv, TimeUpdate PROVE PlayInv'
<1>1. Tracked(Primary) /\ UNCHANGED <<pane, video, timelines, missed>>
      /\ master' = Row[pane[Primary].active].start + video[Primary].pos
  BY DEF TimeUpdate
<1>2. master' \in Int
  BY <1>1, TrackedType, PaneAssumption DEF PlayInv, Shape, VideoState
<1> QED BY <1>1, <1>2, VideoInv DEF PlayInv, Shape

(***************************************************************************)
(* The end of the primary's chunk, and a step backwards.                   *)
(***************************************************************************)
LEMMA EndedKeeps == ASSUME PlayInv, OnPrimaryEnded PROVE PlayInv'
<1> DEFINE c == pane[Primary].active
<1>1. UNCHANGED timelines
      /\ \/ Tracked(Primary) /\ SeekAll(pane, EffectiveEnd(c) + 1)
         \/ UNCHANGED <<pane, video, master, missed>>
  BY DEF OnPrimaryEnded
<1>2. CASE Tracked(Primary) /\ SeekAll(pane, EffectiveEnd(c) + 1)
  <2>1. EffectiveEnd(c) + 1 \in Int
    BY <1>2, TrackedType, RowType, PaneAssumption
  <2> HIDE DEF c
  <2> QED BY <1>1, <1>2, <2>1, SeekInv
<1>3. CASE UNCHANGED <<pane, video, master, missed>>
  BY <1>1, <1>3, VideoInv DEF PlayInv, Shape
<1> QED BY <1>1, <1>2, <1>3

LEMMA TickKeeps == ASSUME PlayInv, ReverseTick PROVE PlayInv'
<1> DEFINE t == master - 1
           c == ChunkContaining(pane[Primary].chunks, t)
<1>1. t \in Int /\ UNCHANGED timelines
  BY DEF ReverseTick, PlayInv, Shape
<1>2. \/ UNCHANGED <<pane, video, master, missed>>
      \/ c # NoChunk /\ StepInside(c, t)
      \/ SeekAll(pane, t)
  BY DEF ReverseTick
<1>3. CASE UNCHANGED <<pane, video, master, missed>>
  BY <1>1, <1>3, VideoInv DEF PlayInv, Shape
<1>4. CASE SeekAll(pane, t)
  <2> HIDE DEF t
  <2> QED BY <1>1, <1>4, SeekInv
<1>5. CASE c # NoChunk /\ StepInside(c, t)
  <2>1. pane[Primary].chunks \in SUBSET Chunk
    BY PaneAssumption DEF PlayInv, Shape, PaneState
  <2>2. c \in Chunk /\ Row[c].start <= t
    <3> DEFINE chunks == pane[Primary].chunks
    <3> HIDE DEF t, chunks
    <3> QED BY <1>1, <1>5, <2>1, FoundType DEF chunks
  <2>3. /\ master' = t /\ pane' = pane /\ missed' = missed
        /\ video' = [p \in Pane |-> IF pane[p].active = c THEN Moved(video[p], c, c, t) ELSE video[p]]
    BY <1>5 DEF StepInside
  <2> HIDE DEF t, c
  <2>4. ASSUME NEW p \in Pane
        PROVE  video'[p] \in VideoState /\ video'[p].file = video[p].file
    <3> DEFINE v == video[p]
    <3>1. v \in VideoState
      BY DEF PlayInv, Shape
    <3>2. Begun(c, t) /\ c \in Chunk \cup {NoChunk}
      BY <2>2 DEF Begun
    <3>3. Shows(Moved(v, c, c, t), v, c, c)
      <4> HIDE DEF v
      <4> QED BY <1>1, <3>1, <3>2, MovedType, Zenon
    <3>4. Moved(v, c, c, t) \in VideoState /\ Moved(v, c, c, t).file = v.file
      BY <1>5, <3>3 DEF Shows
    <3> QED BY <2>3, <3>1, <3>4
  <2>5. video' \in [Pane -> VideoState]
    BY <2>3, <2>4
  <2> QED BY <1>1, <2>3, <2>4, <2>5, VideoInv
<1> QED BY <1>2, <1>3, <1>4, <1>5

-----------------------------------------------------------------------------
(* The theorems                                                            *)

(***************************************************************************)
(* The page opens with its sources and a request for the first one's list. *)
(***************************************************************************)
LEMMA InitInv == ASSUME Init PROVE PlayInv
<1>1. PICK s \in [Pane -> Source \cup {NoSource}] :
        /\ pane = [p \in Pane |-> [NoPane EXCEPT !.source = s[p]]]
        /\ refresh = [f \in Refresh |-> IF f = Boot
              THEN [pane |-> Primary, source |-> s[Primary], center |-> Opened,
                    alive |-> TRUE, seek |-> FALSE]
              ELSE NoRequest]
  BY DEF Init
<1>2. video = [p \in Pane |-> NoVideo] /\ master = Opened /\ center = Opened /\ newest = Boot
  BY DEF Init
<1>3. \A p \in Pane : /\ pane[p] \in PaneState
                      /\ pane[p].chunks = {} /\ pane[p].active = NoChunk
                      /\ pane[p].source = s[p]
  BY <1>1 DEF NoPane, PaneState
<1>4. \A g \in Refresh : refresh[g] \in Request
  BY <1>1, TimeAssumption, PaneAssumption DEF NoRequest, Request
<1>5. \A g \in Refresh : refresh[g].alive => refresh[g].pane = Primary /\ refresh[g].source = s[Primary]
  BY <1>1 DEF NoRequest
<1>6. video \in [Pane -> VideoState]
  BY <1>2 DEF NoVideo, VideoState
<1>7. Shape
  <2>1. pane \in [Pane -> PaneState]
    BY <1>1, <1>3
  <2>2. refresh \in [Refresh -> Request]
    BY <1>1, <1>4
  <2>3. master \in Time /\ center \in Time
    BY <1>2, TimeAssumption
  <2>4. newest \in Refresh
    BY <1>2, LimitAssumption DEF Boot
  <2> QED BY <1>6, <2>1, <2>2, <2>3, <2>4 DEF Shape
<1>8. OwnLists(pane) /\ OwnAnswers(pane, refresh)
  BY <1>3, <1>5, PaneAssumption DEF OwnLists, OwnAnswers
<1>9. PlaysOwn /\ Blank
  BY <1>2, <1>3 DEF PlaysOwn, Blank, NoVideo
<1> QED BY <1>7, <1>8, <1>9 DEF PlayInv

(***************************************************************************)
(* Every step preserves the invariant.                                     *)
(***************************************************************************)
LEMMA StepInv == ASSUME PlayInv, [Next]_vars PROVE PlayInv'
<1>1. CASE UNCHANGED vars
  BY <1>1, VideoInv DEF PlayInv, Shape
<1>2. ASSUME NEW f \in Refresh, Answered(f) PROVE PlayInv'
  BY <1>2, AnswerKeeps
<1>3. ASSUME NEW f \in Refresh, ServerError(f) PROVE PlayInv'
  BY <1>3, ErrorKeeps
<1>4. ASSUME NEW f \in Refresh, Thrown(f) \/ Unreachable(f) PROVE PlayInv'
  <2>1. Abort(f)
    BY <1>4 DEF Thrown, Unreachable
  <2> QED BY <2>1, AbortKeeps
<1>5. ASSUME NEW f \in Refresh, NEW p \in Pane, NEW s \in Source \cup {NoSource},
             OnPaneSourceChanged(p, s, f)
      PROVE  PlayInv'
  BY <1>5, SourceKeeps
<1>6. ASSUME NEW f \in Refresh, Recenter(f) PROVE PlayInv'
  BY <1>6, RecenterKeeps
<1>7. ASSUME NEW f \in Refresh, NEW t \in Instant, GoTo(t, f) PROVE PlayInv'
  BY <1>7, GoToKeeps
<1>8. ASSUME NEW t \in Instant, Click(t) PROVE PlayInv'
  <2>1. t \in Int /\ SeekAll(pane, t) /\ UNCHANGED timelines
    BY <1>8, TimeAssumption DEF Click
  <2> QED BY <2>1, SeekInv
<1>9. ASSUME NEW b \in BOOLEAN, Play(b) PROVE PlayInv'
  BY <1>9, PlayKeeps
<1>10. CASE Pause
  BY <1>10, VideoInv DEF Pause, PlayInv, Shape
<1>11. ASSUME NEW p \in Pane, LoadedMetadata(p) PROVE PlayInv'
  BY <1>11, LoadedKeeps
<1>12. ASSUME NEW p \in Pane, Roll(p) PROVE PlayInv'
  BY <1>12, RollKeeps
<1>13. ASSUME NEW p \in Pane, DriftCorrect(p) PROVE PlayInv'
  BY <1>13, DriftKeeps
<1>14. CASE TimeUpdate
  BY <1>14, TimeKeeps
<1>15. CASE OnPrimaryEnded
  BY <1>15, EndedKeeps
<1>16. CASE ReverseTick
  BY <1>16, TickKeeps
<1> HIDE DEF vars
<1> QED BY <1>1, <1>2, <1>3, <1>4, <1>5, <1>6, <1>7, <1>8, <1>9, <1>10, <1>11, <1>12, <1>13,
           <1>14, <1>15, <1>16 DEF Next

(***************************************************************************)
(* The switches, the history variables and the counter keep their types.   *)
(***************************************************************************)
LEMMA SwitchInit == ASSUME Init PROVE Switches
<1>1. playing = FALSE /\ reverse = FALSE /\ clean = TRUE /\ trusted = FALSE /\ missed = FALSE
      /\ events = 0
  BY Zenon DEF Init
<1>2. playing \in BOOLEAN /\ reverse \in BOOLEAN /\ clean \in BOOLEAN /\ trusted \in BOOLEAN
      /\ missed \in BOOLEAN
  BY <1>1, Zenon
<1>3. events \in 0..MaxEvents
  BY <1>1, LimitAssumption
<1> QED BY <1>2, <1>3 DEF Switches

LEMMA SwitchStep == ASSUME Switches, [Next]_vars PROVE Switches'
<1>1. playing' \in BOOLEAN
  BY ZenonT(60) DEF Switches, Next, Answered, ServerError, Fill, SeekAll, Thrown, Unreachable, Abort,
         OnPaneSourceChanged, Recenter, GoTo, Click, Play, Pause, LoadedMetadata, TimeUpdate,
         Roll, DriftCorrect, OnPrimaryEnded, ReverseTick, StepInside
<1>2. reverse' \in BOOLEAN
  BY ZenonT(60) DEF Switches, Next, Answered, ServerError, Fill, SeekAll, Thrown, Unreachable, Abort,
         OnPaneSourceChanged, Recenter, GoTo, Click, Play, Pause, LoadedMetadata, TimeUpdate,
         Roll, DriftCorrect, OnPrimaryEnded, ReverseTick, StepInside
<1>3. clean' \in BOOLEAN
  BY DEF Switches, Next, Answered, ServerError, Thrown, Unreachable,
         OnPaneSourceChanged, Recenter, GoTo, BeginRefresh, Click, Play, Pause, LoadedMetadata,
         TimeUpdate, Roll, DriftCorrect, OnPrimaryEnded, ReverseTick
<1>4. trusted' \in BOOLEAN
  <2>1. \A panes, t : SeekAll(panes, t) => trusted' \in BOOLEAN
    BY DEF SeekAll
  <2>2. ASSUME NEW f \in Refresh, NEW chunks, Fill(f, chunks) PROVE trusted' \in BOOLEAN
    BY <2>1, <2>2 DEF Fill, Switches
  <2>3. ASSUME NEW f \in Refresh, Answered(f) \/ ServerError(f) PROVE trusted' \in BOOLEAN
    BY <2>2, <2>3 DEF Answered, ServerError
  <2>4. ASSUME NEW p \in Pane, NEW s \in Source \cup {NoSource}, NEW f \in Refresh,
               OnPaneSourceChanged(p, s, f)
        PROVE  trusted' \in BOOLEAN
    BY <2>4 DEF OnPaneSourceChanged
  <2> QED BY <2>1, <2>3, <2>4 DEF Switches, Next, Thrown, Unreachable, Abort, Recenter, GoTo,
             Click, Play, Pause, LoadedMetadata, TimeUpdate, Roll, DriftCorrect,
             OnPrimaryEnded, ReverseTick, StepInside
<1>5. events' \in 0..MaxEvents
  <2>1. events' = events \/ Event
    BY DEF Next, Answered, ServerError, Thrown, Unreachable, OnPaneSourceChanged,
           Recenter, GoTo, Click, Play, Pause, LoadedMetadata, TimeUpdate,
           Roll, DriftCorrect, OnPrimaryEnded, ReverseTick
  <2>2. Event => events < MaxEvents /\ events' = events + 1
    BY DEF Event
  <2>3. events \in 0..MaxEvents
    BY DEF Switches
  <2> QED BY <2>1, <2>2, <2>3, LimitAssumption
<1>6. missed' \in BOOLEAN
  <2>1. \A panes, t : SeekAll(panes, t) => missed' \in BOOLEAN
    BY Zenon DEF SeekAll
  <2>2. ASSUME NEW f \in Refresh, NEW chunks, Fill(f, chunks) PROVE missed' \in BOOLEAN
    BY <2>1, <2>2, Zenon DEF Fill, Switches
  <2>3. ASSUME NEW f \in Refresh, Answered(f) \/ ServerError(f) PROVE missed' \in BOOLEAN
    BY <2>2, <2>3, Zenon DEF Answered, ServerError
  <2>4. ASSUME NEW f \in Refresh, Thrown(f) \/ Unreachable(f) PROVE missed' \in BOOLEAN
    BY <2>4, Zenon DEF Thrown, Unreachable, Abort
  <2>5. ASSUME NEW p \in Pane, NEW s \in Source \cup {NoSource}, NEW f \in Refresh,
               OnPaneSourceChanged(p, s, f)
        PROVE  missed' \in BOOLEAN
    BY <2>5, Zenon DEF OnPaneSourceChanged, Switches
  <2> QED BY <2>1, <2>3, <2>4, <2>5 DEF Switches, Next, Recenter, GoTo, Click, Play, Pause,
             LoadedMetadata, TimeUpdate, Roll, DriftCorrect, OnPrimaryEnded, ReverseTick, StepInside
<1> QED BY <1>1, <1>2, <1>3, <1>4, <1>5, <1>6, SMTT(30) DEF Switches

(***************************************************************************)
(* The type invariant.                                                     *)
(***************************************************************************)
THEOREM TypeCorrect == Spec => []TypeOK
<1>1. Init => PlayInv /\ Switches
  BY InitInv, SwitchInit
<1>2. PlayInv /\ Switches /\ [Next]_vars => (PlayInv /\ Switches)'
  BY StepInv, SwitchStep
<1>3. PlayInv /\ Switches => TypeOK
  BY DEF PlayInv, Shape, Switches, TypeOK, PaneState, VideoState, Request
<1> QED BY <1>1, <1>2, <1>3, PTL DEF Spec

(***************************************************************************)
(* A pane plays the chunk it counts as playing, one of its own source:     *)
(* however many refreshes overlap and whatever they are answered, a list   *)
(* holds chunks of the pane's source, since an answer fills only the pane  *)
(* object it was asked for, and the element shows a chunk of the list.     *)
(* Another file stays only while the seek after a change of source is due, *)
(* or was lost with its refresh: every seek blanks or reloads every pane.  *)
(***************************************************************************)
THEOREM OwnFootage == Spec => []PlaysOwn
<1>1. Init => PlayInv
  BY InitInv
<1>2. PlayInv /\ [Next]_vars => PlayInv'
  BY StepInv
<1>3. PlayInv => PlaysOwn
  BY DEF PlayInv
<1> QED BY <1>1, <1>2, <1>3, PTL DEF Spec

-----------------------------------------------------------------------------
(* Lists                                                                   *)

\* The chunks of a source in the window that is shown.
Window(s) == Timeline(s, center - Span, center + Span)

\* The newest refresh has got past pane p.
Past(p) == Done(newest) \/ p < refresh[newest].pane

\* The newest refresh is never dropped, and asks for the window shown.
Heard == ~Done(newest) => refresh[newest].alive /\ refresh[newest].center = center

\* It has filled the panes it got past, and no other has filled one since.
Filled == clean => \A p \in Pane : Shown(p) /\ Past(p) => pane[p].chunks = Window(pane[p].source)

ListInv == Heard /\ Filled

(***************************************************************************)
(* A refresh goes to the next pane that is shown, or ends after the last.  *)
(***************************************************************************)
LEMMA AskNext ==
  ASSUME NEW f \in Refresh, NEW panes \in [Pane -> PaneState], NEW mid \in Int,
         NEW n, NEW b \in BOOLEAN, refresh \in [Refresh -> Request]
  PROVE  LET r == Ask(f, panes, mid, n, b)
         IN  /\ r[f].pane = None => From(panes, n) = {}
             /\ r[f].pane # None => /\ r[f].alive /\ r[f].center = mid
                                    /\ \A q \in From(panes, n) : r[f].pane <= q
<1> DEFINE later == From(panes, n)
           next  == CHOOSE q \in later : \A r \in later : q <= r
           asked == [pane |-> next, source |-> panes[next].source, center |-> mid,
                     alive |-> TRUE, seek |-> b]
<1>1. later \in SUBSET Nat
  BY PaneAssumption DEF From
<1>2. CASE later = {}
  <2>1. Ask(f, panes, mid, n, b) = [refresh EXCEPT ![f] = NoRequest]
    BY <1>2 DEF Ask
  <2>2. NoRequest.pane = None
    BY DEF NoRequest
  <2>3. Ask(f, panes, mid, n, b)[f] = NoRequest
    BY <2>1
  <2> QED BY <1>2, <2>2, <2>3
<1>3. CASE later # {}
  <2>1. next \in later /\ \A r \in later : next <= r
    <3>1. \E q \in later : \A r \in later : q <= r
      BY <1>1, <1>3, Least
    <3> HIDE DEF later
    <3> QED BY <3>1
  <2>2. Ask(f, panes, mid, n, b) = [refresh EXCEPT ![f] = asked]
    BY <1>3 DEF Ask
  <2>3. asked.pane = next /\ asked.alive /\ asked.center = mid
    OBVIOUS
  <2>4. Ask(f, panes, mid, n, b)[f] = asked
    <3> HIDE DEF asked, later
    <3> QED BY <2>2
  <2>5. next # None
    BY <1>1, <2>1 DEF None
  <2> HIDE DEF next, asked, later
  <2> QED BY <2>1, <2>3, <2>4, <2>5 DEF later
<1> QED BY <1>2, <1>3

(***************************************************************************)
(* A seek leaves lists alone.                                              *)
(***************************************************************************)
LEMMA SeekLists ==
  ASSUME NEW panes \in [Pane -> PaneState], NEW t, SeekAll(panes, t)
  PROVE  \A p \in Pane : pane'[p].source = panes[p].source /\ pane'[p].chunks = panes[p].chunks
<1> DEFINE target == [p \in Pane |-> Target(panes[p].chunks, t)]
<1>1. pane' = [p \in Pane |-> IF panes[p].source # NoSource
                              THEN [panes[p] EXCEPT !.active = target[p]] ELSE panes[p]]
  BY DEF SeekAll
<1> HIDE DEF target
<1> QED BY <1>1 DEF PaneState

(***************************************************************************)
(* A handler that leaves requests, sources and lists alone.                *)
(***************************************************************************)
LEMMA ListsKept ==
  ASSUME ListInv, UNCHANGED timelines,
         \A p \in Pane : pane'[p].source = pane[p].source /\ pane'[p].chunks = pane[p].chunks
  PROVE  ListInv'
BY DEF ListInv, Heard, Filled, Past, Done, Shown, Window

LEMMA SeekListsKept ==
  ASSUME PlayInv, ListInv, UNCHANGED timelines, NEW t, SeekAll(pane, t)
  PROVE  ListInv'
<1>1. pane \in [Pane -> PaneState]
  BY DEF PlayInv, Shape
<1>2. \A p \in Pane : pane'[p].source = pane[p].source /\ pane'[p].chunks = pane[p].chunks
  BY <1>1, SeekLists
<1> QED BY <1>2, ListsKept

(***************************************************************************)
(* The list of one pane is filled.  If that leaves the refreshes clean, it *)
(* is the newest that fills its next pane, or an older one a pane that the *)
(* newest has still to ask for.                                            *)
(***************************************************************************)
LEMMA FillLists ==
  ASSUME PlayInv, ListInv, NEW f \in Refresh, ~Done(f), NEW chunks \in SUBSET Chunk,
         Fill(f, chunks),
         clean' => clean /\ refresh[f].alive /\ chunks = Answer(f) /\ ~Overtaken(f)
  PROVE  ListInv'
<1> DEFINE p == refresh[f].pane
           panes == IF refresh[f].alive THEN [pane EXCEPT ![p].chunks = chunks] ELSE pane
<1>1. /\ refresh[f] \in Request /\ p \in Pane /\ refresh[f].seek \in BOOLEAN /\ center \in Int
      /\ refresh \in [Refresh -> Request] /\ newest \in Refresh /\ Pane \subseteq Nat
  BY PaneAssumption DEF PlayInv, Shape, Request, Done
<1>2. panes \in [Pane -> PaneState]
  BY <1>1 DEF PlayInv, Shape, PaneState
<1>3. \A q \in Pane : /\ panes[q].source = pane[q].source
                      /\ panes[q].chunks = IF refresh[f].alive /\ q = p THEN chunks
                                           ELSE pane[q].chunks
  BY <1>1 DEF PlayInv, Shape, PaneState
<1>4. /\ refresh' = Ask(f, panes, center, p + 1, refresh[f].seek)
      /\ newest' = newest /\ center' = center
      /\ \/ SeekAll(panes, master)
         \/ pane' = panes
  BY DEF Fill
<1> HIDE DEF panes
<1>5. \A q \in Pane : pane'[q].source = panes[q].source /\ pane'[q].chunks = panes[q].chunks
  BY <1>2, <1>4, SeekLists
<1>6. /\ refresh' \in [Refresh -> Request]
      /\ \A g \in Refresh : g # f => refresh'[g] = refresh[g]
  BY <1>1, <1>2, <1>4, AskType
<1>7. /\ refresh'[f].pane = None => From(panes, p + 1) = {}
      /\ refresh'[f].pane # None => /\ refresh'[f].alive /\ refresh'[f].center = center
                                    /\ \A q \in From(panes, p + 1) : refresh'[f].pane <= q
  BY <1>1, <1>2, <1>4, AskNext
<1>8. Heard'
  BY <1>1, <1>4, <1>6, <1>7 DEF ListInv, Heard, Done
<1>9. Filled'
  <2> SUFFICES ASSUME clean', NEW q \in Pane, Shown(q)', Past(q)'
               PROVE  pane'[q].chunks = Timeline(pane'[q].source, center' - Span, center' + Span)
    BY DEF Filled, Window
  <2>1. clean /\ refresh[f].alive /\ chunks = Answer(f) /\ ~Overtaken(f)
    OBVIOUS
  <2>2. Shown(q) /\ pane'[q].source = pane[q].source
        /\ pane'[q].chunks = IF q = p THEN chunks ELSE pane[q].chunks
    BY <1>3, <1>5, <2>1 DEF Shown
  <2>3. Timeline(pane'[q].source, center' - Span, center' + Span) = Window(pane[q].source)
    BY <1>4, <2>2 DEF Window
  <2>4. CASE f = newest
    <3>1. CASE q = p
      <4>1. refresh[f].center = center
        BY <2>4 DEF ListInv, Heard
      <4>2. refresh[f].source = pane[p].source
        BY <1>1, <2>1 DEF PlayInv, OwnAnswers, Done
      <4> QED BY <2>1, <2>2, <2>3, <3>1, <4>1, <4>2 DEF Answer, Window
    <3>2. CASE q # p
      <4>1. q \notin From(panes, p + 1)
        <5>1. CASE refresh'[f].pane = None
          BY <1>7, <5>1
        <5>2. CASE refresh'[f].pane # None
          <6>1. q < refresh'[f].pane /\ refresh'[f].pane \in Nat
            <7>1. refresh'[f].pane \in Nat
              BY <1>1, <1>6, <5>2 DEF Request
            <7> QED BY <1>4, <2>4, <5>2, <7>1 DEF Past, Done
          <6> QED BY <1>1, <1>7, <5>2, <6>1
        <5> QED BY <5>1, <5>2
      <4>2. q < p
        <5>1. panes[q].source # NoSource /\ p \in Nat /\ q \in Nat
          BY <1>1, <1>3, <2>2 DEF Shown
        <5>2. ~(q >= p + 1)
          BY <4>1, <5>1, Zenon DEF From
        <5> HIDE DEF p
        <5> QED BY <3>2, <5>1, <5>2
      <4> QED BY <2>1, <2>2, <2>3, <2>4, <3>2, <4>2 DEF ListInv, Filled, Past
    <3> QED BY <3>1, <3>2
  <2>5. CASE f # newest
    <3>1. Past(q) /\ refresh'[newest] = refresh[newest]
      BY <1>1, <1>4, <1>6, <2>5 DEF Past, Done
    <3>2. q # p
      BY <2>1, <2>5, <3>1 DEF Overtaken, Past
    <3> QED BY <2>1, <2>2, <2>3, <3>1, <3>2 DEF ListInv, Filled
  <2> QED BY <2>4, <2>5
<1> QED BY <1>8, <1>9 DEF ListInv

(***************************************************************************)
(* A refresh that is begun has got past no pane that is shown.             *)
(***************************************************************************)
LEMMA BegunLists ==
  ASSUME NEW f \in Refresh, NEW panes \in [Pane -> PaneState], center' \in Int,
         newest' = f, \A p \in Pane : pane'[p].source = panes[p].source,
         refresh'[f].pane \in Pane \cup {None},
         /\ refresh'[f].pane = None => From(panes, Primary) = {}
         /\ refresh'[f].pane # None => /\ refresh'[f].alive /\ refresh'[f].center = center'
                                       /\ \A q \in From(panes, Primary) : refresh'[f].pane <= q
  PROVE  ListInv'
<1>1. Heard'
  BY DEF Heard, Done
<1>2. Filled'
  <2> SUFFICES ASSUME NEW q \in Pane, Shown(q)', Past(q)' PROVE FALSE
    BY DEF Filled
  <2>1. q \in From(panes, Primary) /\ q \in Nat
    BY PaneAssumption DEF From, Shown, Primary
  <2>2. refresh'[f].pane # None /\ q < refresh'[f].pane /\ refresh'[f].pane \in Nat
    BY <2>1, PaneAssumption DEF Past, Done
  <2> QED BY <2>1, <2>2
<1> QED BY <1>1, <1>2 DEF ListInv

LEMMA BeginLists ==
  ASSUME PlayInv, NEW f \in Refresh, center' \in Int, BeginRefresh(f, pane, FALSE),
         \A p \in Pane : pane'[p].source = pane[p].source
  PROVE  ListInv'
<1> DEFINE mid == center'  seek == FALSE
<1>1. refresh' = Ask(f, pane, mid, Primary, seek) /\ newest' = f
  BY DEF BeginRefresh
<1>2. mid \in Int /\ seek \in BOOLEAN /\ pane \in [Pane -> PaneState]
      /\ refresh \in [Refresh -> Request]
  BY DEF PlayInv, Shape
<1> HIDE DEF mid, seek
<1>3. refresh'[f].pane \in Pane \cup {None}
  BY <1>1, <1>2, AskType DEF Request
<1>4. /\ refresh'[f].pane = None => From(pane, Primary) = {}
      /\ refresh'[f].pane # None => /\ refresh'[f].alive /\ refresh'[f].center = mid
                                    /\ \A q \in From(pane, Primary) : refresh'[f].pane <= q
  BY <1>1, <1>2, AskNext
<1> QED BY <1>1, <1>2, <1>3, <1>4, BegunLists DEF mid

LEMMA SourceLists ==
  ASSUME PlayInv, NEW p \in Pane, NEW s \in Source \cup {NoSource}, NEW f \in Refresh,
         OnPaneSourceChanged(p, s, f)
  PROVE  ListInv'
<1> DEFINE seek  == s # NoSource
           panes == pane'
           asked == Ask(f, panes, center, Primary, seek)
<1>1. /\ pane' = [pane EXCEPT ![p] = [NoPane EXCEPT !.source = s]]
      /\ center' = center /\ newest' = f
      /\ refresh' = [g \in Refresh |-> [asked[g] EXCEPT !.alive = @ /\ (g = f \/ asked[g].pane # p)]]
  BY Zenon DEF OnPaneSourceChanged, NewPane
<1>2. panes \in [Pane -> PaneState]
  <2>1. [NoPane EXCEPT !.source = s] \in PaneState
    BY DEF NoPane, PaneState
  <2> QED BY <1>1, <2>1 DEF PlayInv, Shape
<1>3. seek \in BOOLEAN /\ center \in Int /\ refresh \in [Refresh -> Request]
  BY DEF PlayInv, Shape
<1>4. refresh'[f] = [asked[f] EXCEPT !.alive = asked[f].alive /\ (f = f \/ asked[f].pane # p)]
  BY <1>1
<1> HIDE DEF seek, panes
<1>5. /\ asked[f] \in Request
      /\ asked[f].pane = None => From(panes, Primary) = {}
      /\ asked[f].pane # None => /\ asked[f].alive /\ asked[f].center = center
                                 /\ \A q \in From(panes, Primary) : asked[f].pane <= q
  BY <1>2, <1>3, AskType, AskNext
<1> HIDE DEF asked
<1>6. refresh'[f] = asked[f]
  <2>1. asked[f].alive \in BOOLEAN
    BY <1>5 DEF Request
  <2>2. (asked[f].alive /\ (f = f \/ asked[f].pane # p)) = asked[f].alive
    BY <2>1
  <2> QED BY <1>4, <1>5, <2>2 DEF Request
<1>7. \A q \in Pane : pane'[q].source = panes[q].source
  BY DEF panes
<1>8. refresh'[f].pane \in Pane \cup {None}
  BY <1>5, <1>6 DEF Request
<1>9. center' \in Int /\ newest' = f
  BY <1>1, <1>3
<1>10. /\ refresh'[f].pane = None => From(panes, Primary) = {}
       /\ refresh'[f].pane # None => /\ refresh'[f].alive /\ refresh'[f].center = center'
                                     /\ \A q \in From(panes, Primary) : refresh'[f].pane <= q
  <2>1. center' = center
    BY <1>1
  <2> QED BY <1>5, <1>6, <2>1, Zenon
<1> QED BY <1>2, <1>7, <1>8, <1>9, <1>10, BegunLists

(***************************************************************************)
(* The lists at first, and at every step.                                  *)
(***************************************************************************)
LEMMA ListInit == ASSUME Init PROVE ListInv
<1>1. PICK s \in [Pane -> Source \cup {NoSource}] :
        refresh = [f \in Refresh |-> IF f = Boot
              THEN [pane |-> Primary, source |-> s[Primary], center |-> Opened,
                    alive |-> TRUE, seek |-> FALSE]
              ELSE NoRequest]
  BY DEF Init
<1>2. center = Opened /\ newest = Boot /\ Boot \in Refresh
  BY LimitAssumption DEF Init, Boot
<1>3. /\ refresh[newest].pane = Primary /\ refresh[newest].alive
      /\ refresh[newest].center = center
  BY <1>1, <1>2
<1>4. \A p \in Pane : ~Past(p)
  BY <1>3, PaneAssumption DEF Past, Done, Primary, None
<1> QED BY <1>3, <1>4 DEF ListInv, Heard, Filled

LEMMA AnswerLists == ASSUME PlayInv, ListInv, NEW f \in Refresh, Answered(f) PROVE ListInv'
<1>1. Answer(f) \in SUBSET Chunk
  BY DEF Answer, Timeline
<1>2. /\ ~Done(f) /\ Fill(f, Answer(f)) /\ refresh[f].alive
      /\ clean' => clean /\ ~Overtaken(f)
  BY Zenon DEF Answered
<1> HIDE DEF Answer, Fill, Done
<1> QED BY <1>1, <1>2, FillLists

LEMMA ErrorLists == ASSUME PlayInv, ListInv, NEW f \in Refresh, ServerError(f) PROVE ListInv'
<1>1. ~Done(f) /\ Fill(f, {}) /\ clean' = FALSE
  BY Zenon DEF ServerError
<1> QED BY <1>1, FillLists

\* The refresh that ends early is not the newest, or the lists are no longer claimed.
LEMMA AbortLists ==
  ASSUME PlayInv, ListInv, NEW f \in Refresh, Abort(f), clean' => clean /\ f # newest
  PROVE  ListInv'
<1>1. /\ refresh' = [refresh EXCEPT ![f] = NoRequest]
      /\ UNCHANGED <<pane, center, newest>>
  BY DEF Abort
<1>2. refresh \in [Refresh -> Request] /\ newest \in Refresh /\ NoRequest.pane = None
  BY DEF PlayInv, Shape, NoRequest
<1>3. CASE f = newest
  <2>1. refresh'[newest].pane = None
    BY <1>1, <1>2, <1>3
  <2> QED BY <1>1, <1>3, <2>1 DEF ListInv, Heard, Filled, Done
<1>4. CASE f # newest
  <2>1. refresh'[newest] = refresh[newest]
    BY <1>1, <1>2, <1>4
  <2>2. Heard'
    BY <1>1, <2>1 DEF ListInv, Heard, Done
  <2>3. Filled'
    BY <1>1, <2>1 DEF ListInv, Filled, Past, Done, Shown, Window
  <2> QED BY <2>2, <2>3 DEF ListInv
<1> QED BY <1>3, <1>4

LEMMA ThrownLists == ASSUME PlayInv, ListInv, NEW f \in Refresh, Thrown(f) PROVE ListInv'
<1>1. Abort(f) /\ ~Done(f) /\ ~refresh[f].alive /\ clean' = clean
  BY Zenon DEF Thrown
<1>2. f # newest
  BY <1>1 DEF ListInv, Heard
<1> QED BY <1>1, <1>2, AbortLists

LEMMA ListStep == ASSUME PlayInv, ListInv, [Next]_vars PROVE ListInv'
<1> DEFINE Quiet == /\ UNCHANGED timelines
                    /\ UNCHANGED pane \/ \E t : SeekAll(pane, t)
<1>1. ASSUME Quiet PROVE ListInv'
  <2>1. CASE UNCHANGED pane
    BY <1>1, <2>1, ListsKept
  <2>2. CASE \E t : SeekAll(pane, t)
    BY <1>1, <2>2, SeekListsKept
  <2> QED BY <1>1, <2>1, <2>2
<1>2. ASSUME NEW f \in Refresh, Answered(f) PROVE ListInv'
  BY <1>2, AnswerLists
<1>3. ASSUME NEW f \in Refresh, ServerError(f) PROVE ListInv'
  BY <1>3, ErrorLists
<1>4. ASSUME NEW f \in Refresh, Thrown(f) PROVE ListInv'
  BY <1>4, ThrownLists
<1>5. ASSUME NEW f \in Refresh, Unreachable(f) PROVE ListInv'
  <2>1. Abort(f) /\ (clean' => clean /\ f # newest)
    BY <1>5, Zenon DEF Unreachable
  <2> QED BY <2>1, AbortLists
<1>6. ASSUME NEW f \in Refresh, NEW p \in Pane, NEW s \in Source \cup {NoSource},
             OnPaneSourceChanged(p, s, f)
      PROVE  ListInv'
  BY <1>6, SourceLists
<1>7. ASSUME NEW f \in Refresh, Recenter(f) PROVE ListInv'
  <2>1. BeginRefresh(f, pane, FALSE) /\ center' = master /\ pane' = pane
    BY <1>7, Zenon DEF Recenter
  <2>2. center' \in Int
    BY <2>1 DEF PlayInv, Shape
  <2> QED BY <2>1, <2>2, BeginLists
<1>8. ASSUME NEW f \in Refresh, NEW t \in Instant, GoTo(t, f) PROVE ListInv'
  <2>1. BeginRefresh(f, pane, FALSE) /\ SeekAll(pane, t) /\ center' = t
    BY <1>8, Zenon DEF GoTo
  <2>2. center' \in Int /\ pane \in [Pane -> PaneState]
    BY <2>1, TimeAssumption DEF PlayInv, Shape
  <2>3. \A p \in Pane : pane'[p].source = pane[p].source
    BY <2>1, <2>2, SeekLists
  <2> QED BY <2>1, <2>2, <2>3, BeginLists
<1>9. ASSUME \E t \in Instant : Click(t) PROVE Quiet
  BY <1>9, Zenon DEF Click
<1>10. ASSUME \/ \E b \in BOOLEAN : Play(b)
              \/ Pause \/ TimeUpdate
              \/ \E p \in Pane : LoadedMetadata(p) \/ Roll(p) \/ DriftCorrect(p)
       PROVE  Quiet
  BY <1>10, Zenon DEF Play, Pause, TimeUpdate, LoadedMetadata, Roll, DriftCorrect
<1>11. CASE OnPrimaryEnded
  BY <1>1, <1>11 DEF OnPrimaryEnded
<1>12. CASE ReverseTick
  BY <1>1, <1>12 DEF ReverseTick, StepInside
<1>13. CASE UNCHANGED vars
  BY <1>1, <1>13
<1> HIDE DEF vars, Quiet
<1> QED BY <1>1, <1>2, <1>3, <1>4, <1>5, <1>6, <1>7, <1>8, <1>9, <1>10, <1>11, <1>12, <1>13
       DEF Next

(***************************************************************************)
(* When the newest refresh has ended undisturbed, every pane lists the     *)
(* chunks of its source in the window that is shown: it never asks for an  *)
(* older window, fills the panes in order, and an older refresh that fills *)
(* one of them afterwards is known to have overtaken it.                   *)
(***************************************************************************)
THEOREM CurrentLists == Spec => []ListsCurrent
<1>1. Init => PlayInv /\ ListInv
  BY InitInv, ListInit
<1>2. PlayInv /\ ListInv /\ [Next]_vars => (PlayInv /\ ListInv)'
  BY StepInv, ListStep
<1>3. ListInv => ListsCurrent
  BY DEF ListInv, Filled, Past, ListsCurrent, Window
<1> QED BY <1>1, <1>2, <1>3, PTL DEF Spec

-----------------------------------------------------------------------------
(* Arrivals                                                                *)

\* A video that is to show chunk c at time t is there, or will be once loaded.
Rests(v, c, t) == c # NoChunk =>
    IF v.ready THEN v.pos = Clamp(c, t - Row[c].start) ELSE v.seek = t - Row[c].start

Arrived == trusted => \A p \in Pane : Shown(p) =>
    /\ pane[p].active = Target(Window(pane[p].source), master)
    /\ Rests(video[p], pane[p].active, master)

(***************************************************************************)
(* loadChunkInPane takes a video there, unless its file is still loading.  *)
(***************************************************************************)
LEMMA MovedRests ==
  ASSUME NEW v \in VideoState, NEW active, NEW c, NEW t,
         c # NoChunk /\ c = active => v.ready
  PROVE  Rests(Moved(v, active, c, t), c, t)
<1> SUFFICES ASSUME c # NoChunk PROVE Rests(Moved(v, active, c, t), c, t)
  BY DEF Rests
<1>1. CASE c # active
  <2>1. Moved(v, active, c, t) = [file |-> c, pos |-> 0, ready |-> FALSE, seek |-> t - Row[c].start]
    BY <1>1 DEF Moved
  <2> QED BY <2>1 DEF Rests
<1>2. CASE c = active
  <2> DEFINE x == Clamp(c, t - Row[c].start)
  <2>1. Moved(v, active, c, t) = [v EXCEPT !.pos = x]
    BY <1>2 DEF Moved
  <2>2. [v EXCEPT !.pos = x].ready = v.ready /\ [v EXCEPT !.pos = x].pos = x
    <3> HIDE DEF x
    <3> QED BY DEF VideoState
  <2> QED BY <1>2, <2>1, <2>2 DEF Rests
<1> QED BY <1>1, <1>2

(***************************************************************************)
(* A seek that is trusted has worked on current lists.                     *)
(***************************************************************************)
LEMMA SeekArrived ==
  ASSUME PlayInv, NEW panes \in [Pane -> PaneState], NEW t, SeekAll(panes, t), ListInv'
  PROVE  Arrived'
<1> DEFINE target == [p \in Pane |-> Target(panes[p].chunks, t)]
<1>1. /\ master' = t
      /\ pane' = [p \in Pane |-> IF panes[p].source # NoSource
                                 THEN [panes[p] EXCEPT !.active = target[p]] ELSE panes[p]]
      /\ video' = [p \in Pane |-> IF panes[p].source # NoSource
                                  THEN Moved(video[p], panes[p].active, target[p], t)
                                  ELSE video[p]]
      /\ trusted' => clean' /\ refresh'[newest'].pane = None
                  /\ \A p \in Pane : panes[p].source # NoSource /\ target[p] = panes[p].active =>
                        target[p] = NoChunk \/ video[p].ready
  BY Zenon DEF SeekAll
<1>2. \A p \in Pane : target[p] = Target(panes[p].chunks, t)
  OBVIOUS
<1> HIDE DEF target
<1>3. \A p \in Pane : pane'[p].source = panes[p].source /\ pane'[p].chunks = panes[p].chunks
  BY SeekLists
<1> SUFFICES ASSUME trusted', NEW p \in Pane, Shown(p)'
             PROVE  /\ pane'[p].active = Target(Timeline(pane'[p].source, center' - Span,
                                                         center' + Span), master')
                    /\ Rests(video'[p], pane'[p].active, master')
  BY DEF Arrived, Window
<1>4. panes[p].source # NoSource
  BY <1>3 DEF Shown
<1>5. panes[p].chunks = Timeline(pane'[p].source, center' - Span, center' + Span)
  BY <1>1, <1>3 DEF ListInv, Filled, Past, Done, Window
<1>6. pane'[p].active = target[p] /\ video'[p] = Moved(video[p], panes[p].active, target[p], t)
  BY <1>1, <1>4 DEF PaneState
<1>7. Rests(video'[p], target[p], t)
  <2>1. video[p] \in VideoState
    BY DEF PlayInv, Shape
  <2>2. target[p] # NoChunk /\ target[p] = panes[p].active => video[p].ready
    BY <1>1, <1>4
  <2> QED BY <1>6, <2>1, <2>2, MovedRests
<1> QED BY <1>1, <1>2, <1>5, <1>6, <1>7

(***************************************************************************)
(* A step that moves no clock, no window and no pane that is shown to      *)
(* another chunk, and leaves its video where it is to rest.                *)
(***************************************************************************)
LEMMA ArrivedKept ==
  ASSUME Arrived, trusted' => trusted /\ UNCHANGED <<master, center>>,
         trusted' => \A p \in Pane : Shown(p)' =>
             /\ Shown(p) /\ pane'[p].source = pane[p].source /\ pane'[p].active = pane[p].active
             /\ Rests(video[p], pane[p].active, master) => Rests(video'[p], pane[p].active, master)
  PROVE  Arrived'
BY DEF Arrived, Window

LEMMA ArrivedSame ==
  ASSUME Arrived, trusted' => trusted /\ UNCHANGED <<pane, video, master, center>>
  PROVE  Arrived'
BY DEF Arrived, Window, Shown

LEMMA FillArrived ==
  ASSUME PlayInv, Arrived, ListInv', NEW f \in Refresh, ~Done(f), NEW chunks \in SUBSET Chunk,
         Fill(f, chunks)
  PROVE  Arrived'
<1> DEFINE p == refresh[f].pane
           panes == IF refresh[f].alive THEN [pane EXCEPT ![p].chunks = chunks] ELSE pane
<1>1. p \in Pane
  BY DEF PlayInv, Shape, Request, Done
<1>2. panes \in [Pane -> PaneState]
      /\ \A q \in Pane : panes[q].source = pane[q].source /\ panes[q].active = pane[q].active
  BY <1>1 DEF PlayInv, Shape, PaneState
<1>3. \/ SeekAll(panes, master)
      \/ pane' = panes /\ UNCHANGED <<video, master, center>> /\ trusted' = trusted
  BY Zenon DEF Fill
<1> HIDE DEF panes
<1>4. CASE SeekAll(panes, master)
  BY <1>2, <1>4, SeekArrived
<1>5. CASE pane' = panes /\ UNCHANGED <<video, master, center>> /\ trusted' = trusted
  BY <1>2, <1>5, ArrivedKept DEF Shown
<1> QED BY <1>3, <1>4, <1>5

LEMMA SourceArrived ==
  ASSUME PlayInv, Arrived, NEW p \in Pane, NEW s \in Source \cup {NoSource}, NEW f \in Refresh,
         OnPaneSourceChanged(p, s, f)
  PROVE  Arrived'
<1>1. /\ pane' = [pane EXCEPT ![p] = [NoPane EXCEPT !.source = s]]
      /\ video' = IF s = NoSource THEN [video EXCEPT ![p] = NoVideo] ELSE video
      /\ UNCHANGED <<center, master>>
      /\ trusted' => trusted /\ s = NoSource
  BY Zenon DEF OnPaneSourceChanged, NewPane
<1>2. [NoPane EXCEPT !.source = s].source = s
  BY DEF NoPane
<1>3. \A q \in Pane : q # p => pane'[q] = pane[q] /\ video'[q] = video[q]
  BY <1>1 DEF PlayInv, Shape
<1>4. trusted' => ~Shown(p)'
  BY <1>1, <1>2 DEF PlayInv, Shape, Shown
<1> QED BY <1>1, <1>3, <1>4, ArrivedKept DEF Shown

(***************************************************************************)
(* A file that has loaded is moved to the time of the seek; drift is       *)
(* corrected to where the video rests.                                     *)
(***************************************************************************)
LEMMA LoadedArrived ==
  ASSUME PlayInv, Arrived, NEW p \in Pane, LoadedMetadata(p) PROVE Arrived'
<1> DEFINE x == Clamp(video[p].file, video[p].seek)
<1>1. /\ video' = [video EXCEPT ![p].ready = TRUE, ![p].pos = x]
      /\ UNCHANGED <<pane, master, center>> /\ ~video[p].ready
      /\ trusted' = trusted
  BY Zenon DEF LoadedMetadata
<1>2. \A q \in Pane : q # p => video'[q] = video[q]
  BY <1>1 DEF PlayInv, Shape
<1>3. video'[p].ready /\ video'[p].pos = x
  <2> HIDE DEF x
  <2> QED BY <1>1 DEF PlayInv, Shape, VideoState
<1>4. Rests(video[p], pane[p].active, master) => Rests(video'[p], pane[p].active, master)
  <2> SUFFICES ASSUME pane[p].active # NoChunk, Rests(video[p], pane[p].active, master)
               PROVE  x = Clamp(pane[p].active, master - Row[pane[p].active].start)
    BY <1>3 DEF Rests
  <2>1. video[p].file = pane[p].active
    BY DEF PlayInv, PlaysOwn
  <2>2. video[p].seek = master - Row[pane[p].active].start
    BY <1>1 DEF Rests
  <2> QED BY <2>1, <2>2
<1> QED BY <1>1, <1>2, <1>4, ArrivedKept DEF Shown

LEMMA DriftArrived ==
  ASSUME PlayInv, Arrived, NEW p \in Pane, DriftCorrect(p) PROVE Arrived'
<1> DEFINE x == Clamp(pane[p].active, master - Row[pane[p].active].start)
<1>1. /\ video' = [video EXCEPT ![p].pos = x]
      /\ UNCHANGED <<pane, master, center>>
      /\ trusted' = trusted
  BY Zenon DEF DriftCorrect
<1>2. \A q \in Pane : q # p => video'[q] = video[q]
  BY <1>1 DEF PlayInv, Shape
<1>3. video'[p].ready = video[p].ready /\ video'[p].seek = video[p].seek /\ video'[p].pos = x
  <2> HIDE DEF x
  <2> QED BY <1>1 DEF PlayInv, Shape, VideoState
<1>4. Rests(video[p], pane[p].active, master) => Rests(video'[p], pane[p].active, master)
  BY <1>3 DEF Rests
<1> QED BY <1>1, <1>2, <1>4, ArrivedKept DEF Shown

LEMMA ArrivedStep == ASSUME PlayInv, Arrived, ListInv', [Next]_vars PROVE Arrived'
<1> DEFINE Same == trusted' => trusted /\ UNCHANGED <<pane, video, master, center>>
<1>1. pane \in [Pane -> PaneState]
  BY DEF PlayInv, Shape
<1>2. ASSUME NEW t, SeekAll(pane, t) PROVE Arrived'
  BY <1>1, <1>2, SeekArrived
<1>3. ASSUME NEW f \in Refresh, Answered(f) PROVE Arrived'
  <2>1. Answer(f) \in SUBSET Chunk
    BY DEF Answer, Timeline
  <2>2. ~Done(f) /\ Fill(f, Answer(f))
    BY <1>3 DEF Answered
  <2> HIDE DEF Answer, Fill, Done
  <2> QED BY <2>1, <2>2, FillArrived
<1>4. ASSUME NEW f \in Refresh, ServerError(f) PROVE Arrived'
  <2>1. ~Done(f) /\ Fill(f, {})
    BY <1>4 DEF ServerError
  <2> QED BY <2>1, FillArrived
<1>5. ASSUME NEW f \in Refresh, NEW p \in Pane, NEW s \in Source \cup {NoSource},
             OnPaneSourceChanged(p, s, f)
      PROVE  Arrived'
  BY <1>5, SourceArrived
<1>6. ASSUME NEW f \in Refresh, NEW t \in Instant, GoTo(t, f) PROVE Arrived'
  BY <1>2, <1>6 DEF GoTo
<1>7. ASSUME NEW t \in Instant, Click(t) PROVE Arrived'
  BY <1>2, <1>7 DEF Click
<1>8. ASSUME NEW p \in Pane, LoadedMetadata(p) PROVE Arrived'
  BY <1>8, LoadedArrived
<1>9. ASSUME NEW p \in Pane, DriftCorrect(p) PROVE Arrived'
  BY <1>9, DriftArrived
<1>10. ASSUME NEW f \in Refresh, Thrown(f) \/ Unreachable(f) PROVE Same
  BY <1>10, Zenon DEF Thrown, Unreachable, Abort
<1>11. ASSUME NEW f \in Refresh, Recenter(f) PROVE Same
  BY <1>11, Zenon DEF Recenter
<1>12. ASSUME NEW p \in Pane, Roll(p) PROVE Same
  BY <1>12, Zenon DEF Roll
<1>13. ASSUME Pause \/ TimeUpdate \/ UNCHANGED vars PROVE Same
  BY <1>13, Zenon DEF Pause, TimeUpdate
<1>14. ASSUME NEW b \in BOOLEAN, Play(b) PROVE Arrived'
  <2>1. CASE b
    <3>1. video' = video
      <4>1. video' = [p \in Pane |-> IF ~b /\ video[p].ready /\ video[p].pos = Row[video[p].file].length
                                     THEN [video[p] EXCEPT !.pos = 0] ELSE video[p]]
        BY <1>14, Zenon DEF Play
      <4> QED BY <2>1, <4>1 DEF PlayInv, Shape
    <3>2. UNCHANGED <<pane, master, center>> /\ (trusted' => trusted)
      BY <1>14, Zenon DEF Play
    <3> QED BY <3>1, <3>2, ArrivedSame
  <2>2. CASE ~b
    <3>1. trusted' = FALSE
      BY <1>14, <2>2 DEF Play
    <3> QED BY <3>1 DEF Arrived
  <2> QED BY <2>1, <2>2
<1>15. CASE OnPrimaryEnded
  <2>1. Same \/ \E t : SeekAll(pane, t)
    BY <1>15, Zenon DEF OnPrimaryEnded
  <2> QED BY <1>2, <2>1, ArrivedSame
<1>16. CASE ReverseTick
  <2>1. Same \/ \E t : SeekAll(pane, t)
    BY <1>16 DEF ReverseTick, StepInside
  <2> QED BY <1>2, <2>1, ArrivedSame
<1>17. Same => Arrived'
  BY ArrivedSame
<1> HIDE DEF vars, Same
<1> QED BY <1>3, <1>4, <1>5, <1>6, <1>7, <1>8, <1>9, <1>10, <1>11, <1>12, <1>13, <1>14, <1>15,
           <1>16, <1>17 DEF Next

(***************************************************************************)
(* A seek whose lists were current and whose files were loaded, or not yet *)
(* begun to load, takes every pane to the recording at the clock: whatever *)
(* answers, errors and events come later, a file that loads is moved to    *)
(* the time of the seek and drift is corrected to that place.              *)
(***************************************************************************)
THEOREM SeeksArrive == Spec => []SeekArrives
<1>1. Init => PlayInv /\ ListInv /\ Arrived
  <2>1. Init => Arrived
    BY DEF Init, Arrived
  <2> QED BY <2>1, InitInv, ListInit
<1>2. PlayInv /\ ListInv /\ Arrived /\ [Next]_vars => (PlayInv /\ ListInv /\ Arrived)'
  <2>1. PlayInv /\ ListInv /\ [Next]_vars => PlayInv' /\ ListInv'
    BY StepInv, ListStep
  <2>2. PlayInv /\ Arrived /\ ListInv' /\ [Next]_vars => Arrived'
    BY ArrivedStep
  <2> QED BY <2>1, <2>2
<1>3. Arrived => SeekArrives
  BY Zenon DEF Arrived, SeekArrives, Rests, Window
<1> QED BY <1>1, <1>2, <1>3, PTL DEF Spec

-----------------------------------------------------------------------------
(* Ranges                                                                  *)

(***************************************************************************)
(* A range from a position on, or the end of a file, is answered with the  *)
(* bytes it names, unless its last byte is beyond the file.                *)
(***************************************************************************)
LEMMA RangeExact ==
  ASSUME NEW r \in RangeHeader, NEW total \in Nat, r.from = Absent \/ r.to < total
  PROVE  Bytes(r, total) = Named(r, total)
<1>1. /\ r.from \in Nat \cup {Absent} /\ r.to \in Nat \cup {Absent} /\ Absent = -1
  BY ByteAssumption DEF RangeHeader, Position, Absent
<1>2. CASE r.from # Absent
  BY <1>1, <1>2 DEF Bytes, Named, Refused, First, Last
<1>3. CASE r.from = Absent /\ r.to = Absent
  BY <1>1, <1>3 DEF Bytes, Named, Refused, First, Last, SuffixStart
<1>4. CASE r.from = Absent /\ r.to # Absent
  BY <1>1, <1>4 DEF Bytes, Named, Refused, First, Last, SuffixStart
<1> QED BY <1>2, <1>3, <1>4

(***************************************************************************)
(* A video gets the bytes it asks for, wherever it stands in its file: its *)
(* position is never negative, and the file is one of the table.           *)
(***************************************************************************)
THEOREM RangesServed == Spec => []RangeServed
<1>1. PlayInv => RangeServed
  <2> SUFFICES ASSUME PlayInv, NEW p \in Pane, video[p].file # NoChunk, NEW r \in RangeHeader,
                      r.from = Absent \/ r.to < Row[video[p].file].length
               PROVE  Bytes(r, Row[video[p].file].length) = Named(r, Row[video[p].file].length)
    BY DEF RangeServed
  <2>1. Row[video[p].file].length \in Nat
    BY RowType DEF PlayInv, Shape, VideoState
  <2> QED BY <2>1, RangeExact
<1>2. Init => PlayInv
  BY InitInv
<1>3. PlayInv /\ [Next]_vars => PlayInv'
  BY StepInv
<1> QED BY <1>1, <1>2, <1>3, PTL DEF Spec
=============================================================================
