------------------------------- MODULE Player -------------------------------
(***************************************************************************)
(* The watch page (app/static/watch.js): panes that show one source each,  *)
(* driven by one master clock that the primary pane's video feeds.         *)
(*                                                                         *)
(* JavaScript runs a handler to its end; handlers interleave with answers  *)
(* to timeline requests, events of the video elements and timers.  A       *)
(* refresh asks for one pane after the other and may overlap with others.  *)
(* The video element of a pane outlives the pane object it belongs to.     *)
(***************************************************************************)
EXTENDS Catalogue

CONSTANTS
    Pane,        \* indices of the panes; 0 is the primary one
    NoSource,
    Refresh,     \* calls of refreshTimelines() that can be in flight
    Span,        \* half the size of the window
    Opened,      \* the time the page is opened at
    Instant,     \* bound: times an operator can go to
    MaxEvents    \* bound: the operator's acts and failing requests together

Primary == 0
None    == -1    \* no pane

ASSUME PaneAssumption == Primary \in Pane /\ Pane \subseteq Nat /\ NoSource \notin Source
ASSUME TimeAssumption == Span \in Nat /\ Instant \subseteq Nat /\ Opened \in Nat
ASSUME LimitAssumption == MaxEvents \in Nat /\ Refresh # {}

VARIABLES
    pane,        \* state.panes: source, chunks, activeChunkId
    video,       \* video elements: file, currentTime, the seek due on loading
    master,      \* state.masterUtc
    center,      \* middle of windowStart and windowEnd
    playing, reverse,
    refresh,     \* timeline requests in flight
    newest,      \* history: the refresh begun last
    clean,       \* history: it has not failed or been overtaken
    trusted,     \* history: the last seek saw current lists and loaded files
    missed,      \* history: the seek due after a change of source was not made
    events

vars == <<pane, video, master, center, playing, reverse, refresh,
          newest, clean, trusted, missed, events>>
timelines == <<center, refresh, newest, clean>>

-----------------------------------------------------------------------------
(* Chunks of a list                                                        *)

NoPane    == [source |-> NoSource, chunks |-> {}, active |-> NoChunk]
NoVideo   == [file |-> NoChunk, pos |-> 0, ready |-> FALSE, seek |-> 0]
NoRequest == [pane |-> None, source |-> NoSource, center |-> 0, alive |-> FALSE, seek |-> FALSE]

Shown(p)  == pane[p].source # NoSource
Done(f)   == refresh[f].pane = None

MutantClamp(c, offset) == IF offset > Row[c].length THEN Row[c].length ELSE offset
Clamp(c, offset) == CASE offset < 0             -> 0
                      [] offset > Row[c].length -> Row[c].length
                      [] OTHER                  -> offset

Event == events < MaxEvents /\ events' = events + 1

\* The lists are in order of started_at; find() takes the first.
ChunkContaining(chunks, t) ==
    LET spanning == {c \in chunks : Row[c].start <= t /\ t <= EffectiveEnd(c)}
    IN  IF spanning = {} THEN NoChunk
        ELSE CHOOSE c \in spanning : \A d \in spanning : Row[c].start <= Row[d].start

HasNext(chunks, t) == \E c \in chunks : Row[c].start > t

Target(chunks, t) == LET c == ChunkContaining(chunks, t)
                     IN  IF c # NoChunk /\ Row[c].available THEN c ELSE NoChunk

-----------------------------------------------------------------------------
(* Seeking                                                                 *)

(* loadChunkInPane: another file is loaded, and moved when its metadata is *)
(* there; the same is moved at once; without one the pane goes blank.      *)
MutantMoved(v, active, c, t) ==
    IF c = NoChunk THEN NoVideo
    ELSE IF c # active THEN [file |-> c, pos |-> 0, ready |-> FALSE, seek |-> t - Row[c].start]
    ELSE v
Moved(v, active, c, t) ==
    IF c = NoChunk THEN NoVideo
    ELSE IF c # active THEN [file |-> c, pos |-> 0, ready |-> FALSE, seek |-> t - Row[c].start]
    ELSE [v EXCEPT !.pos = Clamp(c, t - Row[c].start)]

SeekAll(panes, t) ==
    LET target == [p \in Pane |-> Target(panes[p].chunks, t)]
        on(p)  == panes[p].source # NoSource
    IN  /\ master' = t
        /\ pane'  = [p \in Pane |-> IF on(p) THEN [panes[p] EXCEPT !.active = target[p]] ELSE panes[p]]
        /\ video' = [p \in Pane |-> IF on(p) THEN Moved(video[p], panes[p].active, target[p], t)
                                             ELSE video[p]]
        /\ missed' = FALSE
        /\ trusted' = (clean' /\ refresh'[newest'].pane = None
                         /\ \A p \in Pane : on(p) /\ target[p] = panes[p].active => 
                                target[p] = NoChunk \/ video[p].ready)

-----------------------------------------------------------------------------
(* Timelines                                                               *)

\* The rest of the loop, from pane p on: the next request, or the end.
From(panes, p) == {q \in Pane : q >= p /\ panes[q].source # NoSource}

MutantAsk(f, panes, mid, p, seek) ==
    LET later == {q \in From(panes, p) : q + 1 \in Pane}
        next  == CHOOSE q \in later : \A r \in later : q <= r
    IN  [refresh EXCEPT ![f] =
            IF later = {} THEN NoRequest
            ELSE [pane |-> next, source |-> panes[next].source, center |-> mid,
                  alive |-> TRUE, seek |-> seek]]
Ask(f, panes, mid, p, seek) ==
    LET later == From(panes, p)
        next  == CHOOSE q \in later : \A r \in later : q <= r
    IN  [refresh EXCEPT ![f] =
            IF later = {} THEN NoRequest
            ELSE [pane |-> next, source |-> panes[next].source, center |-> mid,
                  alive |-> TRUE, seek |-> seek]]

BeginRefresh(f, panes, seek) ==
    /\ Done(f)
    /\ refresh' = Ask(f, panes, center', Primary, seek)
    /\ newest' = f /\ clean' = TRUE

\* A newer refresh has been given the answer for this pane already.
Overtaken(f) == f # newest /\ (Done(newest) \/ refresh[newest].pane > refresh[f].pane)

Answer(f) == Timeline(refresh[f].source, refresh[f].center - Span, refresh[f].center + Span)

(* The list of the pane is replaced and the loop goes on.  The end of a    *)
(* refresh that follows a change of source is a seek.                      *)
Fill(f, chunks) ==
    LET p == refresh[f].pane
        panes == IF refresh[f].alive THEN [pane EXCEPT ![p].chunks = chunks] ELSE pane
    IN  /\ refresh' = Ask(f, panes, center, p + 1, refresh[f].seek)
        /\ UNCHANGED newest
        /\ IF refresh'[f] = NoRequest /\ refresh[f].seek
           THEN SeekAll(panes, master)
           ELSE pane' = panes /\ UNCHANGED <<video, master, trusted, missed>>
        /\ UNCHANGED <<center, playing, reverse>>

Answered(f) ==
    /\ ~Done(f) /\ refresh[f].alive
    /\ clean' = (clean /\ ~Overtaken(f))
    /\ Fill(f, Answer(f))
    /\ UNCHANGED events

(* An error of the server empties the list, be it a list that is no longer *)
(* shown.                                                                  *)
ServerError(f) ==
    /\ ~Done(f) /\ Event
    /\ clean' = FALSE
    /\ Fill(f, {})

(* The network fails, or the pane has been replaced and has no label: the  *)
(* handler throws and the refresh ends, without its seek.                  *)
Abort(f) ==
    /\ refresh' = [refresh EXCEPT ![f] = NoRequest]
    /\ missed' = (missed \/ refresh[f].seek)
    /\ UNCHANGED <<pane, video, master, center, newest, trusted, playing, reverse>>

Thrown(f) ==
    /\ ~Done(f) /\ ~refresh[f].alive
    /\ Abort(f)
    /\ UNCHANGED <<clean, events>>

Unreachable(f) ==
    /\ ~Done(f) /\ Event
    /\ clean' = (clean /\ f # newest)
    /\ Abort(f)

-----------------------------------------------------------------------------
(* The operator                                                            *)

(* A new pane object; the requests for the old one can no longer find it.  *)
(* The element keeps the file it has until the seek after the refresh.     *)
MutantNewPane(p, s) == [pane EXCEPT ![p].source = s]
NewPane(p, s) == [pane EXCEPT ![p] = [NoPane EXCEPT !.source = s]]

OnPaneSourceChanged(p, s, f) ==
    /\ Event /\ Done(f) /\ (s = NoSource => p # Primary)
    /\ pane' = NewPane(p, s)
    /\ video' = IF s = NoSource THEN [video EXCEPT ![p] = NoVideo] ELSE video
    /\ UNCHANGED center
    /\ newest' = f /\ clean' = TRUE
    /\ LET asked == Ask(f, pane', center, Primary, s # NoSource)
       IN  refresh' = [g \in Refresh |-> [asked[g] EXCEPT !.alive = @ /\ (g = f \/ asked[g].pane # p)]]
    /\ trusted' = (trusted /\ s = NoSource)
    /\ UNCHANGED <<master, playing, reverse, missed>>

(* "Go to" and "Live": the window moves and its timelines are asked for,   *)
(* then the seek works on the lists there are.                             *)
GoTo(t, f) ==
    /\ Event
    /\ center' = t
    /\ BeginRefresh(f, pane, FALSE)
    /\ SeekAll(pane, t)
    /\ UNCHANGED <<playing, reverse>>

Click(t) ==
    /\ Event /\ t \in (center - Span)..(center + Span)
    /\ UNCHANGED timelines
    /\ SeekAll(pane, t)
    /\ UNCHANGED <<playing, reverse>>

(* A change of the window's size centers it on the clock.                  *)
Recenter(f) ==
    /\ Event
    /\ center' = master
    /\ BeginRefresh(f, pane, FALSE)
    /\ trusted' = FALSE
    /\ UNCHANGED <<pane, video, master, playing, reverse, missed>>

(* play() starts an ended video over.                                      *)
Play(backwards) ==
    /\ Event
    /\ playing' = TRUE /\ reverse' = backwards
    /\ video' = [p \in Pane |->
                    IF ~backwards /\ video[p].ready /\ video[p].pos = Row[video[p].file].length
                    THEN [video[p] EXCEPT !.pos = 0] ELSE video[p]]
    /\ trusted' = (trusted /\ backwards)
    /\ UNCHANGED <<pane, master, timelines, missed>>

Pause ==
    /\ Event
    /\ playing' = FALSE
    /\ UNCHANGED <<pane, video, master, reverse, timelines, trusted, missed>>

-----------------------------------------------------------------------------
(* Events of the videos, and timers                                        *)

Tracked(p) == pane[p].active # NoChunk /\ pane[p].active \in pane[p].chunks
Rolling(p) == playing /\ ~reverse /\ video[p].ready

LoadedMetadata(p) ==
    /\ video[p].file # NoChunk /\ ~video[p].ready
    /\ video' = [video EXCEPT ![p].ready = TRUE, ![p].pos = Clamp(video[p].file, video[p].seek)]
    /\ UNCHANGED <<pane, master, playing, reverse, timelines, trusted, missed, events>>

(* The primary's time sets the clock, be its file still loading.           *)
TimeUpdate ==
    /\ Tracked(Primary)
    /\ master' = Row[pane[Primary].active].start + video[Primary].pos
    /\ trusted' = (trusted /\ master' = master)
    /\ UNCHANGED <<pane, video, playing, reverse, timelines, missed, events>>

Roll(p) ==
    /\ Rolling(p) /\ video[p].pos < Row[video[p].file].length
    /\ video' = [video EXCEPT ![p].pos = @ + 1]
    /\ trusted' = FALSE
    /\ UNCHANGED <<pane, master, playing, reverse, timelines, missed, events>>

(* driftCorrect                                                            *)
DriftCorrect(p) ==
    /\ p # Primary /\ Tracked(p)
    /\ video' = [video EXCEPT ![p].pos = Clamp(pane[p].active, master - Row[pane[p].active].start)]
    /\ UNCHANGED <<pane, master, playing, reverse, timelines, trusted, missed, events>>

(* The millisecond after the end of a chunk is before the start of the     *)
(* next, which the code reaches only by a later seek.                      *)
OnPrimaryEnded ==
    LET c == pane[Primary].active
    IN  /\ Rolling(Primary) /\ video[Primary].pos = Row[video[Primary].file].length
        /\ UNCHANGED timelines
        /\ IF Tracked(Primary) /\ HasNext(pane[Primary].chunks, EffectiveEnd(c))
           THEN SeekAll(pane, EffectiveEnd(c) + 1) /\ UNCHANGED playing
           ELSE playing' = FALSE /\ UNCHANGED <<pane, video, master, trusted, missed>>
        /\ UNCHANGED <<reverse, events>>

(* Inside the chunk that plays, the panes that show it are moved.          *)
MutantStepInside(c, t) ==
    /\ video' = [p \in Pane |-> IF pane[p].active = c THEN Moved(video[p], c, c, t) ELSE video[p]]
    /\ trusted' = FALSE
    /\ UNCHANGED <<pane, master, playing, missed>>
StepInside(c, t) ==
    /\ master' = t
    /\ video' = [p \in Pane |-> IF pane[p].active = c THEN Moved(video[p], c, c, t) ELSE video[p]]
    /\ trusted' = FALSE
    /\ UNCHANGED <<pane, playing, missed>>

(* The reverse stepper; it stops at the start of the window.               *)
ReverseTick ==
    LET t == master - 1
        c == ChunkContaining(pane[Primary].chunks, t)
    IN  /\ playing /\ reverse
        /\ UNCHANGED timelines
        /\ CASE t < center - Span ->
                    playing' = FALSE /\ UNCHANGED <<pane, video, master, trusted, missed>>
             [] t >= center - Span /\ c # NoChunk /\ c = pane[Primary].active -> StepInside(c, t)
             [] OTHER -> SeekAll(pane, t) /\ UNCHANGED playing
        /\ UNCHANGED <<reverse, events>>

-----------------------------------------------------------------------------
(* boot(): the panes of the sources asked for, from the first one on; the  *)
(* first list is asked for, and the seek finds none.                       *)
Boot == CHOOSE f \in Refresh : TRUE

Init ==
    /\ \E s \in [Pane -> Source \cup {NoSource}] :
          /\ s[Primary] # NoSource
          /\ \A p, q \in Pane : p < q /\ s[q] # NoSource => s[p] # NoSource
          /\ pane = [p \in Pane |-> [NoPane EXCEPT !.source = s[p]]]
          /\ refresh = [f \in Refresh |-> IF f = Boot
                THEN [pane |-> Primary, source |-> s[Primary], center |-> Opened,
                      alive |-> TRUE, seek |-> FALSE]
                ELSE NoRequest]
    /\ newest = Boot
    /\ video = [p \in Pane |-> NoVideo]
    /\ master = Opened /\ center = Opened
    /\ playing = FALSE /\ reverse = FALSE
    /\ clean = TRUE /\ trusted = FALSE /\ missed = FALSE
    /\ events = 0

Next ==
    \/ \E f \in Refresh : Answered(f) \/ ServerError(f) \/ Thrown(f) \/ Unreachable(f)
    \/ \E f \in Refresh, p \in Pane, s \in Source \cup {NoSource} : OnPaneSourceChanged(p, s, f)
    \/ \E f \in Refresh : Recenter(f) \/ \E t \in Instant : GoTo(t, f)
    \/ \E t \in Instant : Click(t)
    \/ \E b \in BOOLEAN : Play(b)
    \/ Pause
    \/ \E p \in Pane : LoadedMetadata(p) \/ Roll(p) \/ DriftCorrect(p)
    \/ TimeUpdate \/ OnPrimaryEnded \/ ReverseTick

Spec == Init /\ [][Next]_vars

(***************************************************************************)
(* The timer of the reverse stepper fires; nothing else is assumed to      *)
(* happen: requests may stay unanswered and files may never load.          *)
(***************************************************************************)
FairSpec == Spec /\ WF_vars(ReverseTick)

-----------------------------------------------------------------------------
(* Properties                                                              *)

(***************************************************************************)
(* Every variable has its type.                                            *)
(***************************************************************************)
Time == Int

TypeOK ==
    /\ pane \in [Pane -> [source : Source \cup {NoSource}, chunks : SUBSET Chunk,
                          active : Chunk \cup {NoChunk}]]
    /\ video \in [Pane -> [file : Chunk \cup {NoChunk}, pos : Nat, ready : BOOLEAN, seek : Nat]]
    /\ master \in Time /\ center \in Time
    /\ playing \in BOOLEAN /\ reverse \in BOOLEAN
    /\ refresh \in [Refresh -> [pane : Pane \cup {None}, source : Source \cup {NoSource},
                                center : Time, alive : BOOLEAN, seek : BOOLEAN]]
    /\ newest \in Refresh /\ clean \in BOOLEAN /\ trusted \in BOOLEAN /\ missed \in BOOLEAN
    /\ events \in 0..MaxEvents

\* The seek after a change of source is still to come, or its refresh failed
\* and no other seek has been made since.
SeekDue == missed \/ \E f \in Refresh : ~Done(f) /\ refresh[f].seek

(***************************************************************************)
(* The element of a pane plays the chunk the pane counts as playing, one   *)
(* of its own source, although answers for a source it showed before may   *)
(* still arrive.  It plays another file, that of the source before, only   *)
(* while the seek after a change of source is due: for good, if the        *)
(* refresh before it fails and nobody seeks.                               *)
(***************************************************************************)
PlaysOwn == \A p \in Pane :
    /\ pane[p].active # NoChunk => Row[pane[p].active].source = pane[p].source
    /\ video[p].file = pane[p].active \/ (pane[p].active = NoChunk /\ SeekDue)

(***************************************************************************)
(* When the refresh begun last has ended without failing or being          *)
(* overtaken, the lists are those of the sources and the window shown.     *)
(***************************************************************************)
ListsCurrent == clean /\ Done(newest) => \A p \in Pane : Shown(p) =>
    pane[p].chunks = Timeline(pane[p].source, center - Span, center + Span)

(***************************************************************************)
(* After a seek that saw such lists, and no file that was still loading,   *)
(* every pane comes to show the recording at the clock, or is blank        *)
(* because there is none.                                                  *)
(***************************************************************************)
SeekArrives == trusted => \A p \in Pane : Shown(p) =>
    LET c == Target(Timeline(pane[p].source, center - Span, center + Span), master)
    IN  /\ pane[p].active = c
        /\ c # NoChunk /\ video[p].ready => video[p].pos = Clamp(c, master - Row[c].start)

(***************************************************************************)
(* A video gets the bytes it asks for, be it the rest of its file from its *)
(* position on or the end of it (a byte is a unit of time): every range    *)
(* but one that is cut off by the end of the file.                         *)
(***************************************************************************)
RangeServed == \A p \in Pane : video[p].file # NoChunk =>
    LET total == Row[video[p].file].length
    IN  \A r \in RangeHeader : r.from \in {Absent, video[p].pos}
                              /\ (r.from = Absent \/ r.to < total)
            => Bytes(r, total) = Named(r, total)

(***************************************************************************)
(* Reverse playback reaches the start of the window and stops there, even  *)
(* if files load more slowly than it steps.                                *)
(***************************************************************************)
ReverseStops == (playing /\ reverse) ~> (~playing \/ ~reverse)
=============================================================================
