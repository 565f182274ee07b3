-------------------------- MODULE RetentionProofs ---------------------------
(***************************************************************************)
(* Theorems of Retention, for any number of chunks and of passes that run  *)
(* side by side, any settings and any number of failures: the type         *)
(* invariant; and, for the chunks that have their keys to themselves, that *)
(* retention implements the abstract store, that playback finds a chunk    *)
(* except between the delete of an object and the commit of the row, and   *)
(* that passes nobody disturbed leave no object orphaned.                  *)
(***************************************************************************)
EXTENDS Retention, TLAPS

PassState == [pc : PassPC, todo : SUBSET Chunk, days : CompressedDays \cup {0},
              chunk : Chunk \cup {NoChunk}, key : Key \cup {NoKey}, cache : [Chunk -> Row]]

\* The chunk has been uploaded; it may be gone since.
Past(c)    == rows[c].state \in {"uploaded", "deleted"}
Version(c) == CompressedKey(RawKey(c))

\* A row names no keys but those of its chunk.
OwnRow(c, row) == row.raw \in {NoKey, RawKey(c)} /\ row.ckey \in {NoKey, Version(c)}

\* What a pass has in hand and in its cache concerns chunks once uploaded, under keys of theirs.
Sound(r) ==
    /\ \A c \in r.todo : Past(c)
    /\ \A c \in Chunk : OwnRow(c, r.cache[c]) /\ (r.cache[c].raw # NoKey => Past(c))
    /\ r.pc \in {"download", "convert", "drop", "commit"} =>
          r.chunk \in Chunk /\ Past(r.chunk) /\ r.key = RawKey(r.chunk)
    /\ r.pc \in {"erase", "forget"} => r.chunk \in doomed
    /\ r.pc = "erase" => r.key \in {RawKey(r.chunk), Version(r.chunk)}

RowInv(c) ==
    /\ OwnRow(c, rows[c])
    /\ rows[c].state = "uploaded" => /\ rows[c].compressed <=> rows[c].ckey # NoKey
                                     /\ rows[c].compressed <=> rows[c].raw = NoKey
    /\ rows[c].state # "uploaded" => rows[c].raw = NoKey /\ rows[c].ckey = NoKey /\ ~rows[c].compressed

Rows   == rows \in [Chunk -> Row] /\ \A c \in Chunk : RowInv(c)
Doom   == /\ doomed \subseteq Chunk /\ \A c \in doomed : Past(c)
          /\ \A c \in Chunk : rows[c].state = "deleted" => c \in doomed
Passes == pass \in [Pass -> PassState] /\ \A p \in Pass : Sound(pass[p])

Walk == Rows /\ Doom /\ Passes

-----------------------------------------------------------------------------
(* Keys and records                                                        *)

(***************************************************************************)
(* The keys of a chunk are keys, and NoKey is none.                        *)
(***************************************************************************)
LEMMA KeyType ==
  \A c \in Chunk : /\ RawKey(c) \in Key /\ Version(c) \in Key
                   /\ RawKey(c) # NoKey /\ Version(c) # NoKey
<1> SUFFICES ASSUME NEW c \in Chunk
             PROVE  RawKey(c) \in Key /\ Version(c) \in Key
  BY NullAssumption
<1>1. StemOf[c] \in Stem /\ TierOf[c] \in Tier
  BY TierAssumption DEF Stem
<1> QED BY <1>1 DEF RawKey, Version, CompressedKey, Key, Tier

LEMMA IdleType == Idle \in PassState /\ Sound(Idle)
BY DEF Idle, PassState, PassPC, NoRow, Row, Sound, OwnRow

(***************************************************************************)
(* What the session loads is what its cache has or the row.                *)
(***************************************************************************)
LEMMA FillType ==
  ASSUME Walk, NEW p \in Pass, NEW S
  PROVE  /\ Fill(p, S) \in [Chunk -> Row]
         /\ \A c \in Chunk : /\ OwnRow(c, Fill(p, S)[c])
                             /\ Fill(p, S)[c].raw # NoKey => Past(c)
<1> DEFINE filled == Fill(p, S)
<1>1. pass[p] \in PassState /\ Sound(pass[p])
  BY DEF Walk, Passes
<1>2. filled = [c \in Chunk |-> IF c \in S /\ ~Loaded(p, c) THEN rows[c] ELSE pass[p].cache[c]]
  BY DEF Fill
<1>3. pass[p].cache \in [Chunk -> Row]
  BY <1>1 DEF PassState
<1>4. ASSUME NEW c \in Chunk
      PROVE  /\ filled[c] \in Row /\ OwnRow(c, filled[c])
             /\ filled[c].raw # NoKey => Past(c)
  <2>1. filled[c] = rows[c] \/ filled[c] = pass[p].cache[c]
    BY <1>2
  <2>2. rows[c] \in Row /\ OwnRow(c, rows[c]) /\ (rows[c].raw # NoKey => Past(c))
    BY DEF Walk, Rows, RowInv, Past
  <2>3. /\ pass[p].cache[c] \in Row /\ OwnRow(c, pass[p].cache[c])
        /\ pass[p].cache[c].raw # NoKey => Past(c)
    BY <1>1, <1>3 DEF Sound
  <2> HIDE DEF filled
  <2> QED BY <2>1, <2>2, <2>3
<1>5. filled \in [Chunk -> Row]
  <2>1. \A c \in Chunk : filled[c] \in Row
    BY <1>4
  <2> HIDE DEF filled
  <2> QED BY <1>2, <2>1
<1> QED BY <1>4, <1>5

(***************************************************************************)
(* What is sound stays so while rows only advance and chunks get doomed.   *)
(***************************************************************************)
LEMMA SoundStays ==
  ASSUME NEW r, Sound(r), \A c \in Chunk : Past(c) => Past(c)', doomed \subseteq doomed',
         r \in PassState
  PROVE  Sound(r)'
BY DEF Sound, PassState

(***************************************************************************)
(* A step of one pass that leaves it sound leaves all sound.               *)
(***************************************************************************)
LEMMA OnePass ==
  ASSUME Walk, NEW p \in Pass, NEW r \in PassState, Become(p, r), Sound(r)',
         \A c \in Chunk : Past(c) => Past(c)', doomed \subseteq doomed'
  PROVE  Passes'
<1>1. pass' = [pass EXCEPT ![p] = r] /\ pass \in [Pass -> PassState]
  BY DEF Become, Walk, Passes
<1>2. pass' \in [Pass -> PassState]
  BY <1>1
<1>3. ASSUME NEW q \in Pass PROVE Sound(pass[q])'
  <2>1. CASE q = p
    <3>1. pass'[q] = r
      BY <1>1, <2>1
    <3> QED BY <3>1 DEF Sound, Past, OwnRow
  <2>2. CASE q # p
    <3>1. pass'[q] = pass[q] /\ pass[q] \in PassState /\ Sound(pass[q])
      BY <1>1, <2>2 DEF Walk, Passes
    <3> QED BY <3>1, SoundStays DEF Sound, Past, OwnRow
  <2> QED BY <2>1, <2>2
<1> QED BY <1>2, <1>3 DEF Passes

(***************************************************************************)
(* The same if rows and chunks on the way out stay as they are.            *)
(***************************************************************************)
LEMMA OnlyPass ==
  ASSUME Walk, NEW p \in Pass, NEW r \in PassState, Become(p, r), Sound(r),
         UNCHANGED <<rows, doomed>>
  PROVE  Walk'
<1>1. Sound(r)'
  BY DEF Sound, Past, OwnRow
<1>2. Passes'
  BY <1>1, OnePass DEF Past
<1> QED BY <1>2 DEF Walk, Rows, RowInv, Doom, Past

-----------------------------------------------------------------------------
(* The world around a pass                                                 *)

(***************************************************************************)
(* A chunk is captured or uploaded; no pass moves.                         *)
(***************************************************************************)
LEMMA RowMoves ==
  ASSUME Walk, NEW c \in Chunk, NEW r \in Row, rows' = [rows EXCEPT ![c] = r],
         OwnRow(c, r), RowInv(c)', Past(c) => Past(c)', r.state # "deleted",
         UNCHANGED <<pass, doomed>>
  PROVE  Walk'
<1>1. \A d \in Chunk : rows'[d] = IF d = c THEN r ELSE rows[d]
  BY DEF Walk, Rows
<1>2. \A d \in Chunk : Past(d) => Past(d)'
  BY <1>1 DEF Past
<1>3. Rows'
  BY <1>1 DEF Walk, Rows, RowInv, OwnRow
<1>4. Doom'
  BY <1>1, <1>2 DEF Walk, Doom
<1>5. Passes'
  <2>1. ASSUME NEW p \in Pass PROVE Sound(pass[p])'
    <3>1. pass'[p] = pass[p] /\ pass[p] \in PassState /\ Sound(pass[p])
      BY DEF Walk, Passes
    <3> QED BY <1>2, <3>1, SoundStays DEF Sound, Past, OwnRow
  <2> QED BY <2>1 DEF Walk, Passes
<1> QED BY <1>3, <1>4, <1>5 DEF Walk

LEMMA CaptureWalk == ASSUME Walk, NEW c \in Chunk, Capture(c) PROVE Walk'
<1>1. rows[c] \in Row /\ RowInv(c) /\ rows[c].state = "absent"
  BY DEF Walk, Rows, Capture
<1> DEFINE r == [rows[c] EXCEPT !.state = "buffered"]
<1>2. /\ r \in Row /\ r.state = "buffered" /\ r.raw = rows[c].raw
      /\ r.compressed = rows[c].compressed /\ r.ckey = rows[c].ckey
  BY <1>1 DEF Row
<1>3. rows' = [rows EXCEPT ![c] = r] /\ UNCHANGED <<pass, doomed>>
  BY DEF Capture
<1> HIDE DEF r
<1>4. rows'[c] = r
  BY <1>3 DEF Walk, Rows
<1>5. OwnRow(c, r) /\ RowInv(c)' /\ (Past(c) => Past(c)')
  BY <1>1, <1>2, <1>4 DEF RowInv, OwnRow, Past
<1> QED BY <1>2, <1>3, <1>5, RowMoves

LEMMA UploadWalk == ASSUME Walk, NEW c \in Chunk, Upload(c) PROVE Walk'
<1>1. rows[c] \in Row /\ RowInv(c) /\ rows[c].state = "buffered"
  BY DEF Walk, Rows, Upload
<1> DEFINE r == [rows[c] EXCEPT !.state = "uploaded", !.raw = RawKey(c)]
<1>2. /\ r \in Row /\ r.state = "uploaded" /\ r.raw = RawKey(c)
      /\ r.compressed = rows[c].compressed /\ r.ckey = rows[c].ckey
  BY <1>1, KeyType DEF Row
<1>3. rows' = [rows EXCEPT ![c] = r] /\ UNCHANGED <<pass, doomed>>
  BY DEF Upload
<1> HIDE DEF r
<1>4. rows'[c] = r
  BY <1>3 DEF Walk, Rows
<1>5. OwnRow(c, r) /\ RowInv(c)' /\ (Past(c) => Past(c)')
  BY <1>1, <1>2, <1>4, KeyType DEF RowInv, OwnRow, Past
<1> QED BY <1>2, <1>3, <1>5, RowMoves

-----------------------------------------------------------------------------
(* Steps of a pass that touch no row                                       *)

LEMMA StartWalk ==
  ASSUME Walk, NEW p \in Pass, Start(p), settings.compressed \in CompressedDays PROVE Walk'
<1> DEFINE candidates == {c \in Overdue(settings.raw) :
              rows[c].state = "uploaded" /\ ~rows[c].compressed /\ rows[c].raw # NoKey}
           cache == Fill(p, candidates)
           r == [Idle EXCEPT !.pc = "compress", !.todo = candidates, !.days = settings.compressed,
                             !.cache = cache]
<1>1. Become(p, r) /\ UNCHANGED <<rows, doomed>>
  BY DEF Start
<1>2. candidates \subseteq Chunk /\ \A c \in candidates : Past(c)
  BY DEF Overdue, Past
<1>3. cache \in [Chunk -> Row]
      /\ \A c \in Chunk : OwnRow(c, cache[c]) /\ (cache[c].raw # NoKey => Past(c))
  <2> HIDE DEF candidates
  <2> QED BY FillType
<1> HIDE DEF candidates, cache
<1>4. r \in PassState /\ Sound(r)
  BY <1>2, <1>3 DEF Idle, PassState, PassPC, Sound
<1> HIDE DEF r
<1> QED BY <1>1, <1>4, OnlyPass

(***************************************************************************)
(* The pass leaves, or goes on with the next chunk, whatever failed.       *)
(***************************************************************************)
LEMMA Resumes ==
  ASSUME Walk, NEW p \in Pass
  PROVE  /\ NextChunk(p) \in PassState /\ Sound(NextChunk(p))
         /\ NextExpired(p) \in PassState /\ Sound(NextExpired(p))
         /\ Idle \in PassState /\ Sound(Idle)
<1>1. pass[p] \in PassState /\ Sound(pass[p])
  BY DEF Walk, Passes
<1>2. NextChunk(p) \in PassState /\ Sound(NextChunk(p))
  BY <1>1 DEF NextChunk, PassState, PassPC, Sound
<1>3. NextExpired(p) \in PassState /\ Sound(NextExpired(p))
  BY <1>1 DEF NextExpired, PassState, PassPC, Sound
<1> QED BY <1>2, <1>3, IdleType

LEMMA GoesOn ==
  ASSUME Walk, NEW p \in Pass, UNCHANGED <<rows, doomed>>,
         Become(p, NextChunk(p)) \/ Become(p, NextExpired(p)) \/ Leave(p)
  PROVE  Walk'
BY Resumes, OnlyPass DEF Leave

(***************************************************************************)
(* The pass takes its next step with the chunk it has in hand.             *)
(***************************************************************************)
LEMMA Proceeds ==
  ASSUME Walk, NEW p \in Pass, NEW pc \in PassPC, UNCHANGED <<rows, doomed>>,
         Become(p, [pass[p] EXCEPT !.pc = pc]),
         pc \in {"convert", "drop", "commit"} =>
             pass[p].pc \in {"download", "convert", "drop", "commit"},
         pc = "forget" => pass[p].pc = "erase",
         pc \notin {"download", "erase"}
  PROVE  Walk'
<1> DEFINE r == [pass[p] EXCEPT !.pc = pc]
<1>1. pass[p] \in PassState /\ Sound(pass[p])
  BY DEF Walk, Passes
<1>2. /\ r \in PassState /\ r.pc = pc /\ r.todo = pass[p].todo /\ r.chunk = pass[p].chunk
      /\ r.key = pass[p].key /\ r.cache = pass[p].cache
  BY <1>1 DEF PassState
<1>3. Become(p, r)
  OBVIOUS
<1> HIDE DEF r
<1>4. Sound(r)
  BY <1>1, <1>2 DEF Sound
<1> QED BY <1>2, <1>3, <1>4, OnlyPass

(***************************************************************************)
(* A chunk to compress is picked.                                          *)
(***************************************************************************)
LEMMA PickWalk ==
  ASSUME Walk, NEW p \in Pass, NEW c \in Chunk, Pick(p, c) PROVE Walk'
<1> DEFINE cache == Fill(p, {c})
           k     == Seen(p, c).raw
           next  == [NextChunk(p) EXCEPT !.todo = @ \ {c}, !.cache = cache]
           r     == [next EXCEPT !.pc = "download", !.chunk = c, !.key = k]
<1>1. UNCHANGED <<rows, doomed>> /\ c \in pass[p].todo
      /\ \/ Leave(p)
         \/ k # NoKey /\ Become(p, r)
         \/ k = NoKey /\ Become(p, next)
  BY DEF Pick
<1>2. cache \in [Chunk -> Row]
      /\ \A d \in Chunk : OwnRow(d, cache[d]) /\ (cache[d].raw # NoKey => Past(d))
  BY FillType
<1>3. k = cache[c].raw
  BY DEF Seen
<1>4. k \in {NoKey, RawKey(c)} /\ k \in Key \cup {NoKey} /\ (k # NoKey => Past(c))
  BY <1>2, <1>3, KeyType DEF OwnRow
<1> HIDE DEF cache, k
<1>5. NextChunk(p) \in PassState /\ Sound(NextChunk(p)) /\ NextChunk(p).pc = "compress"
  BY Resumes DEF NextChunk, Walk, Passes, PassState
<1>6. next \in PassState /\ Sound(next) /\ next.pc = "compress" 
  BY <1>2, <1>5 DEF PassState, Sound
<1> HIDE DEF next
<1>7. k # NoKey => r \in PassState /\ Sound(r)
  BY <1>4, <1>6 DEF PassState, PassPC, Sound
<1> HIDE DEF r
<1> QED BY <1>1, <1>6, <1>7, OnlyPass, GoesOn

LEMMA QueryWalk == ASSUME Walk, NEW p \in Pass, QueryExpired(p) PROVE Walk'
<1> DEFINE expired == {c \in Overdue(pass[p].days) : rows[c].compressed}
           cache   == Fill(p, expired)
           r       == [pass[p] EXCEPT !.pc = "expire", !.todo = expired, !.cache = cache]
<1>1. Become(p, r) /\ UNCHANGED <<rows, doomed>>
  BY DEF QueryExpired
<1>2. expired \subseteq Chunk /\ \A c \in expired : Past(c)
  BY DEF Overdue, Past, Walk, Rows, RowInv
<1>3. cache \in [Chunk -> Row]
      /\ \A c \in Chunk : OwnRow(c, cache[c]) /\ (cache[c].raw # NoKey => Past(c))
  <2> HIDE DEF expired
  <2> QED BY FillType
<1>4. pass[p] \in PassState
  BY DEF Walk, Passes
<1> HIDE DEF expired, cache
<1>5. r \in PassState /\ Sound(r)
  BY <1>2, <1>3, <1>4 DEF PassState, PassPC, Sound
<1> HIDE DEF r
<1> QED BY <1>1, <1>5, OnlyPass

-----------------------------------------------------------------------------
(* Steps of a pass that change a row or doom a chunk                       *)

(***************************************************************************)
(* A chunk to expire is picked; from then on it is doomed.                 *)
(***************************************************************************)
LEMMA PickExpiredWalk ==
  ASSUME Walk, NEW p \in Pass, NEW c \in Chunk, PickExpired(p, c) PROVE Walk'
<1>1. CASE Leave(p) /\ UNCHANGED <<rows, doomed>>
  BY <1>1, GoesOn
<1>2. CASE ~(Leave(p) /\ UNCHANGED <<rows, doomed>>)
  <2> DEFINE cache == Fill(p, {c})
             k     == ExpiredKey(Seen(p, c))
             pc    == IF k = NoKey THEN "forget" ELSE "erase"
             r     == [pass[p] EXCEPT !.pc = pc, !.todo = @ \ {c}, !.chunk = c, !.key = k,
                                      !.cache = cache]
  <2>1. Become(p, r) /\ doomed' = doomed \cup {c} /\ UNCHANGED rows /\ c \in pass[p].todo
    BY <1>2 DEF PickExpired
  <2>2. cache \in [Chunk -> Row]
        /\ \A d \in Chunk : OwnRow(d, cache[d]) /\ (cache[d].raw # NoKey => Past(d))
    BY FillType
  <2>3. Seen(p, c) = cache[c]
    BY DEF Seen
  <2>4. k \in {NoKey, RawKey(c), Version(c)} /\ k \in Key \cup {NoKey}
    BY <2>2, <2>3, KeyType DEF ExpiredKey, OwnRow
  <2>5. pc \in {"forget", "erase"} /\ (pc = "erase" => k # NoKey)
    OBVIOUS
  <2>6. pass[p] \in PassState /\ Sound(pass[p]) /\ Past(c)
    BY <2>1 DEF Walk, Passes, Sound
  <2> HIDE DEF cache, k, pc
  <2>7. /\ r \in PassState /\ r.pc = pc /\ r.todo = pass[p].todo \ {c} /\ r.chunk = c
        /\ r.key = k /\ r.cache = cache
    BY <2>2, <2>4, <2>5, <2>6 DEF PassState, PassPC
  <2> HIDE DEF r
  <2>8. PICK s \in PassState : s = r
    BY <2>7
  <2>9. \A d \in Chunk : Past(d) <=> Past(d)'
    BY <2>1 DEF Past
  <2>10. Sound(s)'
    BY <2>1, <2>2, <2>4, <2>5, <2>6, <2>7, <2>8, <2>9 DEF Sound, OwnRow, PassState
  <2>11. Passes'
    BY <2>1, <2>8, <2>9, <2>10, OnePass
  <2> QED BY <2>1, <2>6, <2>9, <2>11 DEF Walk, Rows, RowInv, Doom
<1> QED BY <1>1, <1>2

(***************************************************************************)
(* A step that writes one row of an uploaded chunk and lets a pass go on   *)
(* with an empty cache.                                                    *)
(***************************************************************************)
LEMMA RowWritten ==
  ASSUME Walk, NEW p \in Pass, NEW c \in Chunk, NEW r \in Row, Past(c), UNCHANGED doomed,
         rows' = [rows EXCEPT ![c] = r], r.state \in {"uploaded", "deleted"},
         r.state = "deleted" => c \in doomed, RowInv(c)',
         \/ Become(p, [NextChunk(p) EXCEPT !.cache = Expired])
         \/ Become(p, [NextExpired(p) EXCEPT !.cache = Expired])
  PROVE  Walk'
<1>1. \A d \in Chunk : rows'[d] = IF d = c THEN r ELSE rows[d]
  BY DEF Walk, Rows
<1>2. \A d \in Chunk : Past(d) <=> Past(d)'
  BY <1>1 DEF Past
<1>3. Rows'
  BY <1>1 DEF Walk, Rows, RowInv, OwnRow
<1>4. Doom'
  BY <1>1, <1>2 DEF Walk, Doom
<1>5. Expired \in [Chunk -> Row] /\ \A d \in Chunk : Expired[d] = NoRow
  BY DEF Expired, NoRow, Row
<1>6. \A s \in {NextChunk(p), NextExpired(p)} :
        s \in PassState /\ s.pc \in {"compress", "expire"} /\ \A d \in s.todo : Past(d)
  <2>1. pass[p] \in PassState /\ Sound(pass[p])
    BY DEF Walk, Passes
  <2> QED BY <2>1 DEF NextChunk, NextExpired, PassState, PassPC, Sound
<1>7. PICK s \in {NextChunk(p), NextExpired(p)} : Become(p, [s EXCEPT !.cache = Expired])
  OBVIOUS
<1>8. PICK q \in PassState : /\ q = [s EXCEPT !.cache = Expired]
                             /\ q.pc \in {"compress", "expire"} /\ q.todo = s.todo
                             /\ q.cache = Expired
  BY <1>5, <1>6 DEF PassState
<1>9. Sound(q)'
  BY <1>2, <1>5, <1>6, <1>8 DEF Sound, OwnRow, NoRow, PassState
<1>10. Passes'
  BY <1>2, <1>7, <1>8, <1>9, OnePass
<1> QED BY <1>3, <1>4, <1>10 DEF Walk

(***************************************************************************)
(* The compressed version goes on record.                                  *)
(***************************************************************************)
LEMMA CommitWalk == ASSUME Walk, NEW p \in Pass, CommitCompressed(p) PROVE Walk'
<1>1. CASE Leave(p) /\ UNCHANGED <<rows, doomed>>
  BY <1>1, GoesOn
<1>2. CASE ~(Leave(p) /\ UNCHANGED <<rows, doomed>>)
  <2>1. /\ Exists(pass[p].chunk) /\ UNCHANGED doomed /\ pass[p].pc = "commit"
        /\ rows' = [rows EXCEPT ![pass[p].chunk] = CompressedRow(@, CompressedKey(pass[p].key))]
        /\ Become(p, [NextChunk(p) EXCEPT !.cache = Expired])
    BY <1>2 DEF CommitCompressed
  <2>2. PICK c \in Chunk : /\ c = pass[p].chunk /\ Past(c) /\ rows[c] \in Row /\ RowInv(c)
                           /\ CompressedKey(pass[p].key) = Version(c)
    BY <2>1 DEF Walk, Rows, Passes, Sound, Version
  <2>3. rows[c].state = "uploaded"
    BY <2>1, <2>2 DEF Exists, Past
  <2>4. Version(c) \in Key /\ Version(c) # NoKey
    BY KeyType
  <2>5. PICK r \in Row : /\ r = CompressedRow(rows[c], Version(c))
                         /\ r.state = "uploaded" /\ r.raw = NoKey /\ r.ckey = Version(c)
                         /\ r.compressed
    <3> DEFINE written == CompressedRow(rows[c], Version(c))
    <3>1. /\ written \in Row /\ written.state = "uploaded" /\ written.raw = NoKey
          /\ written.ckey = Version(c) /\ written.compressed
      BY <2>2, <2>3, <2>4 DEF CompressedRow, Row
    <3> HIDE DEF written
    <3> QED BY <3>1 DEF written
  <2>6. rows' = [rows EXCEPT ![c] = r]
    BY <2>1, <2>2, <2>5
  <2>7. rows'[c] = r
    BY <2>6 DEF Walk, Rows
  <2>8. RowInv(c)'
    BY <2>4, <2>5, <2>7 DEF RowInv, OwnRow, Version
  <2> QED BY <2>1, <2>2, <2>5, <2>6, <2>8, RowWritten
<1> QED BY <1>1, <1>2

(***************************************************************************)
(* The row of an expired chunk goes away.                                  *)
(***************************************************************************)
LEMMA ForgetWalk == ASSUME Walk, NEW p \in Pass, ForgetRow(p) PROVE Walk'
<1>1. /\ UNCHANGED doomed /\ pass[p].pc = "forget"
      /\ rows' = [rows EXCEPT ![pass[p].chunk] = [NoRow EXCEPT !.state = "deleted"]]
      /\ Become(p, [NextExpired(p) EXCEPT !.cache = Expired])
  BY DEF ForgetRow
<1>2. PICK c \in Chunk : c = pass[p].chunk /\ c \in doomed /\ Past(c)
  BY <1>1 DEF Walk, Passes, Sound, Doom
<1>3. PICK r \in Row : /\ r = [NoRow EXCEPT !.state = "deleted"]
                       /\ r.state = "deleted" /\ r.raw = NoKey /\ r.ckey = NoKey /\ ~r.compressed
  <2> DEFINE written == [NoRow EXCEPT !.state = "deleted"]
  <2>1. /\ written \in Row /\ written.state = "deleted" /\ written.raw = NoKey
        /\ written.ckey = NoKey /\ ~written.compressed
    BY DEF NoRow, Row
  <2> HIDE DEF written
  <2> QED BY <2>1 DEF written
<1>4. rows' = [rows EXCEPT ![c] = r]
  BY <1>1, <1>2, <1>3
<1>5. rows'[c] = r
  BY <1>4 DEF Walk, Rows
<1>6. RowInv(c)'
  BY <1>3, <1>5 DEF RowInv, OwnRow
<1> QED BY <1>1, <1>2, <1>3, <1>4, <1>6, RowWritten

-----------------------------------------------------------------------------
(* The walk of the passes, in every step                                   *)

LEMMA WalkInit == ASSUME Init PROVE Walk
<1>1. rows \in [Chunk -> Row] /\ \A c \in Chunk : rows[c] = NoRow
  BY DEF Init, NoRow, Row
<1>2. pass \in [Pass -> PassState] /\ \A p \in Pass : pass[p] = Idle
  BY IdleType DEF Init
<1>3. doomed = {}
  BY DEF Init
<1>4. Rows
  BY <1>1 DEF Rows, RowInv, OwnRow, NoRow
<1>5. Doom
  BY <1>1, <1>3 DEF Doom, NoRow
<1>6. Passes
  BY <1>2, IdleType DEF Passes
<1> QED BY <1>4, <1>5, <1>6 DEF Walk

LEMMA WalkStep ==
  ASSUME Walk, [Next]_vars, settings.compressed \in CompressedDays PROVE Walk'
<1>1. CASE UNCHANGED <<rows, pass, doomed>>
  BY <1>1 DEF Walk, Rows, RowInv, Doom, Passes, Sound, Past, OwnRow
<1>2. ASSUME NEW c \in Chunk, Capture(c) \/ Upload(c) \/ Age(c) PROVE Walk'
  BY <1>1, <1>2, CaptureWalk, UploadWalk DEF Age
<1>3. CASE UpdatePolicy
  BY <1>1, <1>3 DEF UpdatePolicy
<1>4. CASE Restart
  <2>1. UNCHANGED <<rows, doomed>> /\ pass' = [p \in Pass |-> Idle]
    BY <1>4 DEF Restart
  <2>2. pass' \in [Pass -> PassState] /\ \A p \in Pass : pass'[p] = Idle
    BY <2>1, IdleType
  <2>3. \A p \in Pass : Sound(pass[p])'
    BY <2>1, <2>2, IdleType DEF Sound, Past, OwnRow
  <2> QED BY <2>1, <2>2, <2>3 DEF Walk, Rows, RowInv, Doom, Passes, Past
<1>5. ASSUME NEW p \in Pass, NEW c \in Chunk, Pick(p, c) \/ PickExpired(p, c) PROVE Walk'
  BY <1>5, PickWalk, PickExpiredWalk
<1>6. ASSUME NEW p \in Pass, Start(p) \/ QueryExpired(p) \/ CommitCompressed(p) \/ ForgetRow(p)
      PROVE  Walk'
  BY <1>6, StartWalk, QueryWalk, CommitWalk, ForgetWalk
<1>7. ASSUME NEW p \in Pass, CompressDone(p) PROVE Walk'
  <2>1. UNCHANGED <<rows, doomed>>
        /\ (Leave(p) \/ Become(p, [pass[p] EXCEPT !.pc = "query"]))
    BY <1>7 DEF CompressDone
  <2>2. "query" \in PassPC
    BY DEF PassPC
  <2> QED BY <2>1, <2>2, GoesOn, Proceeds
<1>8. ASSUME NEW p \in Pass,
             \/ ExpireDone(p) \/ DownloadFails(p) \/ CommitFails(p)
             \/ UploadFails(p)
      PROVE  Walk'
  <2>1. UNCHANGED <<rows, doomed>> /\ (Become(p, NextChunk(p)) \/ Leave(p))
    BY <1>8 DEF ExpireDone, DownloadFails, CommitFails, UploadFails, OnUploadError
  <2> QED BY <2>1, GoesOn
<1>9. ASSUME NEW p \in Pass, Download(p) PROVE Walk'
  <2>1. UNCHANGED <<rows, doomed>> /\ pass[p].pc = "download"
        /\ (Become(p, NextChunk(p)) \/ Become(p, [pass[p] EXCEPT !.pc = "convert"]))
    BY <1>9 DEF Download
  <2>2. "convert" \in PassPC
    BY DEF PassPC
  <2> QED BY <2>1, <2>2, GoesOn, Proceeds
<1>10. ASSUME NEW p \in Pass, UploadCompressed(p) PROVE Walk'
  <2>1. UNCHANGED <<rows, doomed>> /\ pass[p].pc = "convert"
        /\ Become(p, [pass[p] EXCEPT !.pc = "drop"])
    BY <1>10 DEF UploadCompressed
  <2>2. "drop" \in PassPC
    BY DEF PassPC
  <2> QED BY <2>1, <2>2, Proceeds
<1>11. ASSUME NEW p \in Pass, DropOriginal(p) PROVE Walk'
  <2>1. UNCHANGED <<rows, doomed>> /\ pass[p].pc = "drop"
        /\ Become(p, [pass[p] EXCEPT !.pc = "commit"])
    BY <1>11 DEF DropOriginal
  <2>2. "commit" \in PassPC
    BY DEF PassPC
  <2> QED BY <2>1, <2>2, Proceeds
<1>12. ASSUME NEW p \in Pass, EraseObject(p) PROVE Walk'
  <2>1. UNCHANGED <<rows, doomed>> /\ pass[p].pc = "erase"
        /\ Become(p, [pass[p] EXCEPT !.pc = "forget"])
    BY <1>12 DEF EraseObject
  <2>2. "forget" \in PassPC
    BY DEF PassPC
  <2> QED BY <2>1, <2>2, Proceeds
<1> QED BY <1>1, <1>2, <1>3, <1>4, <1>5, <1>6, <1>7, <1>8, <1>9, <1>10, <1>11, <1>12
        DEF Next, PassStep, Run, vars

-----------------------------------------------------------------------------
(* Types                                                                   *)

Numbers == /\ age \in [Chunk -> 0..MaxAge]
           /\ settings \in [raw : RawDays, compressed : CompressedDays]
           /\ updates \in 0..MaxUpdates /\ s3Faults \in 0..MaxS3Faults
           /\ breaks \in 0..MaxBreaks /\ disturbed \in BOOLEAN
Bucket  == s3 \in [Key -> Chunk \cup {NoChunk}] /\ broken \subseteq Chunk

LEMMA NumbersInit == ASSUME Init PROVE Numbers
<1>1. age = [c \in Chunk |-> 0] /\ settings = Env
      /\ updates = 0 /\ s3Faults = 0 /\ breaks = 0 /\ disturbed \in BOOLEAN
  BY DEF Init
<1> QED BY <1>1, BoundAssumption, DaysAssumption DEF Numbers

LEMMA NumbersStep == ASSUME Numbers, [Next]_vars PROVE Numbers'
<1>1. age' \in [Chunk -> 0..MaxAge]
  <2>1. age' = age \/ \E c \in Chunk : age[c] < MaxAge /\ age' = [age EXCEPT ![c] = @ + 1]
    BY ZenonT(60) DEF Next, PassStep, Run, vars, budgets, Capture, Upload, Age, UpdatePolicy, Restart, Start,
           Pick, CompressDone, Download, DownloadFails, UploadCompressed, UploadFails,
           DropOriginal, CommitCompressed, QueryExpired, PickExpired, EraseObject, ForgetRow,
           ExpireDone, CommitFails
  <2> QED BY <2>1, BoundAssumption DEF Numbers
<1>2. settings' \in [raw : RawDays, compressed : CompressedDays]
  <2>1. settings' = settings \/ settings' \in [raw : RawDays, compressed : CompressedDays]
    BY ZenonT(60) DEF Next, PassStep, Run, vars, budgets, Capture, Upload, Age, UpdatePolicy, Restart, Start,
           Pick, CompressDone, Download, DownloadFails, UploadCompressed, UploadFails,
           DropOriginal, CommitCompressed, QueryExpired, PickExpired, EraseObject, ForgetRow,
           ExpireDone, CommitFails
  <2> QED BY <2>1 DEF Numbers
<1> DEFINE Bounded == /\ updates' = updates \/ (updates < MaxUpdates /\ updates' = updates + 1)
                      /\ s3Faults' = s3Faults \/ (s3Faults < MaxS3Faults /\ s3Faults' = s3Faults + 1)
                      /\ breaks' = breaks \/ (breaks < MaxBreaks /\ breaks' = breaks + 1)
<1>3. Bounded
  <2>1. CASE UNCHANGED <<updates, s3Faults, breaks>>
    BY <2>1
  <2>2. CASE UpdatePolicy \/ Restart
    BY <2>2 DEF UpdatePolicy, Restart, Break
  <2>3. ASSUME NEW p \in Pass,
               \/ DropOriginal(p) \/ EraseObject(p) \/ DownloadFails(p) \/ UploadFails(p)
               \/ CommitFails(p)
        PROVE  Bounded
    BY <2>3 DEF DropOriginal, EraseObject, DownloadFails, UploadFails, CommitFails, Delete,
                S3Fault, Break
  <2>4. \/ UNCHANGED <<updates, s3Faults, breaks>>
        \/ UpdatePolicy \/ Restart
        \/ \E p \in Pass : \/ DropOriginal(p) \/ EraseObject(p) \/ DownloadFails(p)
                           \/ UploadFails(p) \/ CommitFails(p)
    BY ZenonT(60) DEF Next, PassStep, Run, vars, budgets, Capture, Upload, Age, Start, Pick, CompressDone,
           Download, UploadCompressed, CommitCompressed, QueryExpired, PickExpired, ForgetRow,
           ExpireDone
  <2> QED BY <2>1, <2>2, <2>3, <2>4
<1>4. updates' \in 0..MaxUpdates /\ s3Faults' \in 0..MaxS3Faults /\ breaks' \in 0..MaxBreaks
  BY <1>3, BoundAssumption DEF Numbers
<1>5. disturbed' \in BOOLEAN
  <2>1. \/ disturbed' = disturbed
        \/ Restart \/ \E p \in Pass : Start(p) \/ CommitFails(p)
    BY ZenonT(60) DEF Next, PassStep, Run, vars, budgets, Capture, Upload, Age, UpdatePolicy,
           Pick, CompressDone, Download, DownloadFails, UploadCompressed, UploadFails,
           DropOriginal, CommitCompressed, QueryExpired, PickExpired, EraseObject, ForgetRow,
           ExpireDone
  <2>2. (disturbed \/ ~Quiet) \in BOOLEAN
    OBVIOUS
  <2>3. CASE Restart
    <3>1. disturbed' = (disturbed \/ ~Quiet)
      BY <2>3, Zenon DEF Restart
    <3> QED BY <2>2, <3>1, Zenon
  <2>4. ASSUME NEW p \in Pass, Start(p) PROVE disturbed' \in BOOLEAN
    <3>1. disturbed' = (disturbed \/ ~Quiet)
      BY <2>4, Zenon DEF Start
    <3> QED BY <2>2, <3>1, Zenon
  <2>5. ASSUME NEW p \in Pass, CommitFails(p) PROVE disturbed' \in BOOLEAN
    BY <2>5, Zenon DEF CommitFails
  <2> QED BY <2>1, <2>3, <2>4, <2>5, Zenon DEF Numbers
<1> QED BY <1>1, <1>2, <1>4, <1>5, Zenon DEF Numbers

(***************************************************************************)
(* What a step does to the bucket: nothing, or one object comes or goes.   *)
(***************************************************************************)
LEMMA BucketMoves ==
  ASSUME Walk, [Next]_vars
  PROVE  \/ s3' = s3
         \/ \E d \in Chunk : Upload(d) /\ s3' = [s3 EXCEPT ![RawKey(d)] = d]
         \/ \E p \in Pass : /\ UploadCompressed(p) \/ UploadFails(p)
                            /\ pass[p].chunk \in Chunk
                            /\ s3' = [s3 EXCEPT ![Version(pass[p].chunk)] = pass[p].chunk]
         \/ \E p \in Pass : /\ DropOriginal(p) /\ pass[p].chunk \in Chunk
                            /\ s3' = [s3 EXCEPT ![RawKey(pass[p].chunk)] = NoChunk]
         \/ \E p \in Pass : /\ EraseObject(p) /\ pass[p].chunk \in doomed
                            /\ \/ s3' = [s3 EXCEPT ![RawKey(pass[p].chunk)] = NoChunk]
                               \/ s3' = [s3 EXCEPT ![Version(pass[p].chunk)] = NoChunk]
<1>1. \/ s3' = s3
      \/ \E c \in Chunk : Upload(c)
      \/ \E p \in Pass : UploadCompressed(p) \/ UploadFails(p)
      \/ \E p \in Pass : DropOriginal(p) \/ EraseObject(p)
  BY ZenonT(60) DEF Next, PassStep, Run, vars, budgets, Capture, Age, UpdatePolicy, Restart, Start,
         Pick, CompressDone, Download, DownloadFails,
         CommitCompressed, QueryExpired, PickExpired, ForgetRow, ExpireDone, CommitFails
<1>2. ASSUME NEW p \in Pass, UploadCompressed(p) \/ UploadFails(p)
      PROVE  \/ s3' = s3
             \/ /\ pass[p].chunk \in Chunk
                /\ s3' = [s3 EXCEPT ![Version(pass[p].chunk)] = pass[p].chunk]
  <2>1. pass[p].chunk \in Chunk /\ pass[p].key = RawKey(pass[p].chunk)
    BY <1>2 DEF UploadCompressed, UploadFails, Walk, Passes, Sound
  <2> QED BY <1>2, <2>1 DEF UploadCompressed, UploadFails, PutCompressed, Version
<1>3. ASSUME NEW p \in Pass, DropOriginal(p)
      PROVE  \/ s3' = s3
             \/ /\ pass[p].chunk \in Chunk
                /\ s3' = [s3 EXCEPT ![RawKey(pass[p].chunk)] = NoChunk]
  <2>1. pass[p].chunk \in Chunk /\ pass[p].key = RawKey(pass[p].chunk)
    BY <1>3 DEF DropOriginal, Walk, Passes, Sound
  <2> QED BY <1>3, <2>1 DEF DropOriginal, Delete
<1>4. ASSUME NEW p \in Pass, EraseObject(p)
      PROVE  \/ s3' = s3
             \/ /\ pass[p].chunk \in doomed
                /\ \/ s3' = [s3 EXCEPT ![RawKey(pass[p].chunk)] = NoChunk]
                   \/ s3' = [s3 EXCEPT ![Version(pass[p].chunk)] = NoChunk]
  <2>1. pass[p].chunk \in doomed /\ pass[p].key \in {RawKey(pass[p].chunk), Version(pass[p].chunk)}
    BY <1>4 DEF EraseObject, Walk, Passes, Sound
  <2> QED BY <1>4, <2>1 DEF EraseObject, Delete
<1>5. \A c \in Chunk : Upload(c) => s3' = [s3 EXCEPT ![RawKey(c)] = c]
  BY DEF Upload
<1> QED BY <1>1, <1>2, <1>3, <1>4, <1>5

(***************************************************************************)
(* A restart or a failing commit adds the chunks in hand to the broken     *)
(* ones; nothing else does.                                                *)
(***************************************************************************)
LEMMA BrokenMoves ==
  ASSUME [Next]_vars
  PROVE  \/ broken' = broken
         \/ \E S \in SUBSET Chunk : broken' = broken \cup S
         \/ \E p \in Pass : CommitFails(p) /\ broken' = broken \cup {pass[p].chunk}
<1>1. \/ broken' = broken
      \/ Restart
      \/ \E p \in Pass : CommitFails(p)
  BY ZenonT(60) DEF Next, PassStep, Run, vars, budgets, Capture, Upload, Age, UpdatePolicy, Start,
         Pick, CompressDone, Download, DownloadFails, UploadCompressed, UploadFails,
         DropOriginal, CommitCompressed, QueryExpired, PickExpired, EraseObject, ForgetRow,
         ExpireDone
<1>2. ASSUME Restart PROVE \E S \in SUBSET Chunk : broken' = broken \cup S
  BY <1>2 DEF Restart
<1> QED BY <1>1, <1>2 DEF CommitFails

LEMMA BucketStep ==
  ASSUME Walk, Bucket, [Next]_vars PROVE Bucket'
<1>1. \A c \in Chunk : RawKey(c) \in Key /\ Version(c) \in Key
  BY KeyType
<1>2. \A k : [s3 EXCEPT ![k] = NoChunk] \in [Key -> Chunk \cup {NoChunk}]
  BY DEF Bucket
<1>3. broken' \subseteq Chunk
  <2>1. ASSUME NEW p \in Pass, CommitFails(p) PROVE pass[p].chunk \in Chunk
    BY <2>1 DEF CommitFails, Walk, Passes, Sound, Doom
  <2>2. \/ broken' = broken
        \/ \E S \in SUBSET Chunk : broken' = broken \cup S
        \/ \E p \in Pass : CommitFails(p) /\ broken' = broken \cup {pass[p].chunk}
    BY BrokenMoves
  <2> QED BY <2>1, <2>2 DEF Bucket
<1> QED BY <1>1, <1>2, <1>3, BucketMoves DEF Bucket

(***************************************************************************)
(* The type invariant.  A pass that transfers has a chunk and one of its   *)
(* keys in hand, however the passes and a restart come in between.         *)
(***************************************************************************)
THEOREM TypeCorrect == Spec => []TypeOK
<1>1. Init => Walk /\ Numbers /\ Bucket
  BY WalkInit, NumbersInit DEF Init, Bucket
<1>2. Walk /\ Numbers /\ Bucket /\ [Next]_vars => (Walk /\ Numbers /\ Bucket)'
  BY WalkStep, NumbersStep, BucketStep DEF Numbers
<1>3. Walk /\ Numbers /\ Bucket => TypeOK
  <2> SUFFICES ASSUME Walk, Numbers, Bucket PROVE TypeOK
    OBVIOUS
  <2>1. pass \in [Pass -> PassState] /\ doomed \subseteq Chunk
    BY DEF Walk, Passes, Doom
  <2>2. ASSUME NEW p \in Pass, pass[p].pc \in {"download", "convert", "drop", "commit", "erase"}
        PROVE  pass[p].key \in Key /\ pass[p].chunk \in Chunk
    <3>1. Sound(pass[p])
      BY DEF Walk, Passes
    <3>2. pass[p].chunk \in Chunk /\ pass[p].key \in {RawKey(pass[p].chunk), Version(pass[p].chunk)}
      BY <2>1, <2>2, <3>1 DEF Sound
    <3> QED BY <3>2, KeyType
  <2>3. rows \in [Chunk -> Row]
        /\ \A c \in Chunk : rows[c].state = "uploaded" =>
              /\ rows[c].compressed <=> rows[c].ckey # NoKey
              /\ rows[c].compressed <=> rows[c].raw = NoKey
    BY DEF Walk, Rows, RowInv
  <2> QED BY <2>1, <2>2, <2>3 DEF TypeOK, Numbers, Bucket, PassState
<1> QED BY <1>1, <1>2, <1>3, PTL DEF Spec

-----------------------------------------------------------------------------
(* Kept footage of the chunks that have their keys to themselves           *)

\* Before a pass drops an original, the compressed version is in the bucket, and it stays there.
Safe(c) == s3[Version(c)] = c
Held(c) == Safe(c) \/ (rows[c].raw # NoKey /\ s3[RawKey(c)] = c)
HeldInv == \A c \in Proper \ doomed : rows[c].state = "uploaded" => Held(c)
Dropped == \A p \in Pass : pass[p].pc \in {"drop", "commit"} /\ pass[p].chunk \in Proper =>
              pass[p].chunk \in doomed \/ Safe(pass[p].chunk)

Inv == Walk /\ Numbers /\ Bucket /\ HeldInv /\ Dropped

(***************************************************************************)
(* No key serves two chunks, nor both versions of one.                     *)
(***************************************************************************)
LEMMA OwnKeys ==
  ASSUME NEW c \in Proper, NEW d \in Chunk
  PROVE  /\ RawKey(c) # Version(d) /\ RawKey(d) # Version(c)
         /\ c # d => RawKey(c) # RawKey(d) /\ Version(c) # Version(d)
<1>1. /\ RawKey(c).stem = StemOf[c] /\ RawKey(c).tier = TierOf[c]
      /\ RawKey(d).stem = StemOf[d] /\ RawKey(d).tier = TierOf[d]
  BY DEF RawKey
<1>2. /\ Version(c).stem = StemOf[c] /\ Version(c).tier = "compressed"
      /\ Version(d).stem = StemOf[d] /\ Version(d).tier = "compressed"
  BY DEF RawKey, Version, CompressedKey
<1> QED BY <1>1, <1>2 DEF Proper

(***************************************************************************)
(* A compressed version stays in the bucket until its chunk is doomed, and *)
(* an original until its compressed version is there.                      *)
(***************************************************************************)
LEMMA ObjectsLast ==
  ASSUME Inv, [Next]_vars, NEW c \in Proper \ doomed
  PROVE  /\ Safe(c) => Safe(c)'
         /\ s3[RawKey(c)] = c => Safe(c)' \/ s3'[RawKey(c)] = c
<1>1. s3 \in [Key -> Chunk \cup {NoChunk}] /\ c \in Chunk
      /\ RawKey(c) \in Key /\ Version(c) \in Key
  BY KeyType DEF Inv, Bucket, Proper
<1>2. \A d \in Chunk : /\ RawKey(c) # Version(d) /\ RawKey(d) # Version(c)
                       /\ c # d => RawKey(c) # RawKey(d) /\ Version(c) # Version(d)
  BY OwnKeys
<1>3. Safe(c)' <=> s3'[Version(c)] = c
  BY DEF Safe, Version, CompressedKey, RawKey
<1>4. CASE s3' = s3
  BY <1>3, <1>4 DEF Safe
<1>5. ASSUME NEW d \in Chunk, s3' = [s3 EXCEPT ![RawKey(d)] = d]
      PROVE  /\ s3[Version(c)] = c => s3'[Version(c)] = c
             /\ s3[RawKey(c)] = c => s3'[RawKey(c)] = c
  BY <1>1, <1>2, <1>5
<1>6. ASSUME NEW d \in Chunk, s3' = [s3 EXCEPT ![Version(d)] = d]
      PROVE  /\ s3[Version(c)] = c => s3'[Version(c)] = c
             /\ s3[RawKey(c)] = c => s3'[RawKey(c)] = c
  BY <1>1, <1>2, <1>6
<1>7. ASSUME NEW p \in Pass, DropOriginal(p), pass[p].chunk \in Chunk,
             s3' = [s3 EXCEPT ![RawKey(pass[p].chunk)] = NoChunk]
      PROVE  /\ s3'[Version(c)] = s3[Version(c)]
             /\ s3'[RawKey(c)] = s3[RawKey(c)] \/ s3[Version(c)] = c
  <2>1. s3'[Version(c)] = s3[Version(c)]
    BY <1>1, <1>2, <1>7
  <2>2. pass[p].chunk = c => s3[Version(c)] = c
    BY <1>7 DEF Inv, Dropped, Safe, DropOriginal
  <2>3. CASE pass[p].chunk # c
    BY <1>1, <1>2, <1>7, <2>3
  <2> QED BY <2>1, <2>2, <2>3
<1>8. ASSUME NEW d \in doomed, \/ s3' = [s3 EXCEPT ![RawKey(d)] = NoChunk]
                                \/ s3' = [s3 EXCEPT ![Version(d)] = NoChunk]
      PROVE  s3'[Version(c)] = s3[Version(c)] /\ s3'[RawKey(c)] = s3[RawKey(c)]
  <2>1. d \in Chunk /\ d # c
    BY DEF Inv, Walk, Doom
  <2> QED BY <1>1, <1>2, <1>8, <2>1
<1>9. Walk
  BY DEF Inv
<1> QED BY <1>3, <1>4, <1>5, <1>6, <1>7, <1>8, <1>9, BucketMoves DEF Safe

(***************************************************************************)
(* What a step does to the row of a chunk.                                 *)
(***************************************************************************)
LEMMA RowStep ==
  ASSUME Walk, [Next]_vars, NEW c \in Chunk
  PROVE  \/ rows'[c] = rows[c]
         \/ rows[c].state = "absent" /\ rows'[c].state = "buffered"
         \/ /\ rows[c].state = "buffered" /\ rows'[c].state = "uploaded"
            /\ rows'[c].raw = RawKey(c) /\ s3' = [s3 EXCEPT ![RawKey(c)] = c]
         \/ /\ rows'[c].state = rows[c].state /\ rows'[c].ckey = Version(c) /\ s3' = s3
            /\ \E p \in Pass : pass[p].pc = "commit" /\ pass[p].chunk = c
         \/ /\ c \in doomed /\ rows'[c].state = "deleted"
            /\ \E p \in Pass : pass[p].pc = "forget" /\ pass[p].chunk = c
<1>1. rows \in [Chunk -> Row]
  BY DEF Walk, Rows
<1>2. CASE UNCHANGED rows
  BY <1>2
<1>3. ASSUME NEW d \in Chunk, Capture(d)
      PROVE  IF c = d THEN rows[c].state = "absent" /\ rows'[c].state = "buffered"
                      ELSE rows'[c] = rows[c]
  BY <1>1, <1>3 DEF Capture, Row
<1>4. ASSUME NEW d \in Chunk, Upload(d)
      PROVE  IF c = d THEN /\ rows[c].state = "buffered" /\ rows'[c].state = "uploaded"
                           /\ rows'[c].raw = RawKey(c) /\ s3' = [s3 EXCEPT ![RawKey(c)] = c]
                      ELSE rows'[c] = rows[c]
  BY <1>1, <1>4 DEF Upload, Row
<1>5. ASSUME NEW p \in Pass, CommitCompressed(p)
      PROVE  \/ rows'[c] = rows[c]
             \/ /\ rows'[c].state = rows[c].state /\ rows'[c].ckey = Version(c) /\ s3' = s3
                /\ pass[p].pc = "commit" /\ pass[p].chunk = c
  <2> DEFINE k == CompressedKey(pass[p].key)
  <2>1. /\ pass[p].pc = "commit" /\ s3' = s3
        /\ \/ rows' = rows
           \/ rows' = [rows EXCEPT ![pass[p].chunk] = CompressedRow(@, k)]
    BY <1>5 DEF CommitCompressed
  <2>2. CompressedRow(rows[c], k).state = rows[c].state /\ CompressedRow(rows[c], k).ckey = k
    BY <1>1 DEF CompressedRow, Row
  <2>3. pass[p].chunk = c => k = Version(c)
    BY <2>1 DEF Walk, Passes, Sound, Version
  <2> HIDE DEF k
  <2> QED BY <1>1, <2>1, <2>2, <2>3
<1>6. ASSUME NEW p \in Pass, ForgetRow(p)
      PROVE  \/ rows'[c] = rows[c]
             \/ /\ c \in doomed /\ rows'[c].state = "deleted"
                /\ pass[p].pc = "forget" /\ pass[p].chunk = c
  <2>1. pass[p].chunk \in doomed /\ pass[p].pc = "forget"
    BY <1>6 DEF ForgetRow, Walk, Passes, Sound
  <2> QED BY <1>1, <1>6, <2>1 DEF ForgetRow, NoRow
<1> QED BY <1>2, <1>3, <1>4, <1>5, <1>6, ZenonT(60)
        DEF Next, PassStep, Run, vars, Age, UpdatePolicy, Restart, Start, Pick, CompressDone, Download,
            DownloadFails, UploadCompressed, UploadFails, DropOriginal, QueryExpired,
            PickExpired, EraseObject, ExpireDone, CommitFails

LEMMA DoomedStay == ASSUME [Next]_vars PROVE doomed \subseteq doomed'
BY ZenonT(60) DEF Next, PassStep, Run, vars, Capture, Upload, Age, UpdatePolicy, Restart, Start, Pick, CompressDone,
       Download, DownloadFails, UploadCompressed, UploadFails, DropOriginal, CommitCompressed,
       QueryExpired, PickExpired, EraseObject, ForgetRow, ExpireDone, CommitFails

(***************************************************************************)
(* A pass gets to drop or commit only with what it has just stored.        *)
(***************************************************************************)
LEMMA DropsWhatItStored ==
  ASSUME Walk, [Next]_vars, NEW p \in Pass, pass'[p].pc \in {"drop", "commit"}
  PROVE  /\ pass'[p].chunk = pass[p].chunk
         /\ \/ pass[p].pc \in {"drop", "commit"}
            \/ pass[p].pc = "convert" /\ PutCompressed(p)
<1> DEFINE Goal == /\ pass'[p].chunk = pass[p].chunk
                   /\ \/ pass[p].pc \in {"drop", "commit"}
                      \/ pass[p].pc = "convert" /\ PutCompressed(p)
<1>1. pass \in [Pass -> PassState] /\ pass[p] \in PassState
  BY DEF Walk, Passes
<1>2. Idle.pc = "idle" /\ NextChunk(p).pc = "compress" /\ NextExpired(p).pc = "expire"
  BY <1>1 DEF Idle, NextChunk, NextExpired, PassState
<1>3. CASE pass' = pass
  BY <1>3
<1>4. CASE Restart
  BY <1>2, <1>4 DEF Restart
<1>5. ASSUME NEW q \in Pass, NEW r, Become(q, r) PROVE pass'[p] = IF p = q THEN r ELSE pass[p]
  BY <1>1, <1>5 DEF Become
<1>6. ASSUME NEW q \in Pass,
             Become(q, NextChunk(q)) \/ Become(q, NextExpired(q)) \/ Leave(q)
      PROVE  Goal
  BY <1>2, <1>5, <1>6 DEF Leave
<1>7. ASSUME NEW q \in Pass, NEW pc \in PassPC \ {"drop", "commit"},
             Become(q, [pass[q] EXCEPT !.pc = pc])
      PROVE  Goal
  BY <1>1, <1>5, <1>7 DEF PassState
<1>8. ASSUME NEW q \in Pass, UploadCompressed(q) PROVE Goal
  BY <1>1, <1>5, <1>8 DEF UploadCompressed, PassState
<1>9. ASSUME NEW q \in Pass, DropOriginal(q) PROVE Goal
  BY <1>1, <1>5, <1>9 DEF DropOriginal, PassState
<1>10. ASSUME NEW q \in Pass, CommitCompressed(q) \/ ForgetRow(q) PROVE Goal
  <2>1. \/ Leave(q) \/ Become(q, [NextChunk(q) EXCEPT !.cache = Expired])
        \/ Become(q, [NextExpired(q) EXCEPT !.cache = Expired])
    BY <1>10 DEF CommitCompressed, ForgetRow
  <2>2. /\ [NextChunk(p) EXCEPT !.cache = Expired].pc = "compress"
        /\ [NextExpired(p) EXCEPT !.cache = Expired].pc = "expire"
    BY <1>1 DEF NextChunk, NextExpired, PassState
  <2> QED BY <1>5, <1>6, <2>1, <2>2
<1>11. ASSUME NEW q \in Pass, Start(q) PROVE Goal
  <2>1. PICK S, d, f :
           Become(q, [Idle EXCEPT !.pc = "compress", !.todo = S, !.days = d, !.cache = f])
    BY <1>11 DEF Start
  <2>2. [Idle EXCEPT !.pc = "compress", !.todo = S, !.days = d, !.cache = f].pc = "compress"
    BY DEF Idle
  <2> QED BY <1>5, <2>1, <2>2
<1>12. ASSUME NEW q \in Pass, NEW c \in Chunk, Pick(q, c) PROVE Goal
  <2> DEFINE next == [NextChunk(q) EXCEPT !.todo = @ \ {c}, !.cache = Fill(q, {c})]
  <2>1. \/ Leave(q) \/ Become(q, next)
        \/ \E k : Become(q, [next EXCEPT !.pc = "download", !.chunk = c, !.key = k])
    BY <1>12 DEF Pick
  <2>2. p = q => /\ next.pc = "compress"
                 /\ \A k : [next EXCEPT !.pc = "download", !.chunk = c, !.key = k].pc = "download"
    BY <1>1 DEF NextChunk, PassState
  <2> HIDE DEF next
  <2> QED BY <1>5, <1>6, <2>1, <2>2
<1>13. ASSUME NEW q \in Pass, QueryExpired(q) PROVE Goal
  <2>1. PICK S, f : Become(q, [pass[q] EXCEPT !.pc = "expire", !.todo = S, !.cache = f])
    BY <1>13 DEF QueryExpired
  <2>2. [pass[p] EXCEPT !.pc = "expire", !.todo = S, !.cache = f].pc = "expire"
    BY <1>1 DEF PassState
  <2> QED BY <1>5, <2>1, <2>2
<1>14. ASSUME NEW q \in Pass, NEW c \in Chunk, PickExpired(q, c) PROVE Goal
  <2> DEFINE r(pc, k, f) == [pass[q] EXCEPT !.pc = pc, !.todo = @ \ {c}, !.chunk = c, !.key = k,
                                            !.cache = f]
  <2>1. \/ Leave(q)
        \/ \E pc \in {"forget", "erase"} : \E k, f : Become(q, r(pc, k, f))
    BY <1>14 DEF PickExpired
  <2>2. p = q => \A pc, k, f : r(pc, k, f).pc = pc
    BY <1>1 DEF PassState
  <2> HIDE DEF r
  <2> QED BY <1>5, <1>6, <2>1, <2>2
<1>15. ASSUME NEW q \in Pass, CompressDone(q) \/ Download(q) \/ EraseObject(q) PROVE Goal
  <2>1. /\ "query" \in PassPC \ {"drop", "commit"} /\ "convert" \in PassPC \ {"drop", "commit"}
        /\ "forget" \in PassPC \ {"drop", "commit"}
    BY DEF PassPC
  <2>2. \/ Leave(q) \/ Become(q, NextChunk(q))
        \/ Become(q, [pass[q] EXCEPT !.pc = "query"])
        \/ Become(q, [pass[q] EXCEPT !.pc = "convert"])
        \/ Become(q, [pass[q] EXCEPT !.pc = "forget"])
    BY <1>15 DEF CompressDone, Download, EraseObject
  <2> QED BY <1>6, <1>7, <2>1, <2>2
<1>16. ASSUME NEW q \in Pass, \/ ExpireDone(q) \/ DownloadFails(q) \/ UploadFails(q) \/ CommitFails(q)
       PROVE  Goal
  BY <1>6, <1>16 DEF ExpireDone, DownloadFails, UploadFails, CommitFails, OnUploadError
<1> QED
  BY <1>3, <1>4, <1>6, <1>8, <1>9, <1>10, <1>11, <1>12, <1>13, <1>14, <1>15, <1>16
     DEF Next, PassStep, Run, vars, Capture, Upload, Age, UpdatePolicy

(***************************************************************************)
(* What an uploaded row of a chunk not doomed names is in the bucket.      *)
(***************************************************************************)
LEMMA HeldStep ==
  ASSUME Inv, [Next]_vars PROVE HeldInv'
<1> SUFFICES ASSUME NEW c \in Proper, c \notin doomed', rows'[c].state = "uploaded"
             PROVE  Held(c)'
  BY DEF HeldInv, Proper
<1>1. Walk /\ c \notin doomed /\ c \in Chunk
  BY DoomedStay DEF Inv, Proper
<1>2. RawKey(c)' = RawKey(c) /\ RawKey(c) # NoKey /\ RawKey(c) \in Key
  BY <1>1, KeyType DEF RawKey
<1>3. Held(c)' <=> Safe(c)' \/ (rows'[c].raw # NoKey /\ s3'[RawKey(c)] = c)
  BY <1>2 DEF Held
<1>4. CASE rows'[c] = rows[c]
  BY <1>1, <1>3, <1>4, ObjectsLast DEF Inv, HeldInv, Held
<1>5. CASE rows'[c].raw = RawKey(c) /\ s3' = [s3 EXCEPT ![RawKey(c)] = c]
  BY <1>2, <1>3, <1>5 DEF Inv, Bucket
<1>6. ASSUME NEW p \in Pass, pass[p].pc = "commit", pass[p].chunk = c PROVE Held(c)'
  <2>1. Safe(c)
    BY <1>1, <1>6 DEF Inv, Dropped
  <2> QED BY <1>1, <1>3, <2>1, ObjectsLast
<1> QED BY <1>1, <1>4, <1>5, <1>6, RowStep

(***************************************************************************)
(* A pass drops an original only when its compressed version is stored.    *)
(***************************************************************************)
LEMMA DroppedStep ==
  ASSUME Inv, [Next]_vars PROVE Dropped'
<1> SUFFICES ASSUME NEW p \in Pass, pass'[p].pc \in {"drop", "commit"},
                    pass'[p].chunk \in Proper, pass'[p].chunk \notin doomed'
             PROVE  Safe(pass[p].chunk)'
  BY DEF Dropped, Proper
<1>1. Walk /\ doomed \subseteq doomed'
  BY DoomedStay DEF Inv
<1>2. /\ pass'[p].chunk = pass[p].chunk
      /\ pass[p].pc \in {"drop", "commit"} \/ (pass[p].pc = "convert" /\ PutCompressed(p))
  BY <1>1, DropsWhatItStored
<1>3. PICK c \in Proper \ doomed : /\ c = pass'[p].chunk /\ c = pass[p].chunk
                                  /\ pass[p].key = RawKey(c)
  BY <1>1, <1>2 DEF Walk, Passes, Sound
<1>4. Safe(c)' <=> s3'[Version(c)] = c
  BY DEF Safe, Version, CompressedKey, RawKey
<1>5. CASE pass[p].pc \in {"drop", "commit"}
  <2>1. Safe(c)
    BY <1>3, <1>5 DEF Inv, Dropped
  <2>2. Safe(c)'
    BY <2>1, ObjectsLast
  <2> QED BY <1>3, <1>4, <2>2 DEF Safe, Version, CompressedKey, RawKey
<1>6. CASE pass[p].pc = "convert" /\ PutCompressed(p)
  <2>1. s3' = [s3 EXCEPT ![Version(c)] = c] /\ Version(c) \in Key
    BY <1>3, <1>6, KeyType DEF PutCompressed, Version, Proper
  <2>2. s3'[Version(c)] = c
    BY <2>1 DEF Inv, Bucket
  <2> QED BY <1>3, <2>2 DEF Safe, Version, CompressedKey, RawKey
<1> QED BY <1>2, <1>5, <1>6

LEMMA InvInit == Init => Inv
<1> SUFFICES ASSUME Init PROVE Inv
  OBVIOUS
<1>1. Walk /\ Numbers
  BY WalkInit, NumbersInit
<1>2. Bucket
  BY DEF Init, Bucket
<1>3. HeldInv
  BY DEF Init, HeldInv, NoRow, Proper
<1>4. Dropped
  BY DEF Init, Dropped, Idle
<1> QED BY <1>1, <1>2, <1>3, <1>4 DEF Inv

LEMMA InvNext == Inv /\ [Next]_vars => Inv'
<1> SUFFICES ASSUME Inv, [Next]_vars PROVE Inv'
  OBVIOUS
<1>1. Walk /\ Numbers /\ Bucket /\ settings.compressed \in CompressedDays
  BY DEF Inv, Numbers
<1>2. Walk' /\ Numbers' /\ Bucket'
  BY <1>1, WalkStep, NumbersStep, BucketStep
<1> QED BY <1>2, HeldStep, DroppedStep DEF Inv

-----------------------------------------------------------------------------
(* The refinement                                                          *)

PlaceIs(c) == IF c \in doomed THEN "expired"
              ELSE IF rows[c].state = "uploaded" THEN (IF Served(c) THEN "stored" ELSE "hidden")
              ELSE IF rows[c].state = "buffered" THEN "buffered" ELSE "nowhere"

LEMMA PlaceOf == Inv => \A c \in Proper : Place(c) = PlaceIs(c)
<1> SUFFICES ASSUME Inv, NEW c \in Proper PROVE Place(c) = PlaceIs(c)
  OBVIOUS
<1>1. c \in Chunk /\ rows[c] \in Row
  BY DEF Inv, Walk, Rows, Proper
<1>2. c \notin doomed /\ rows[c].state = "uploaded" => InBucket(c)
  <2>1. RawKey(c) \in Key /\ Version(c) \in Key
    BY <1>1, KeyType
  <2>2. c \notin doomed /\ rows[c].state = "uploaded" => Held(c)
    BY SMTT(30) DEF Inv, HeldInv
  <2> QED BY <2>1, <2>2 DEF Held, Safe, InBucket
<1> QED BY <1>1, <1>2 DEF Place, PlaceIs

LEMMA PlaceOfNext == Inv' => (\A c \in Proper : Place(c) = PlaceIs(c))'
BY PlaceOf, PTL

(***************************************************************************)
(* What a step does to the rows: nothing, or one row moves on.             *)
(***************************************************************************)
LEMMA OneRow ==
  ASSUME Walk, [Next]_vars
  PROVE  \/ UNCHANGED <<rows, doomed>>
         \/ \E c \in Chunk :
               /\ \A d \in Chunk \ {c} : rows'[d] = rows[d] /\ (d \in doomed' <=> d \in doomed)
               /\ \/ UNCHANGED doomed
                  \/ UNCHANGED rows /\ rows[c].state \in {"uploaded", "deleted"}
<1>1. rows \in [Chunk -> Row]
  BY DEF Walk, Rows
<1>2. ASSUME NEW c \in Chunk, NEW r, rows' = [rows EXCEPT ![c] = r]
      PROVE  \A d \in Chunk \ {c} : rows'[d] = rows[d]
  BY <1>1, <1>2
<1>3. ASSUME NEW c \in Chunk, Capture(c) \/ Upload(c)
      PROVE  UNCHANGED doomed /\ \A d \in Chunk \ {c} : rows'[d] = rows[d]
  BY <1>1, <1>3 DEF Capture, Upload
<1>4. ASSUME NEW p \in Pass, CommitCompressed(p) \/ ForgetRow(p)
      PROVE  /\ UNCHANGED doomed
             /\ \E c \in Chunk : \A d \in Chunk \ {c} : rows'[d] = rows[d]
  <2>1. pass[p].chunk \in Chunk
    BY <1>4 DEF CommitCompressed, ForgetRow, Walk, Passes, Sound, Doom
  <2> QED BY <1>1, <1>4, <2>1 DEF CommitCompressed, ForgetRow
<1>5. ASSUME NEW p \in Pass, NEW c \in Chunk, PickExpired(p, c)
      PROVE  /\ UNCHANGED rows /\ rows[c].state \in {"uploaded", "deleted"}
             /\ \A d \in Chunk \ {c} : d \in doomed' <=> d \in doomed
  <2>1. Past(c)
    BY <1>5 DEF PickExpired, Walk, Passes, Sound
  <2> QED BY <1>5, <2>1 DEF PickExpired, Past
<1> QED BY <1>3, <1>4, <1>5, ZenonT(60)
        DEF Next, PassStep, Run, vars, Age, UpdatePolicy, Restart, Start, Pick, CompressDone,
            Download, DownloadFails, UploadCompressed, UploadFails, DropOriginal, QueryExpired,
            EraseObject, ExpireDone, CommitFails

(***************************************************************************)
(* A step concerns one chunk: it leaves the rows and the objects of all    *)
(* others as they are.                                                     *)
(***************************************************************************)
SameObjects(d) == s3'[RawKey(d)] = s3[RawKey(d)] /\ s3'[Version(d)] = s3[Version(d)]
Spared(d)      == rows'[d] = rows[d] /\ (d \in doomed' <=> d \in doomed) /\ SameObjects(d)

LEMMA OneChunk ==
  ASSUME Inv, [Next]_vars
  PROVE  (\A d \in Proper : Spared(d)) \/ \E c \in Chunk : \A d \in Proper \ {c} : Spared(d)
<1>1. Walk /\ doomed \subseteq Chunk /\ s3 \in [Key -> Chunk \cup {NoChunk}]
  BY DEF Inv, Walk, Doom, Bucket
<1>2. ASSUME NEW c \in Chunk, NEW k \in {RawKey(c), Version(c)}, NEW v,
             s3' = [s3 EXCEPT ![k] = v], NEW d \in Proper \ {c}
      PROVE  SameObjects(d)
  <2>1. d \in Chunk /\ RawKey(d) \in Key /\ Version(d) \in Key
    BY KeyType DEF Proper
  <2>2. k # RawKey(d) /\ k # Version(d)
    BY <2>1, OwnKeys
  <2> QED BY <1>1, <1>2, <2>1, <2>2 DEF SameObjects
<1>3. CASE s3' = s3
  <2>1. \A d \in Proper : SameObjects(d) /\ d \in Chunk
    BY <1>3 DEF SameObjects, Proper
  <2> QED BY <1>1, <2>1, OneRow DEF Spared
<1>4. ASSUME NEW c \in Chunk, Upload(c), s3' = [s3 EXCEPT ![RawKey(c)] = c]
      PROVE  \A d \in Proper \ {c} : Spared(d)
  <2>1. \A d \in Proper \ {c} : SameObjects(d) /\ d \in Chunk
    BY <1>2, <1>4 DEF Proper
  <2>2. UNCHANGED doomed /\ \A d \in Chunk \ {c} : rows'[d] = rows[d]
    BY <1>1, <1>4 DEF Upload, Walk, Rows
  <2> QED BY <2>1, <2>2 DEF Spared
<1>5. ASSUME NEW p \in Pass, pass[p].chunk \in Chunk, UNCHANGED <<rows, doomed>>,
             NEW k \in {RawKey(pass[p].chunk), Version(pass[p].chunk)}, NEW v,
             s3' = [s3 EXCEPT ![k] = v]
      PROVE  \A d \in Proper \ {pass[p].chunk} : Spared(d)
  <2>1. \A d \in Proper \ {pass[p].chunk} : SameObjects(d)
    BY <1>2, <1>5
  <2> QED BY <1>5, <2>1 DEF Spared
<1>6. ASSUME NEW p \in Pass,
             UploadCompressed(p) \/ UploadFails(p) \/ DropOriginal(p) \/ EraseObject(p)
      PROVE  UNCHANGED <<rows, doomed>>
  BY <1>6 DEF UploadCompressed, UploadFails, DropOriginal, EraseObject
<1> QED BY <1>1, <1>3, <1>4, <1>5, <1>6, BucketMoves

(***************************************************************************)
(* Whether playback finds a chunk depends on its row and its objects.      *)
(***************************************************************************)
LEMMA ServedBy ==
  ASSUME Walk, Walk', NEW d \in Proper, Spared(d) PROVE Served(d)' <=> Served(d)
<1>1. d \in Chunk
  BY DEF Proper
<1>2. PlayKey(rows[d]) \in {NoKey, RawKey(d), Version(d)}
  BY <1>1 DEF Walk, Rows, RowInv, OwnRow, PlayKey
<1>3. PlayKey(rows'[d]) = PlayKey(rows[d])
  BY DEF Spared
<1>4. s3'[PlayKey(rows[d])] = s3[PlayKey(rows[d])] \/ PlayKey(rows[d]) = NoKey
  BY <1>2 DEF Spared, SameObjects
<1>5. Served(d)' <=> PlayKey(rows'[d]) # NoKey /\ s3'[PlayKey(rows'[d])] = d
  BY DEF Served, PlayKey
<1> QED BY <1>3, <1>4, <1>5 DEF Served

(***************************************************************************)
(* What a step does to the place of a chunk.                               *)
(***************************************************************************)
Moves(c) == \/ Place(c)' = Place(c)
            \/ Place(c) = "nowhere" /\ Place(c)' = "buffered"
            \/ Place(c) = "buffered" /\ Place(c)' = "stored"
            \/ Place(c) = "stored" /\ Place(c)' = "hidden"
            \/ Place(c) = "hidden" /\ Place(c)' = "stored"
            \/ Place(c) \in {"stored", "hidden"} /\ Place(c)' = "expired"

LEMMA PlaceMoves == ASSUME Inv, Inv', [Next]_vars, NEW c \in Proper PROVE Moves(c)
<1>1. Place(c) = PlaceIs(c) /\ Place(c)' = PlaceIs(c)'
  BY PlaceOf, PlaceOfNext
<1>2. Walk /\ c \in Chunk /\ (rows[c].state = "deleted" => c \in doomed)
      /\ (c \in doomed => rows[c].state \in {"uploaded", "deleted"})
      /\ (c \in doomed' => rows'[c].state \in {"uploaded", "deleted"})
      /\ (c \in doomed => c \in doomed')
  BY DoomedStay DEF Inv, Walk, Doom, Past, Proper
<1>3. PlaceIs(c)' = IF c \in doomed' THEN "expired"
                    ELSE IF rows'[c].state = "uploaded" THEN (IF Served(c)' THEN "stored" ELSE "hidden")
                    ELSE IF rows'[c].state = "buffered" THEN "buffered" ELSE "nowhere"
  BY DEF PlaceIs
<1>4. CASE c \in doomed
  BY <1>1, <1>2, <1>3, <1>4 DEF Moves, PlaceIs
<1>5. CASE rows'[c].state = rows[c].state /\ c \notin doomed
  BY <1>1, <1>2, <1>3, <1>5 DEF Moves, PlaceIs
<1>6. CASE rows[c].state = "absent" /\ rows'[c].state = "buffered"
  BY <1>1, <1>2, <1>3, <1>6 DEF Moves, PlaceIs
<1>7. CASE /\ rows[c].state = "buffered" /\ rows'[c].state = "uploaded"
           /\ rows'[c].raw = RawKey(c) /\ s3' = [s3 EXCEPT ![RawKey(c)] = c]
  <2>1. RowInv(c)' /\ s3 \in [Key -> Chunk \cup {NoChunk}]
    BY <1>2 DEF Inv, Walk, Rows, Bucket
  <2>2. RawKey(c) \in Key /\ RawKey(c) # NoKey
    BY <1>2, KeyType
  <2>3. PlayKey(rows'[c]) = RawKey(c) /\ s3'[RawKey(c)] = c
    BY <1>7, <2>1, <2>2 DEF RowInv, PlayKey
  <2>4. Served(c)' <=> PlayKey(rows'[c]) # NoKey /\ s3'[PlayKey(rows'[c])] = c
    BY DEF Served, PlayKey
  <2>5. c \notin doomed'
    <3>1. \E d \in Chunk : rows'[d] # rows[d] /\ d = c
      BY <1>2, <1>7
    <3>2. c \notin doomed
      BY <1>2, <1>7
    <3> QED BY <1>2, <3>1, <3>2, <1>7, OneRow
  <2> QED BY <1>1, <1>3, <1>7, <2>2, <2>3, <2>4, <2>5, <1>2 DEF Moves, PlaceIs
<1> QED BY <1>2, <1>4, <1>5, <1>6, <1>7, RowStep

LEMMA InitStore == Init => Store!Init
<1> SUFFICES ASSUME Init PROVE Store!Init
  OBVIOUS
<1>1. \A c \in Proper : Place(c) = "nowhere"
  <2> SUFFICES ASSUME NEW c \in Proper PROVE Place(c) = "nowhere"
    OBVIOUS
  <2>1. Place(c) = PlaceIs(c) /\ c \in Chunk
    BY InvInit, PlaceOf DEF Proper
  <2> QED BY <2>1 DEF Init, NoRow, PlaceIs
<1> QED BY <1>1 DEF Store!Init

LEMMA NextStore ==
  Inv /\ Inv' /\ [Next]_vars => [Store!Next]_[c \in Proper |-> Place(c)]
<1> SUFFICES ASSUME Inv, Inv', [Next]_vars
             PROVE  [Store!Next]_[c \in Proper |-> Place(c)]
  OBVIOUS
<1>1. ASSUME NEW d \in Proper, Spared(d) PROVE Place(d)' = Place(d)
  <2>1. PlaceIs(d)' = IF d \in doomed' THEN "expired"
                      ELSE IF rows'[d].state = "uploaded" THEN (IF Served(d)' THEN "stored" ELSE "hidden")
                      ELSE IF rows'[d].state = "buffered" THEN "buffered" ELSE "nowhere"
    BY DEF PlaceIs
  <2>2. Served(d)' <=> Served(d)
    BY <1>1, ServedBy DEF Inv
  <2>3. Place(d) = PlaceIs(d) /\ Place(d)' = PlaceIs(d)'
    BY PlaceOf, PlaceOfNext
  <2> QED BY <1>1, <2>1, <2>2, <2>3 DEF Spared, PlaceIs
<1>2. CASE \A c \in Proper : Place(c)' = Place(c)
  BY <1>2
<1>3. ASSUME NEW c \in Proper, \A d \in Proper \ {c} : Place(d)' = Place(d), Moves(c),
             Place(c)' # Place(c)
      PROVE  Store!Next
  <2>1. CASE Place(c) = "nowhere" /\ Place(c)' = "buffered"
    BY <1>3, <2>1 DEF Store!Capture, Store!Next
  <2>2. CASE Place(c) = "buffered" /\ Place(c)' = "stored"
    BY <1>3, <2>2 DEF Store!Store, Store!Next
  <2>3. CASE Place(c) = "stored" /\ Place(c)' = "hidden"
    BY <1>3, <2>3 DEF Store!Hide, Store!Next
  <2>4. CASE Place(c) = "hidden" /\ Place(c)' = "stored"
    BY <1>3, <2>4 DEF Store!Show, Store!Next
  <2>5. CASE Place(c) \in {"stored", "hidden"} /\ Place(c)' = "expired"
    BY <1>3, <2>5 DEF Store!Expire, Store!Next
  <2> QED BY <1>3, <2>1, <2>2, <2>3, <2>4, <2>5 DEF Moves
<1>4. (\A d \in Proper : Place(d)' = Place(d))
      \/ \E c \in Chunk : \A d \in Proper \ {c} : Place(d)' = Place(d)
  BY <1>1, OneChunk
<1>5. (\A d \in Proper : Place(d)' = Place(d))
      \/ \E c \in Proper : /\ \A d \in Proper \ {c} : Place(d)' = Place(d)
                           /\ Place(c)' # Place(c)
  BY <1>4
<1> QED BY <1>2, <1>3, <1>5, PlaceMoves

(***************************************************************************)
(* Retention implements the abstract store: whichever passes, restarts and *)
(* failures interleave, an uploaded chunk that has its keys to itself is   *)
(* in the bucket until a pass has begun to expire it.                      *)
(***************************************************************************)
THEOREM Refinement == Spec => ImplementsStore
<1>1. Init => Inv /\ Store!Init
  BY InvInit, InitStore
<1>2. Inv /\ [Next]_vars => Inv'
  BY InvNext
<1>3. Inv /\ Inv' /\ [Next]_vars => [Store!Next]_[c \in Proper |-> Place(c)]
  BY NextStore
<1> QED BY <1>1, <1>2, <1>3, PTL DEF Spec, ImplementsStore, Store!Spec

-----------------------------------------------------------------------------
(* When a chunk may be hidden                                              *)

(***************************************************************************)
(* A pass that is about to commit has the compressed version in the        *)
(* bucket, or another has erased it and is about to forget the row, or     *)
(* broke off there.                                                        *)
(***************************************************************************)
Ready == \A p \in Pass :
    /\ pass[p].pc \in {"drop", "commit"}
    /\ pass[p].chunk \in Proper /\ rows[pass[p].chunk].state = "uploaded"
    => \/ Safe(pass[p].chunk)
       \/ InHand(pass[p].chunk, {"forget"})
       \/ pass[p].chunk \in broken

Hidden == Ready /\ HiddenOnlyInHand

(***************************************************************************)
(* A step is one of one pass, or moves none, or restarts them all.         *)
(***************************************************************************)
OneMoves(p) == \/ PassStep(p) \/ DownloadFails(p) \/ UploadFails(p) \/ CommitFails(p)

LEMMA Mover ==
  ASSUME Walk, [Next]_vars
  PROVE  \/ UNCHANGED pass
         \/ Restart
         \/ \E p \in Pass : OneMoves(p) /\ \A q \in Pass \ {p} : pass'[q] = pass[q]
<1>1. ASSUME NEW p \in Pass, NEW r, Become(p, r) PROVE \A q \in Pass \ {p} : pass'[q] = pass[q]
  BY <1>1 DEF Become, Walk, Passes
<1>2. ASSUME NEW p \in Pass, OneMoves(p) PROVE \A q \in Pass \ {p} : pass'[q] = pass[q]
  <2>1. \E r : Become(p, r)
    <3>1. ASSUME Leave(p) PROVE \E r : Become(p, r)
      BY <3>1 DEF Leave
    <3>2. CASE Start(p) \/ CompressDone(p) \/ Download(p) \/ UploadCompressed(p) \/ DropOriginal(p)
      BY <3>1, <3>2 DEF Start, CompressDone, Download, UploadCompressed, DropOriginal
    <3>3. CASE CommitCompressed(p) \/ QueryExpired(p) \/ EraseObject(p) \/ ForgetRow(p)
      BY <3>1, <3>3 DEF CommitCompressed, QueryExpired, EraseObject, ForgetRow
    <3>4. CASE ExpireDone(p) \/ DownloadFails(p) \/ UploadFails(p) \/ CommitFails(p)
      BY <3>1, <3>4 DEF ExpireDone, DownloadFails, UploadFails, CommitFails
    <3>5. ASSUME NEW c \in Chunk, Pick(p, c) PROVE \E r : Become(p, r)
      BY <3>1, <3>5 DEF Pick
    <3>6. ASSUME NEW c \in Chunk, PickExpired(p, c) PROVE \E r : Become(p, r)
      BY <3>1, <3>6 DEF PickExpired
    <3> QED BY <1>2, <3>2, <3>3, <3>4, <3>5, <3>6 DEF OneMoves, PassStep, Run
  <2> QED BY <1>1, <2>1
<1> QED BY <1>2 DEF Next, vars, OneMoves, Capture, Upload, Age, UpdatePolicy

LEMMA BrokenStay == ASSUME [Next]_vars PROVE broken \subseteq broken'
BY BrokenMoves

(***************************************************************************)
(* A pass that has to commit goes on to do so, or breaks off there.        *)
(***************************************************************************)
LEMMA HandKept ==
  ASSUME Walk, [Next]_vars, NEW p \in Pass, pass[p].pc \in {"commit", "forget"}
  PROVE  \/ pass'[p] = pass[p]
         \/ CommitCompressed(p) \/ ForgetRow(p)
         \/ pass[p].chunk \in broken'
<1>1. pass[p].chunk \in Chunk
  BY DEF Walk, Passes, Sound, Doom
<1>2. ASSUME Restart PROVE pass[p].chunk \in broken'
  BY <1>1, <1>2 DEF Restart, InHand
<1>3. ASSUME CommitFails(p) PROVE pass[p].chunk \in broken'
  BY <1>3, SMTT(30) DEF CommitFails
<1>4. ASSUME OneMoves(p) PROVE CommitCompressed(p) \/ ForgetRow(p) \/ CommitFails(p)
  BY <1>4 DEF OneMoves, PassStep, Run, Start, CompressDone, Download, UploadCompressed, DropOriginal,
        EraseObject, QueryExpired, ExpireDone, Pick, PickExpired, DownloadFails, UploadFails
<1> QED BY <1>2, <1>3, <1>4, Mover

(***************************************************************************)
(* The row of a chunk a pass forgets is gone.                              *)
(***************************************************************************)
LEMMA Forgotten ==
  ASSUME Walk, NEW p \in Pass, ForgetRow(p) PROVE rows'[pass[p].chunk].state = "deleted"
<1>1. pass[p].chunk \in Chunk /\ rows \in [Chunk -> Row]
  BY DEF ForgetRow, Walk, Passes, Sound, Doom, Rows
<1> QED BY <1>1 DEF ForgetRow, NoRow

(***************************************************************************)
(* A chunk a pass is about to forget stays in its hands, or the row goes.  *)
(***************************************************************************)
LEMMA ForgetKept ==
  ASSUME Walk, [Next]_vars, NEW c, InHand(c, {"forget"}), rows'[c].state # "deleted"
  PROVE  InHand(c, {"forget"})' \/ c \in broken'
<1>1. PICK p \in Pass : pass[p].pc = "forget" /\ pass[p].chunk = c
  BY DEF InHand
<1>2. ~CommitCompressed(p) /\ ~ForgetRow(p)
  BY <1>1, Forgotten DEF CommitCompressed
<1>3. CASE pass'[p] = pass[p]
  <2>1. pass'[p].pc \in {"forget"} /\ pass'[p].chunk = c
    BY <1>1, <1>3
  <2> QED BY <2>1 DEF InHand
<1> QED BY <1>1, <1>2, <1>3, HandKept

(***************************************************************************)
(* An object of a chunk goes away only when the pass that has the chunk in *)
(* hand deletes it.                                                        *)
(***************************************************************************)
LEMMA ObjectGoes ==
  ASSUME Inv, [Next]_vars, NEW c \in Proper,
         NEW k \in {RawKey(c), Version(c)}, s3[k] = c, s3'[k] # c
  PROVE  \E p \in Pass : /\ pass[p].chunk = c
                         /\ EraseObject(p) \/ (DropOriginal(p) /\ k = RawKey(c))
<1>1. s3 \in [Key -> Chunk \cup {NoChunk}] /\ k \in Key /\ c \in Chunk
  BY KeyType DEF Inv, Bucket, Proper
<1>2. \A d \in Chunk : d # c => k # RawKey(d) /\ k # Version(d)
  <2>1. \A d \in Chunk : /\ RawKey(c) # Version(d) /\ RawKey(d) # Version(c)
                         /\ c # d => RawKey(c) # RawKey(d) /\ Version(c) # Version(d)
    BY OwnKeys
  <2> QED BY <2>1
<1>3. \A d \in Chunk : /\ s3' # [s3 EXCEPT ![RawKey(d)] = d]
                       /\ s3' # [s3 EXCEPT ![Version(d)] = d]
  BY <1>1, <1>2
<1>4. ASSUME NEW d \in Chunk, \/ s3' = [s3 EXCEPT ![RawKey(d)] = NoChunk]
                              \/ s3' = [s3 EXCEPT ![Version(d)] = NoChunk]
      PROVE  d = c
  BY <1>1, <1>2, <1>4
<1>5. Walk /\ doomed \subseteq Chunk
  BY DEF Inv, Walk, Doom
<1>6. s3' # s3
  OBVIOUS
<1>7. s3' = [s3 EXCEPT ![RawKey(c)] = NoChunk] => k = RawKey(c)
  BY <1>1
<1> QED BY <1>3, <1>4, <1>5, <1>6, <1>7, BucketMoves

LEMMA ReadyStep == ASSUME Inv, Ready, [Next]_vars PROVE Ready'
<1> SUFFICES ASSUME NEW p \in Pass, pass'[p].pc \in {"drop", "commit"},
                    pass'[p].chunk \in Proper, rows'[pass'[p].chunk].state = "uploaded"
             PROVE  \/ Safe(pass[p].chunk)'
                    \/ InHand(pass[p].chunk, {"forget"})'
                    \/ pass'[p].chunk \in broken'
  BY DEF Ready, Proper
<1>1. Walk /\ pass \in [Pass -> PassState]
  BY DEF Inv, Walk, Passes
<1>2. /\ pass'[p].chunk = pass[p].chunk
      /\ pass[p].pc \in {"drop", "commit"} \/ (pass[p].pc = "convert" /\ PutCompressed(p))
  BY <1>1, DropsWhatItStored
<1>3. PICK c \in Proper : /\ c = pass'[p].chunk /\ c = pass[p].chunk /\ c \in Chunk
                          /\ pass[p].key = RawKey(c) /\ Past(c)
  BY <1>1, <1>2 DEF Walk, Passes, Sound
<1>4. Safe(c)' <=> s3'[Version(c)] = c
  BY DEF Safe, Version, CompressedKey, RawKey
<1>5. Version(c) \in Key
  BY <1>3, KeyType
<1>6. CASE pass[p].pc = "convert" /\ PutCompressed(p)
  <2>1. s3' = [s3 EXCEPT ![Version(c)] = c]
    BY <1>3, <1>6 DEF PutCompressed, Version
  <2>2. s3'[Version(c)] = c
    BY <1>5, <2>1 DEF Inv, Bucket
  <2> QED BY <1>3, <2>2 DEF Safe, Version, CompressedKey, RawKey
<1>7. ASSUME Safe(c)' \/ InHand(c, {"forget"})' \/ c \in broken'
      PROVE  \/ Safe(pass[p].chunk)'
             \/ InHand(pass[p].chunk, {"forget"})'
             \/ pass'[p].chunk \in broken'
  <2>1. InHand(c, {"forget"})' <=> \E q \in Pass : pass'[q].pc \in {"forget"} /\ pass'[q].chunk = c
    BY DEF InHand
  <2>2. InHand(pass[p].chunk, {"forget"})'
           <=> \E q \in Pass : pass'[q].pc \in {"forget"} /\ pass'[q].chunk = pass'[p].chunk
    BY DEF InHand
  <2>3. Safe(pass[p].chunk)' <=> s3'[Version(pass'[p].chunk)] = pass'[p].chunk
    BY DEF Safe, Version, CompressedKey, RawKey
  <2> QED BY <1>3, <1>4, <1>7, <2>1, <2>2, <2>3
<1>8. CASE pass[p].pc \in {"drop", "commit"}
  <2>1. rows[c].state = "uploaded"
    BY <1>1, <1>3, RowStep DEF Past
  <2>2. CASE Safe(c)
    <3>1. ASSUME s3'[Version(c)] # c PROVE InHand(c, {"forget"})'
      <4>1. PICK q \in Pass : pass[q].chunk = c /\ EraseObject(q)
        <5>1. RawKey(c) # Version(c)
          BY <1>3, OwnKeys
        <5> QED BY <2>2, <3>1, <5>1, ObjectGoes DEF Safe
      <4>2. pass'[q].pc = "forget" /\ pass'[q].chunk = c
        BY <1>1, <4>1 DEF EraseObject, Become, PassState
      <4> QED BY <4>2 DEF InHand
    <3> QED BY <1>4, <1>7, <3>1
  <2>3. CASE InHand(c, {"forget"})
    BY <1>1, <1>3, <1>7, <2>3, ForgetKept
  <2>4. CASE c \in broken
    BY <1>7, <2>4, BrokenStay
  <2> QED BY <1>3, <1>8, <2>1, <2>2, <2>3, <2>4 DEF Ready
<1> QED BY <1>2, <1>6, <1>8

(***************************************************************************)
(* The key playback picks holds the footage, or a pass that has taken it   *)
(* away is about to write the row or broke off there.                      *)
(***************************************************************************)
LEMMA HiddenStep ==
  ASSUME Inv, Inv', Hidden, [Next]_vars PROVE HiddenOnlyInHand'
<1> SUFFICES ASSUME NEW c \in Proper, rows'[c].state = "uploaded", c \notin broken'
             PROVE  Served(c)' \/ InHand(c, {"commit", "forget"})'
  BY DEF HiddenOnlyInHand, Proper
<1>1. Walk /\ c \in Chunk /\ RowInv(c) /\ rows \in [Chunk -> Row]
      /\ s3 \in [Key -> Chunk \cup {NoChunk}] /\ c \notin broken
  BY BrokenStay DEF Inv, Walk, Rows, Bucket, Proper
<1>2. RowInv(c)'
  BY <1>1 DEF Inv, Walk, Rows
<1>3. /\ RawKey(c)' = RawKey(c) /\ RawKey(c) # NoKey /\ RawKey(c) \in Key
      /\ Version(c)' = Version(c) /\ Version(c) # NoKey /\ Version(c) \in Key
  BY <1>1, KeyType DEF RawKey, Version, CompressedKey
<1>4. Served(c)' <=> PlayKey(rows'[c]) # NoKey /\ s3'[PlayKey(rows'[c])] = c
  BY DEF Served, PlayKey
<1>5. CASE rows'[c] = rows[c] /\ Served(c)
  <2>1. PICK k \in {RawKey(c), Version(c)} : k = PlayKey(rows[c]) /\ k # NoKey /\ s3[k] = c
    BY <1>1, <1>5 DEF Served, PlayKey, RowInv, OwnRow
  <2>2. CASE s3'[k] = c
    BY <1>4, <1>5, <2>1, <2>2
  <2>3. CASE s3'[k] # c
    <3>1. PICK p \in Pass : pass[p].chunk = c /\ (DropOriginal(p) \/ EraseObject(p))
      BY <2>1, <2>3, ObjectGoes
    <3>2. pass[p] \in PassState /\ pass \in [Pass -> PassState]
      BY <1>1 DEF Walk, Passes
    <3>3. pass'[p].pc \in {"commit", "forget"} /\ pass'[p].chunk = c
      BY <3>1, <3>2 DEF DropOriginal, EraseObject, Become, PassState
    <3> QED BY <3>3 DEF InHand
  <2> QED BY <2>2, <2>3
<1>6. ASSUME rows'[c].ckey = Version(c), s3' = s3, rows[c].state = "uploaded",
             NEW p \in Pass, pass[p].pc = "commit", pass[p].chunk = c
      PROVE  Served(c)' \/ InHand(c, {"commit", "forget"})'
  <2>1. Safe(c) \/ InHand(c, {"forget"})
    BY <1>1, <1>6 DEF Hidden, Ready
  <2>2. CASE Safe(c)
    BY <1>3, <1>4, <1>6, <2>2 DEF PlayKey, Safe
  <2>3. CASE InHand(c, {"forget"})
    <3>1. InHand(c, {"forget"})'
      BY <1>1, <2>3, ForgetKept
    <3>2. PICK q \in Pass : pass'[q].pc = "forget" /\ pass'[q].chunk = c
      BY <3>1 DEF InHand
    <3> QED BY <3>2 DEF InHand
  <2> QED BY <2>1, <2>2, <2>3
<1>7. CASE rows'[c].raw = RawKey(c) /\ s3' = [s3 EXCEPT ![RawKey(c)] = c]
  <2>1. rows'[c].ckey = NoKey
    BY <1>2, <1>3, <1>7 DEF RowInv
  <2>2. s3'[RawKey(c)] = c
    BY <1>1, <1>3, <1>7
  <2> QED BY <1>3, <1>4, <1>7, <2>1, <2>2 DEF PlayKey
<1>8. CASE rows'[c] = rows[c] /\ ~Served(c)
  <2>1. PICK p \in Pass : pass[p].pc \in {"commit", "forget"} /\ pass[p].chunk = c
    BY <1>1, <1>8 DEF Hidden, HiddenOnlyInHand, InHand
  <2>2. ~ForgetRow(p)
    BY <1>1, <2>1, Forgotten
  <2>3. ASSUME CommitCompressed(p) PROVE Served(c)' \/ InHand(c, {"commit", "forget"})'
    <3>1. /\ rows[c].state = "uploaded" /\ pass[p].pc = "commit" /\ s3' = s3
          /\ rows' = [rows EXCEPT ![c] = CompressedRow(@, CompressedKey(pass[p].key))]
      BY <1>8, <2>1, <2>3 DEF CommitCompressed, Exists
    <3>2. pass[p].key = RawKey(c)
      BY <1>1, <2>1, <3>1 DEF Walk, Passes, Sound
    <3>3. rows'[c].ckey = Version(c)
      BY <1>1, <3>1, <3>2 DEF CompressedRow, Row, Version
    <3> QED BY <1>6, <2>1, <3>1, <3>3
  <2>4. CASE pass'[p] = pass[p]
    <3>1. pass'[p].pc \in {"commit", "forget"} /\ pass'[p].chunk = c
      BY <2>1, <2>4
    <3> QED BY <3>1 DEF InHand
  <2> QED BY <1>1, <2>1, <2>2, <2>3, <2>4, HandKept
<1> QED BY <1>1, <1>5, <1>6, <1>7, <1>8, RowStep

(***************************************************************************)
(* The key playback picks for an uploaded row of a chunk with keys of its  *)
(* own holds the footage, except between the delete of that object and the *)
(* commit of the row, or when a pass has broken off there; whatever passes *)
(* overlap, whatever fails.                                                *)
(***************************************************************************)
THEOREM PlayedUnlessInHand == Spec => []HiddenOnlyInHand
<1>1. Init => Inv /\ Hidden
  BY InvInit DEF Init, Idle, NoRow, Hidden, Ready, HiddenOnlyInHand, Proper
<1>2. Inv /\ Hidden /\ [Next]_vars => (Inv /\ Hidden)'
  BY InvNext, ReadyStep, HiddenStep DEF Hidden
<1>3. Hidden => HiddenOnlyInHand
  BY DEF Hidden
<1> QED BY <1>1, <1>2, <1>3, PTL DEF Spec

-----------------------------------------------------------------------------
(* Passes that are not disturbed: one at a time                            *)

Alone   == \A p, q \in Pass : pass[p].pc # "idle" /\ pass[q].pc # "idle" => p = q
Settled == ~disturbed => Alone

(***************************************************************************)
(* Once disturbed, always; a restart or a failing commit disturbs a pass,  *)
(* and one that starts disturbs another.                                   *)
(***************************************************************************)
LEMMA Undisturbed ==
  ASSUME [Next]_vars, ~disturbed'
  PROVE  /\ ~disturbed
         /\ Restart => Quiet
         /\ \A p \in Pass : ~CommitFails(p) /\ (Start(p) => Quiet)
<1>1. Restart => Quiet /\ ~disturbed
  BY Zenon DEF Restart
<1>2. ASSUME NEW p \in Pass PROVE ~CommitFails(p) /\ (Start(p) => Quiet /\ ~disturbed)
  BY Zenon DEF CommitFails, Start
<1>3. \/ disturbed' = disturbed
      \/ Restart \/ \E p \in Pass : Start(p) \/ CommitFails(p)
  BY ZenonT(60) DEF Next, PassStep, Run, vars, budgets, Capture, Upload, Age, UpdatePolicy,
         Pick, CompressDone, Download, DownloadFails, UploadCompressed, UploadFails,
         DropOriginal, CommitCompressed, QueryExpired, PickExpired, EraseObject, ForgetRow,
         ExpireDone
<1>4. CASE disturbed' = disturbed
  <2>1. ~disturbed
    BY <1>4
  <2> QED BY <1>1, <1>2, <2>1, Zenon
<1> QED BY <1>1, <1>2, <1>3, <1>4, Zenon

(***************************************************************************)
(* What a step leaves of a chunk in hand.                                  *)
(***************************************************************************)
LEMMA HandStep ==
  ASSUME Walk, [Next]_vars, ~disturbed', NEW p \in Pass, pass[p].pc \in {"commit", "erase", "forget"}
  PROVE  \/ pass'[p] = pass[p]
         \/ CommitCompressed(p) \/ ForgetRow(p)
         \/ EraseObject(p) /\ pass'[p].pc = "forget" /\ pass'[p].chunk = pass[p].chunk
<1>1. ~Restart /\ ~CommitFails(p)
  BY Undisturbed DEF Quiet
<1>2. ASSUME OneMoves(p) PROVE CommitCompressed(p) \/ ForgetRow(p) \/ EraseObject(p)
  BY <1>1, <1>2 DEF OneMoves, PassStep, Run, Start, CompressDone, Download, UploadCompressed, DropOriginal,
        QueryExpired, ExpireDone, Pick, PickExpired, DownloadFails, UploadFails
<1>3. ASSUME EraseObject(p) PROVE pass'[p].pc = "forget" /\ pass'[p].chunk = pass[p].chunk
  BY <1>3 DEF EraseObject, Become, Walk, Passes, PassState
<1> QED BY <1>1, <1>2, <1>3, Mover

LEMMA AloneStep ==
  ASSUME Walk, Alone, [Next]_vars, ~disturbed' PROVE Alone'
<1>1. CASE UNCHANGED pass
  BY <1>1 DEF Alone
<1>2. CASE Restart
  <2>1. \A p \in Pass : pass'[p].pc = "idle"
    BY <1>2 DEF Restart, Idle
  <2> QED BY <2>1 DEF Alone
<1>3. ASSUME NEW p \in Pass, OneMoves(p), \A q \in Pass \ {p} : pass'[q] = pass[q]
      PROVE  Alone'
  <2>1. pass[p].pc # "idle" \/ Start(p)
    BY <1>3 DEF OneMoves, PassStep, Run, CompressDone, Download, UploadCompressed, DropOriginal, EraseObject,
        QueryExpired, ExpireDone, Pick, PickExpired, DownloadFails, UploadFails, CommitFails,
        CommitCompressed, ForgetRow
  <2>2. \A q \in Pass \ {p} : pass[q].pc = "idle"
    BY <2>1, Undisturbed DEF Alone, Quiet
  <2>3. \A q \in Pass \ {p} : pass'[q].pc = "idle"
    BY <1>3, <2>2
  <2> QED BY <2>3, SMTT(30) DEF Alone
<1> QED BY <1>1, <1>2, <1>3, Mover

LEMMA SettledStep == Inv /\ Settled /\ [Next]_vars => Settled'
<1> SUFFICES ASSUME Inv, Settled, [Next]_vars, ~disturbed' PROVE Alone'
  BY DEF Settled
<1>1. Walk /\ Alone
  BY Undisturbed DEF Settled, Inv
<1> QED BY <1>1, AloneStep

-----------------------------------------------------------------------------
(* No orphans                                                              *)

Stored(c)     == rows[c].state = "uploaded"
Compressed(c) == Stored(c) /\ rows[c].compressed

\* What an undisturbed pass has in hand and in its cache is as the rows say.
Tidy(r) ==
    /\ \A c \in Chunk : r.cache[c] # NoRow => Stored(c) /\ r.cache[c] = rows[c] /\ r.pc # "idle"
    /\ r.pc \in {"compress", "download", "convert", "drop", "commit"} => \A c \in r.todo : Stored(c)
    /\ r.pc \in {"download", "convert", "drop", "commit"} => Stored(r.chunk)
    /\ r.pc \in {"expire", "erase", "forget"} => \A c \in r.todo : Compressed(c)
    /\ r.pc \in {"erase", "forget"} => Compressed(r.chunk) /\ r.chunk \notin r.todo
    /\ r.pc = "erase" => r.key = Version(r.chunk)

Tidies == \A p \in Pass : Tidy(pass[p])

LEMMA TidyIdle == Tidy(Idle)
BY DEF Tidy, Idle

(***************************************************************************)
(* The session loads the rows as they are.                                 *)
(***************************************************************************)
LEMMA TidyFill ==
  ASSUME Walk, NEW p \in Pass, Tidy(pass[p]), NEW S, \A c \in S : Stored(c)
  PROVE  \A c \in Chunk : /\ Fill(p, S)[c] # NoRow => Stored(c) /\ Fill(p, S)[c] = rows[c]
                          /\ c \in S => Fill(p, S)[c] = rows[c]
<1> SUFFICES ASSUME NEW c \in Chunk
             PROVE  /\ Fill(p, S)[c] # NoRow => Stored(c) /\ Fill(p, S)[c] = rows[c]
                    /\ c \in S => Fill(p, S)[c] = rows[c]
  OBVIOUS
<1>1. pass[p].cache[c] # NoRow => Stored(c) /\ pass[p].cache[c] = rows[c]
  BY DEF Tidy
<1>2. Fill(p, S)[c] = IF c \in S /\ pass[p].cache[c] = NoRow THEN rows[c] ELSE pass[p].cache[c]
  BY DEF Fill, Loaded
<1> QED BY <1>1, <1>2

(***************************************************************************)
(* A step of a pass that writes no row.                                    *)
(***************************************************************************)
LEMMA TidyMove ==
  ASSUME Walk, NEW p \in Pass, Tidy(pass[p]), OneMoves(p), ~CommitCompressed(p), ~ForgetRow(p)
  PROVE  Tidy(pass'[p])
<1>1. pass \in [Pass -> PassState] /\ pass[p] \in PassState
  BY DEF Walk, Passes
<1>2. ASSUME NEW r, Become(p, r) PROVE pass'[p] = r
  BY <1>1, <1>2 DEF Become
<1>3. ASSUME Leave(p) PROVE Tidy(pass'[p])
  BY <1>2, <1>3, TidyIdle DEF Leave
<1>4. ASSUME Become(p, NextChunk(p)),
             pass[p].pc \in {"compress", "download", "convert", "drop", "commit"}
      PROVE  Tidy(pass'[p])
  <2>1. Tidy(NextChunk(p))
    BY <1>1, <1>4 DEF NextChunk, Tidy, PassState
  <2> QED BY <1>2, <1>4, <2>1
<1>5. ASSUME NEW pc, Become(p, [pass[p] EXCEPT !.pc = pc]),
             \/ pc = "query"   /\ pass[p].pc = "compress"
             \/ pc = "convert" /\ pass[p].pc = "download"
             \/ pc = "drop"    /\ pass[p].pc = "convert"
             \/ pc = "commit"  /\ pass[p].pc = "drop"
             \/ pc = "forget"  /\ pass[p].pc = "erase"
      PROVE  Tidy(pass'[p])
  <2> DEFINE r == [pass[p] EXCEPT !.pc = pc]
  <2>1. /\ r.pc = pc /\ r.todo = pass[p].todo /\ r.chunk = pass[p].chunk
        /\ r.key = pass[p].key /\ r.cache = pass[p].cache
    BY <1>1 DEF PassState
  <2>2. pass'[p] = r
    BY <1>2, <1>5
  <2> HIDE DEF r
  <2>3. Tidy(r)
    BY <1>5, <2>1 DEF Tidy
  <2> QED BY <2>2, <2>3
<1>6. CASE Start(p)
  <2> DEFINE candidates == {c \in Overdue(settings.raw) :
              rows[c].state = "uploaded" /\ ~rows[c].compressed /\ rows[c].raw # NoKey}
             cache == Fill(p, candidates)
             r == [Idle EXCEPT !.pc = "compress", !.todo = candidates, !.days = settings.compressed,
                               !.cache = cache]
  <2>1. Become(p, r)
    BY <1>6 DEF Start
  <2>2. \A c \in candidates : Stored(c)
    BY DEF Stored
  <2>3. \A c \in Chunk : cache[c] # NoRow => Stored(c) /\ cache[c] = rows[c]
    <3> HIDE DEF candidates
    <3> QED BY <2>2, TidyFill
  <2> HIDE DEF candidates, cache
  <2>4. r.pc = "compress" /\ r.todo = candidates /\ r.cache = cache
    BY DEF Idle
  <2> HIDE DEF r
  <2>5. Tidy(r)
    BY <2>2, <2>3, <2>4 DEF Tidy
  <2> QED BY <1>2, <2>1, <2>5
<1>7. CASE QueryExpired(p)
  <2> DEFINE expired == {c \in Overdue(pass[p].days) : rows[c].compressed}
             cache   == Fill(p, expired)
             r       == [pass[p] EXCEPT !.pc = "expire", !.todo = expired, !.cache = cache]
  <2>1. Become(p, r)
    BY <1>7 DEF QueryExpired
  <2>2. \A c \in expired : Compressed(c)
    BY DEF Compressed, Stored, Overdue, Walk, Rows, RowInv
  <2>3. \A c \in Chunk : cache[c] # NoRow => Stored(c) /\ cache[c] = rows[c]
    <3> HIDE DEF expired
    <3> QED BY <2>2, TidyFill DEF Compressed
  <2> HIDE DEF expired, cache
  <2>4. r.pc = "expire" /\ r.todo = expired /\ r.cache = cache
    BY <1>1 DEF PassState
  <2> HIDE DEF r
  <2>5. Tidy(r)
    BY <2>2, <2>3, <2>4 DEF Tidy
  <2> QED BY <1>2, <2>1, <2>5
<1>8. ASSUME NEW c \in Chunk, Pick(p, c) PROVE Tidy(pass'[p])
  <2> DEFINE cache == Fill(p, {c})
             k     == Seen(p, c).raw
             next  == [NextChunk(p) EXCEPT !.todo = @ \ {c}, !.cache = cache]
             r     == [next EXCEPT !.pc = "download", !.chunk = c, !.key = k]
  <2>1. c \in pass[p].todo /\ pass[p].pc = "compress"
        /\ (Leave(p) \/ Become(p, r) \/ Become(p, next))
    BY <1>8 DEF Pick
  <2>2. Stored(c) /\ \A d \in pass[p].todo : Stored(d)
    BY <2>1 DEF Tidy
  <2>3. \A d \in Chunk : cache[d] # NoRow => Stored(d) /\ cache[d] = rows[d]
    BY <2>2, TidyFill
  <2> HIDE DEF cache, k
  <2>4. /\ next.pc = "compress" /\ next.todo = pass[p].todo \ {c} /\ next.cache = cache
        /\ r.pc = "download" /\ r.todo = pass[p].todo \ {c} /\ r.cache = cache /\ r.chunk = c
    BY <1>1 DEF NextChunk, PassState
  <2> HIDE DEF next, r
  <2>5. Tidy(next) /\ Tidy(r)
    BY <2>2, <2>3, <2>4 DEF Tidy
  <2> QED BY <1>2, <1>3, <2>1, <2>5
<1>9. ASSUME NEW c \in Chunk, PickExpired(p, c) PROVE Tidy(pass'[p])
  <2> DEFINE cache == Fill(p, {c})
             k     == ExpiredKey(Seen(p, c))
             pc    == IF k = NoKey THEN "forget" ELSE "erase"
             r     == [pass[p] EXCEPT !.pc = pc, !.todo = @ \ {c}, !.chunk = c, !.key = k,
                                      !.cache = cache]
  <2>1. c \in pass[p].todo /\ pass[p].pc = "expire" /\ (Leave(p) \/ Become(p, r))
    BY <1>9 DEF PickExpired
  <2>2. Compressed(c) /\ Stored(c) /\ \A d \in pass[p].todo : Compressed(d)
    BY <2>1 DEF Tidy, Compressed
  <2>3. \A d \in Chunk : cache[d] # NoRow => Stored(d) /\ cache[d] = rows[d]
    BY <2>2, TidyFill
  <2>4. Seen(p, c) = rows[c]
    BY <2>2, TidyFill DEF Seen
  <2>5. k = Version(c)
    BY <2>2, <2>4 DEF Compressed, Stored, ExpiredKey, Walk, Rows, RowInv, OwnRow
  <2>6. pc \in {"erase", "forget"}
    OBVIOUS
  <2> HIDE DEF cache, k, pc
  <2>7. /\ r.pc = pc /\ r.todo = pass[p].todo \ {c} /\ r.chunk = c
        /\ r.key = k /\ r.cache = cache
    BY <1>1 DEF PassState
  <2> HIDE DEF r
  <2>8. Tidy(r)
    BY <2>2, <2>3, <2>5, <2>6, <2>7 DEF Tidy
  <2> QED BY <1>2, <1>3, <2>1, <2>8
<1>10. CASE CompressDone(p) \/ Download(p) \/ UploadCompressed(p) \/ DropOriginal(p) \/ EraseObject(p)
  BY <1>3, <1>4, <1>5, <1>10
     DEF CompressDone, Download, UploadCompressed, DropOriginal, EraseObject
<1>11. CASE ExpireDone(p) \/ DownloadFails(p) \/ UploadFails(p) \/ CommitFails(p)
  BY <1>3, <1>4, <1>11 DEF ExpireDone, DownloadFails, UploadFails, CommitFails, OnUploadError
<1> QED BY <1>6, <1>7, <1>8, <1>9, <1>10, <1>11 DEF OneMoves, PassStep, Run

(***************************************************************************)
(* A pass that writes a row forgets its cache; the others are idle.        *)
(***************************************************************************)
LEMMA TidyWrite ==
  ASSUME Walk, Alone, Tidies, NEW p \in Pass, CommitCompressed(p) \/ ForgetRow(p),
         \A q \in Pass \ {p} : pass'[q] = pass[q]
  PROVE  Tidies'
<1>1. pass \in [Pass -> PassState] /\ pass[p] \in PassState /\ rows \in [Chunk -> Row]
  BY DEF Walk, Passes, Rows
<1>2. ASSUME NEW r, Become(p, r) PROVE pass'[p] = r
  BY <1>1, <1>2 DEF Become
<1>3. ASSUME NEW q \in Pass \ {p} PROVE Tidy(pass[q])'
  <2>1. pass'[q].pc = "idle" /\ Tidy(pass[q]) /\ pass'[q] = pass[q]
    BY <1>3 DEF Alone, Tidies, CommitCompressed, ForgetRow
  <2> QED BY <2>1 DEF Tidy
<1>4. Expired = [c \in Chunk |-> NoRow]
  BY DEF Expired
<1>5. CASE Leave(p)
  <2>1. pass'[p] = Idle
    BY <1>2, <1>5 DEF Leave
  <2>2. Tidy(pass[p])'
    BY <2>1 DEF Tidy, Idle
  <2> QED BY <1>3, <2>2 DEF Tidies
<1>6. CASE CommitCompressed(p) /\ ~Leave(p)
  <2>1. /\ pass'[p] = [NextChunk(p) EXCEPT !.cache = Expired] /\ pass[p].pc = "commit"
        /\ rows' = [rows EXCEPT ![pass[p].chunk] = CompressedRow(@, CompressedKey(pass[p].key))]
    BY <1>2, <1>6 DEF CommitCompressed
  <2>2. pass'[p].pc = "compress" /\ pass'[p].todo = pass[p].todo /\ pass'[p].cache = Expired
    BY <1>1, <1>4, <2>1 DEF NextChunk, PassState
  <2>3. \A c \in Chunk : rows'[c].state = rows[c].state
    BY <1>1, <2>1 DEF CompressedRow, Row
  <2>4. \A c \in pass[p].todo : rows[c].state = "uploaded" /\ c \in Chunk
    BY <1>1, <2>1 DEF Tidies, Tidy, Stored, PassState
  <2>5. Tidy(pass[p])'
    BY <1>4, <2>2, <2>3, <2>4 DEF Tidy, Stored
  <2> QED BY <1>3, <2>5 DEF Tidies
<1>7. CASE ForgetRow(p)
  <2>1. /\ pass'[p] = [NextExpired(p) EXCEPT !.cache = Expired] /\ pass[p].pc = "forget"
        /\ rows' = [rows EXCEPT ![pass[p].chunk] = [NoRow EXCEPT !.state = "deleted"]]
    BY <1>2, <1>7 DEF ForgetRow
  <2>2. pass'[p].pc = "expire" /\ pass'[p].todo = pass[p].todo /\ pass'[p].cache = Expired
    BY <1>1, <1>4, <2>1 DEF NextExpired, PassState
  <2>3. \A c \in pass[p].todo : c \in Chunk /\ Compressed(c) /\ rows'[c] = rows[c]
    BY <1>1, <2>1 DEF Tidies, Tidy, PassState
  <2>4. Tidy(pass[p])'
    BY <1>4, <2>2, <2>3 DEF Tidy, Compressed, Stored
  <2> QED BY <1>3, <2>4 DEF Tidies
<1> QED BY <1>5, <1>6, <1>7

LEMMA TidiesStep ==
  ASSUME Walk, Walk', Alone, Tidies, [Next]_vars PROVE Tidies'
<1>1. CASE \E p \in Pass : CommitCompressed(p) \/ ForgetRow(p)
  <2> PICK p \in Pass : CommitCompressed(p) \/ ForgetRow(p)
    BY <1>1
  <2>1. \E r : Become(p, r)
    BY DEF CommitCompressed, ForgetRow, Leave
  <2>2. \A q \in Pass \ {p} : pass'[q] = pass[q]
    BY <2>1 DEF Become, Walk, Passes
  <2> QED BY <2>2, TidyWrite
<1>2. CASE ~ \E p \in Pass : CommitCompressed(p) \/ ForgetRow(p)
  <2>1. \A c \in Chunk : Stored(c) => rows'[c] = rows[c]
    <3>1. UNCHANGED rows \/ \E c \in Chunk : Capture(c) \/ Upload(c)
      BY <1>2, ZenonT(60) DEF Next, PassStep, Run, vars, Age, UpdatePolicy, Restart, Start, Pick, CompressDone, Download,
            DownloadFails, UploadCompressed, UploadFails, DropOriginal, QueryExpired,
            PickExpired, EraseObject, ExpireDone, CommitFails
    <3>2. ASSUME NEW c \in Chunk, Capture(c) \/ Upload(c)
          PROVE  ~Stored(c) /\ \A d \in Chunk \ {c} : rows'[d] = rows[d]
      BY <3>2 DEF Capture, Upload, Stored, Walk, Rows
    <3> QED BY <3>1, <3>2, SMTT(30)
  <2>2. \A p \in Pass : Tidy(pass'[p])
    <3>1. CASE UNCHANGED pass
      BY <3>1 DEF Tidies
    <3>2. CASE Restart
      BY <3>2, TidyIdle DEF Restart
    <3>3. ASSUME NEW p \in Pass, OneMoves(p), \A q \in Pass \ {p} : pass'[q] = pass[q]
          PROVE  \A q \in Pass : Tidy(pass'[q])
      BY <1>2, <3>3, TidyMove DEF Tidies
    <3> QED BY <3>1, <3>2, <3>3, Mover
  <2>3. \A c \in Chunk : /\ Stored(c) => Stored(c)'
                         /\ Compressed(c) => Compressed(c)'
    BY <2>1 DEF Stored, Compressed
  <2>4. ASSUME NEW p \in Pass PROVE Tidy(pass[p])'
    <3>1. PICK r : r = pass'[p] /\ Tidy(r)
      BY <2>2
    <3>2. /\ r.todo \subseteq Chunk
          /\ r.pc \in {"download", "convert", "drop", "commit", "erase", "forget"} => r.chunk \in Chunk
      BY <3>1 DEF Walk, Passes, PassState, Sound, Doom
    <3>3. Version(r.chunk)' = Version(r.chunk)
      BY DEF Version, CompressedKey, RawKey
    <3>4. Tidy(r)'
      BY <2>1, <2>3, <3>1, <3>2, <3>3 DEF Tidy
    <3> QED BY <3>1, <3>4 DEF Tidy, Stored, Compressed, Version, CompressedKey, RawKey
  <2> QED BY <2>4 DEF Tidies
<1> QED BY <1>1, <1>2

\* An object has the key of its chunk; a row names it, or the pass that stored it is about to.
Filed == \A k \in Key : s3[k] # NoChunk => k \in {RawKey(s3[k]), Version(s3[k])}
Named == \A c \in Proper : /\ s3[RawKey(c)] = c => rows[c].raw = RawKey(c)
                           /\ s3[Version(c)] = c => \/ rows[c].ckey = Version(c)
                                                    \/ InHand(c, {"drop", "commit"})
\* An object a row is about to stop naming is gone.
Gone  == \A p \in Pass : pass[p].chunk \in Proper =>
                         /\ pass[p].pc = "commit" => s3[RawKey(pass[p].chunk)] # pass[p].chunk
                         /\ pass[p].pc = "forget" => s3[Version(pass[p].chunk)] # pass[p].chunk

Clean == ~disturbed => /\ Tidies
                       /\ s3Faults = 0 => Named /\ Gone

LEMMA FiledStep == ASSUME Walk, Bucket, Filed, [Next]_vars PROVE Filed'
<1> SUFFICES ASSUME NEW k \in Key, s3'[k] # NoChunk PROVE k \in {RawKey(s3'[k]), Version(s3'[k])}
  BY DEF Filed, RawKey, Version, CompressedKey
<1>1. s3'[k] = s3[k] => k \in {RawKey(s3'[k]), Version(s3'[k])}
  BY DEF Filed
<1>2. ASSUME NEW d \in Chunk, NEW l \in {RawKey(d), Version(d)}, s3' = [s3 EXCEPT ![l] = d]
      PROVE  s3'[k] = s3[k] \/ (k = l /\ s3'[k] = d)
  BY <1>2 DEF Bucket
<1>3. ASSUME NEW l, s3' = [s3 EXCEPT ![l] = NoChunk] PROVE s3'[k] = s3[k]
  BY <1>3 DEF Bucket
<1> QED BY <1>1, <1>2, <1>3, BucketMoves

(***************************************************************************)
(* An object of a chunk appears only by an upload of it.                   *)
(***************************************************************************)
LEMMA ObjectComes ==
  ASSUME Inv, [Next]_vars, NEW c \in Proper,
         NEW k \in {RawKey(c), Version(c)}, s3[k] # c, s3'[k] = c
  PROVE  \/ k = RawKey(c) /\ Upload(c)
         \/ /\ k = Version(c)
            /\ \E p \in Pass : pass[p].chunk = c /\ (UploadCompressed(p) \/ UploadFails(p))
<1>1. s3 \in [Key -> Chunk \cup {NoChunk}] /\ k \in Key /\ c # NoChunk /\ c \in Chunk
  BY KeyType, NullAssumption DEF Inv, Bucket, Proper
<1>2. Walk
  BY DEF Inv
<1>3. \A l : s3' # [s3 EXCEPT ![l] = NoChunk]
  BY <1>1
<1>4. ASSUME NEW d \in Chunk, NEW l, s3' = [s3 EXCEPT ![l] = d] PROVE d = c /\ l = k
  BY <1>1, <1>4
<1>5. RawKey(c) # Version(c)
  BY <1>1, OwnKeys
<1> QED BY <1>2, <1>3, <1>4, <1>5, BucketMoves

(***************************************************************************)
(* Without a failing S3 call, what is deleted is gone.                     *)
(***************************************************************************)
LEMMA Faultless ==
  ASSUME Inv, [Next]_vars, s3Faults' = 0
  PROVE  /\ s3Faults = 0
         /\ \A p \in Pass : /\ ~UploadFails(p)
                            /\ DropOriginal(p) \/ EraseObject(p) => s3'[pass[p].key] = NoChunk
<1>1. s3Faults \in Nat /\ s3 \in [Key -> Chunk \cup {NoChunk}]
  BY BoundAssumption DEF Inv, Numbers, Bucket
<1>2. ~S3Fault
  BY <1>1 DEF S3Fault
<1>3. s3Faults' = s3Faults \/ s3Faults' = s3Faults + 1
  <2>1. UNCHANGED s3Faults \/ S3Fault
    BY ZenonT(60) DEF Next, PassStep, Run, vars, budgets, Capture, Upload, Age, UpdatePolicy, Restart, Start,
           Pick, CompressDone, Download, DownloadFails, UploadCompressed, UploadFails,
           DropOriginal, CommitCompressed, QueryExpired, PickExpired, EraseObject, ForgetRow,
           ExpireDone, CommitFails, Delete
  <2> QED BY <2>1 DEF S3Fault
<1>4. ASSUME NEW p \in Pass, DropOriginal(p) \/ EraseObject(p) PROVE s3'[pass[p].key] = NoChunk
  <2>1. pass[p].key \in Key
    BY <1>4, KeyType DEF DropOriginal, EraseObject, Inv, Walk, Passes, Sound, Doom
  <2> QED BY <1>1, <1>2, <1>4, <2>1 DEF DropOriginal, EraseObject, Delete
<1>5. ASSUME NEW p \in Pass PROVE ~UploadFails(p)
  BY <1>2 DEF UploadFails
<1> QED BY <1>1, <1>3, <1>4, <1>5

(***************************************************************************)
(* What a step leaves of a pass that is about to drop or to commit.        *)
(***************************************************************************)
LEMMA DropStep ==
  ASSUME Walk, [Next]_vars, ~disturbed', NEW p \in Pass, pass[p].pc = "drop"
  PROVE  \/ pass'[p] = pass[p]
         \/ DropOriginal(p) /\ pass'[p].pc = "commit" /\ pass'[p].chunk = pass[p].chunk
<1>1. ~Restart /\ ~CommitFails(p)
  BY Undisturbed DEF Quiet
<1>2. ASSUME OneMoves(p) PROVE DropOriginal(p)
  BY <1>1, <1>2 DEF OneMoves, PassStep, Run, Start, CompressDone, Download, UploadCompressed,
        CommitCompressed, ForgetRow, EraseObject, QueryExpired, ExpireDone, Pick, PickExpired,
        DownloadFails, UploadFails
<1>3. ASSUME DropOriginal(p) PROVE pass'[p].pc = "commit" /\ pass'[p].chunk = pass[p].chunk
  BY <1>3 DEF DropOriginal, Become, Walk, Passes, PassState
<1> QED BY <1>1, <1>2, <1>3, Mover

LEMMA NamedStep ==
  ASSUME Inv, Inv', Alone, Tidies, Named, Gone,
         [Next]_vars, ~disturbed', s3Faults' = 0
  PROVE  Named'
<1>1. Walk /\ rows \in [Chunk -> Row] /\ pass \in [Pass -> PassState]
  BY DEF Inv, Walk, Rows, Passes
<1>2. ASSUME NEW c \in Proper, s3'[RawKey(c)] = c PROVE rows'[c].raw = RawKey(c)
  <2>1. RowInv(c) /\ RawKey(c) # NoKey /\ c \in Chunk
    BY KeyType DEF Inv, Walk, Rows, Proper
  <2>2. CASE s3[RawKey(c)] = c
    <3>1. rows[c].raw = RawKey(c)
      BY <2>2 DEF Named
    <3>2. rows[c].state = "uploaded" /\ ~rows[c].compressed
      BY <2>1, <3>1 DEF RowInv
    <3>3. ASSUME NEW p \in Pass, pass[p].pc = "commit", pass[p].chunk = c PROVE FALSE
      BY <2>2, <3>3 DEF Gone
    <3>4. ASSUME NEW p \in Pass, pass[p].pc = "forget", pass[p].chunk = c PROVE FALSE
      BY <3>2, <3>4 DEF Tidies, Tidy, Compressed
    <3> QED BY <1>1, <2>1, <3>1, <3>2, <3>3, <3>4, RowStep
  <2>3. CASE s3[RawKey(c)] # c
    <3>1. Upload(c)
      BY <1>2, <2>1, <2>3, ObjectComes, OwnKeys
    <3> QED BY <1>1, <2>1, <3>1 DEF Upload, Row
  <2> QED BY <2>2, <2>3
<1>3. ASSUME NEW c \in Proper, s3'[Version(c)] = c
      PROVE  rows'[c].ckey = Version(c) \/ InHand(c, {"drop", "commit"})'
  <2>1. RowInv(c) /\ Version(c) # NoKey /\ c \in Chunk
    BY KeyType DEF Inv, Walk, Rows, Proper
  <2>2. CASE s3[Version(c)] # c
    <3>1. PICK p \in Pass : pass[p].chunk = c /\ UploadCompressed(p)
      BY <1>3, <2>1, <2>2, ObjectComes, OwnKeys, Faultless
    <3>2. pass'[p].chunk = c /\ pass'[p].pc = "drop"
      BY <1>1, <3>1 DEF UploadCompressed, Become, PassState
    <3> QED BY <3>2 DEF InHand
  <2>3. CASE s3[Version(c)] = c /\ rows[c].ckey = Version(c)
    <3>1. rows[c].state = "uploaded"
      BY <2>1, <2>3 DEF RowInv
    <3>2. ASSUME NEW p \in Pass, pass[p].pc = "forget", pass[p].chunk = c PROVE FALSE
      BY <2>3, <3>2 DEF Gone
    <3> QED BY <1>1, <2>1, <2>3, <3>1, <3>2, RowStep
  <2>4. ASSUME NEW p \in Pass, pass[p].pc \in {"drop", "commit"}, pass[p].chunk = c
        PROVE  rows'[c].ckey = Version(c) \/ InHand(c, {"drop", "commit"})'
    <3>1. CASE pass'[p].pc \in {"drop", "commit"} /\ pass'[p].chunk = c
      BY <3>1 DEF InHand
    <3>2. CASE CommitCompressed(p)
      <4>1. Stored(c) /\ pass[p].pc = "commit"
        BY <2>4, <3>2 DEF Tidies, Tidy, CommitCompressed
      <4>2. rows' = [rows EXCEPT ![c] = CompressedRow(@, CompressedKey(pass[p].key))]
        BY <2>4, <3>2, <4>1 DEF CommitCompressed, Exists, Stored
      <4>3. pass[p].key = RawKey(c)
        BY <1>1, <2>4, <4>1 DEF Walk, Passes, Sound
      <4> QED BY <1>1, <2>1, <4>2, <4>3 DEF CompressedRow, Row, Version
    <3>3. ~ForgetRow(p) /\ ~EraseObject(p)
      BY <2>4 DEF ForgetRow, EraseObject
    <3> QED BY <1>1, <2>4, <3>1, <3>2, <3>3, DropStep, HandStep
  <2> QED BY <2>2, <2>3, <2>4 DEF Named, InHand
<1>4. \A c : RawKey(c)' = RawKey(c) /\ Version(c)' = Version(c)
  BY DEF RawKey, Version, CompressedKey
<1> QED BY <1>2, <1>3, <1>4 DEF Named, Proper

(***************************************************************************)
(* A pass gets to forget a row only by erasing its object, and to commit   *)
(* only by dropping the original.                                          *)
(***************************************************************************)
LEMMA Arrivals ==
  ASSUME Walk, Tidies, [Next]_vars, NEW p \in Pass
  PROVE  /\ pass'[p].pc = "commit" => pass'[p] = pass[p] \/ DropOriginal(p)
         /\ pass'[p].pc = "forget" => pass'[p] = pass[p] \/ EraseObject(p)
<1> DEFINE Goal == /\ pass'[p].pc = "commit" => DropOriginal(p)
                   /\ pass'[p].pc = "forget" => EraseObject(p)
<1>1. pass \in [Pass -> PassState] /\ pass[p] \in PassState
  BY DEF Walk, Passes
<1>2. ASSUME NEW r, Become(p, r) PROVE pass'[p] = r
  BY <1>1, <1>2 DEF Become
<1>3. Idle.pc = "idle" /\ NextChunk(p).pc = "compress" /\ NextExpired(p).pc = "expire"
  BY <1>1 DEF Idle, NextChunk, NextExpired, PassState
<1>4. ASSUME Become(p, NextChunk(p)) \/ Become(p, NextExpired(p)) \/ Leave(p) PROVE Goal
  BY <1>2, <1>3, <1>4 DEF Leave
<1>5. ASSUME NEW pc \in {"query", "convert", "drop"}, Become(p, [pass[p] EXCEPT !.pc = pc]) PROVE Goal
  BY <1>1, <1>2, <1>5 DEF PassState
<1>6. ASSUME NEW c \in Chunk, PickExpired(p, c) PROVE Goal
  <2> DEFINE k == ExpiredKey(Seen(p, c))
             r(pc, f) == [pass[p] EXCEPT !.pc = pc, !.todo = @ \ {c}, !.chunk = c, !.key = k, !.cache = f]
  <2>1. /\ c \in pass[p].todo /\ pass[p].pc = "expire"
        /\ Leave(p) \/ \E f : Become(p, r(IF k = NoKey THEN "forget" ELSE "erase", f))
    BY <1>6 DEF PickExpired
  <2>2. k # NoKey
    <3>1. Tidy(pass[p])
      BY DEF Tidies
    <3>2. Compressed(c) /\ Stored(c)
      BY <2>1, <3>1 DEF Tidy, Compressed
    <3>3. Seen(p, c) = rows[c]
      BY <3>1, <3>2, TidyFill DEF Seen
    <3> QED BY <3>2, <3>3 DEF Compressed, Stored, ExpiredKey, Walk, Rows, RowInv
  <2> HIDE DEF k
  <2>3. \A f : r("erase", f).pc = "erase"
    BY <1>1 DEF PassState
  <2> HIDE DEF r
  <2> QED BY <1>2, <1>4, <2>1, <2>2, <2>3
<1>7. ASSUME NEW c \in Chunk, Pick(p, c) PROVE Goal
  <2> DEFINE next == [NextChunk(p) EXCEPT !.todo = @ \ {c}, !.cache = Fill(p, {c})]
  <2>1. \/ Leave(p) \/ Become(p, next)
        \/ \E k : Become(p, [next EXCEPT !.pc = "download", !.chunk = c, !.key = k])
    BY <1>7 DEF Pick
  <2>2. next.pc = "compress"
        /\ \A k : [next EXCEPT !.pc = "download", !.chunk = c, !.key = k].pc = "download"
    BY <1>1 DEF NextChunk, PassState
  <2> HIDE DEF next
  <2> QED BY <1>2, <1>4, <2>1, <2>2
<1>8. CASE Start(p)
  <2>1. PICK S, d, f :
           Become(p, [Idle EXCEPT !.pc = "compress", !.todo = S, !.days = d, !.cache = f])
    BY <1>8 DEF Start
  <2>2. [Idle EXCEPT !.pc = "compress", !.todo = S, !.days = d, !.cache = f].pc = "compress"
    BY DEF Idle
  <2> QED BY <1>2, <2>1, <2>2
<1>9. CASE QueryExpired(p)
  <2>1. PICK S, f : Become(p, [pass[p] EXCEPT !.pc = "expire", !.todo = S, !.cache = f])
    BY <1>9 DEF QueryExpired
  <2>2. [pass[p] EXCEPT !.pc = "expire", !.todo = S, !.cache = f].pc = "expire"
    BY <1>1 DEF PassState
  <2> QED BY <1>2, <2>1, <2>2
<1>10. CASE CommitCompressed(p) \/ ForgetRow(p)
  <2>1. \/ Leave(p) \/ Become(p, [NextChunk(p) EXCEPT !.cache = Expired])
        \/ Become(p, [NextExpired(p) EXCEPT !.cache = Expired])
    BY <1>10 DEF CommitCompressed, ForgetRow
  <2>2. /\ [NextChunk(p) EXCEPT !.cache = Expired].pc = "compress"
        /\ [NextExpired(p) EXCEPT !.cache = Expired].pc = "expire"
    BY <1>1 DEF NextChunk, NextExpired, PassState
  <2> QED BY <1>2, <1>4, <2>1, <2>2
<1>11. CASE CompressDone(p) \/ Download(p) \/ UploadCompressed(p)
  BY <1>4, <1>5, <1>11 DEF CompressDone, Download, UploadCompressed
<1>12. CASE ExpireDone(p) \/ DownloadFails(p) \/ UploadFails(p) \/ CommitFails(p)
  BY <1>4, <1>12 DEF ExpireDone, DownloadFails, UploadFails, CommitFails, OnUploadError
<1>13. CASE DropOriginal(p)
  <2>1. pass'[p].pc = "commit"
    BY <1>1, <1>13 DEF DropOriginal, Become, PassState
  <2> QED BY <1>13, <2>1
<1>14. CASE EraseObject(p)
  <2>1. pass'[p].pc = "forget"
    BY <1>1, <1>14 DEF EraseObject, Become, PassState
  <2> QED BY <1>14, <2>1
<1>15. CASE OneMoves(p)
  BY <1>6, <1>7, <1>8, <1>9, <1>10, <1>11, <1>12, <1>13, <1>14, <1>15 DEF OneMoves, PassStep, Run
<1>16. CASE Restart
  BY <1>3, <1>16 DEF Restart
<1> QED BY <1>15, <1>16, Mover

LEMMA GoneStep ==
  ASSUME Inv, Inv', Alone, Tidies, Gone, [Next]_vars, s3Faults' = 0
  PROVE  Gone'
<1>1. Walk /\ pass \in [Pass -> PassState] /\ doomed \subseteq Chunk
      /\ Proper \subseteq Chunk
  BY DEF Inv, Walk, Passes, Doom, Proper
<1>2. ASSUME NEW p \in Pass, NEW c \in Proper, pass'[p].pc = "commit", pass'[p].chunk = c
      PROVE  s3'[RawKey(c)] # c
  <2>1. CASE DropOriginal(p)
    <3>1. pass[p].chunk = c /\ pass[p].key = RawKey(c)
      BY <1>1, <1>2, <2>1 DEF DropOriginal, Become, PassState, Walk, Passes, Sound
    <3> QED BY <1>1, <2>1, <3>1, Faultless, NullAssumption
  <2>2. CASE pass'[p] = pass[p]
    <3>1. Stored(c) /\ s3[RawKey(c)] # c
      BY <1>2, <2>2 DEF Tidies, Tidy, Gone
    <3>2. ~Upload(c)
      BY <3>1 DEF Upload, Stored
    <3> QED BY <1>1, <3>1, <3>2, ObjectComes, OwnKeys
  <2> QED BY <1>1, <1>2, <2>1, <2>2, Arrivals
<1>3. ASSUME NEW p \in Pass, NEW c \in Proper, pass'[p].pc = "forget", pass'[p].chunk = c
      PROVE  s3'[Version(c)] # c
  <2>1. CASE EraseObject(p)
    <3>1. pass[p].chunk = c /\ pass[p].pc = "erase"
      BY <1>1, <1>3, <2>1 DEF EraseObject, Become, PassState
    <3>2. pass[p].key = Version(c)
      BY <3>1 DEF Tidies, Tidy
    <3> QED BY <1>1, <2>1, <3>1, <3>2, Faultless, NullAssumption
  <2>2. CASE pass'[p] = pass[p]
    <3>1. s3[Version(c)] # c
      BY <1>3, <2>2 DEF Gone
    <3>2. ASSUME NEW q \in Pass PROVE ~UploadCompressed(q)
      BY <1>3, <2>2 DEF Alone, UploadCompressed
    <3> QED BY <1>1, <3>1, <3>2, ObjectComes, OwnKeys, Faultless
  <2> QED BY <1>1, <1>3, <2>1, <2>2, Arrivals
<1>4. \A c : RawKey(c)' = RawKey(c) /\ Version(c)' = Version(c)
  BY DEF RawKey, Version, CompressedKey
<1>5. ASSUME NEW p \in Pass, pass'[p].pc \in {"commit", "forget"} PROVE pass'[p].chunk \in Chunk
  BY <1>5 DEF Inv, Walk, Passes, Sound, Doom
<1> QED BY <1>2, <1>3, <1>4, <1>5 DEF Gone

(***************************************************************************)
(* When no pass is under way, none was disturbed and no S3 call has failed *)
(* yet, every object in the bucket of a chunk with keys of its own is one  *)
(* its row names.                                                          *)
(***************************************************************************)
THEOREM NothingOrphaned == Spec => []NoOrphans
<1> DEFINE Whole == Inv /\ Settled /\ Filed /\ Clean
<1>1. Init => Whole
  <2> SUFFICES ASSUME Init PROVE Whole
    OBVIOUS
  <2>1. Filed
    BY DEF Init, Filed
  <2>2. Tidies
    BY DEF Init, Tidies, Tidy, Idle
  <2>3. Named /\ Gone
    <3>1. \A c \in Chunk : s3[RawKey(c)] # c /\ s3[Version(c)] # c
      BY KeyType, NullAssumption DEF Init
    <3>2. \A p \in Pass : pass[p].pc = "idle"
      BY DEF Init, Idle
    <3> QED BY <3>1, <3>2 DEF Named, Gone, Proper
  <2> QED BY <2>1, <2>2, <2>3, InvInit DEF Clean, Settled, Alone, Init, Idle
<1>2. Whole /\ [Next]_vars => Whole'
  <2> SUFFICES ASSUME Whole, [Next]_vars PROVE Whole'
    OBVIOUS
  <2>1. Inv' /\ Settled' /\ Walk /\ Walk' /\ Bucket
    BY InvNext, SettledStep DEF Inv
  <2>2. Filed'
    BY <2>1, FiledStep
  <2>3. ASSUME ~disturbed' PROVE Tidies' /\ (s3Faults' = 0 => Named' /\ Gone')
    <3>1. Alone /\ Tidies /\ (s3Faults = 0 => Named /\ Gone)
      BY <2>3, Undisturbed DEF Settled, Clean
    <3> QED BY <2>1, <2>3, <3>1, TidiesStep, Faultless, NamedStep, GoneStep
  <2> QED BY <2>1, <2>2, <2>3 DEF Clean
<1>3. Whole => NoOrphans
  <2> SUFFICES ASSUME Whole, Quiet, ~disturbed, s3Faults = 0, NEW k \in Key, s3[k] \in Proper
               PROVE  Exists(s3[k]) /\ k \in {rows[s3[k]].raw, rows[s3[k]].ckey}
    BY DEF NoOrphans
  <2>1. PICK c \in Proper : s3[k] = c /\ c \in Chunk /\ c # NoChunk
    BY NullAssumption DEF Proper
  <2>2. k \in {RawKey(c), Version(c)}
    BY <2>1 DEF Filed
  <2>3. ~InHand(c, {"drop", "commit"})
    BY DEF InHand, Quiet
  <2>4. k \in {rows[c].raw, rows[c].ckey}
    BY <2>1, <2>2, <2>3 DEF Clean, Named
  <2>5. k # NoKey /\ RowInv(c)
    BY <2>1, <2>2, KeyType DEF Inv, Walk, Rows
  <2> QED BY <2>1, <2>4, <2>5 DEF RowInv, Exists
<1> QED BY <1>1, <1>2, <1>3, PTL DEF Spec
=============================================================================
