----------------------------- MODULE Catalogue ------------------------------
(***************************************************************************)
(* What the API (app/api/__init__.py) answers to the watch page: the       *)
(* chunks of a source that overlap a window, and the bytes of a chunk that *)
(* a video element asks for.  Both only read; the module is pure.          *)
(***************************************************************************)
EXTENDS Integers, FiniteSets

CONSTANTS
    Chunk, Source,
    Row,        \* the chunks table while the page is open
    Now,        \* utcnow()
    NoChunk,
    Open,       \* a row without ended_at
    MaxBytes    \* bound: size of an object

ChunkRow == [source : Source, start : Nat, end : Nat \cup {Open},
             length : Nat,          \* duration of the file
             available : BOOLEAN]   \* a key, or a file in the buffer

ASSUME RowAssumption == Row \in [Chunk -> ChunkRow] /\ Now \in Nat /\ Open \notin Nat
ASSUME NullAssumption == NoChunk \notin Chunk
ASSUME ByteAssumption == MaxBytes \in Nat

-----------------------------------------------------------------------------
(* GET /api/timeline: a row that is still open ends now.                   *)

EffectiveEnd(c) == IF Row[c].end = Open THEN Now ELSE Row[c].end

Timeline(s, from, to) ==
    {c \in Chunk : Row[c].source = s /\ Row[c].start < to /\ EffectiveEnd(c) > from}

-----------------------------------------------------------------------------
(* GET /api/recordings/<id>/stream: the Range header is [from, to], either *)
(* of which may be absent.                                                 *)

Absent   == -1
Position == 0..MaxBytes
RangeHeader == [from : Position \cup {Absent}, to : Position \cup {Absent}]

MutantSuffixStart(total, n) == total - n
SuffixStart(total, n) == IF n > total THEN 0 ELSE total - n

First(r, total) == IF r.from # Absent THEN r.from
                   ELSE SuffixStart(total, IF r.to = Absent THEN 0 ELSE r.to)
Last(r, total)  == IF r.from # Absent /\ r.to # Absent THEN r.to ELSE total - 1

Refused(r, total) == First(r, total) >= total \/ Last(r, total) >= total
                        \/ First(r, total) > Last(r, total)

\* The bytes of the answer, as stream_range passes them to S3.
Bytes(r, total) == IF Refused(r, total) THEN {} ELSE First(r, total)..Last(r, total)

\* The bytes HTTP says a range names.
Named(r, total) == {b \in 0..(total - 1) :
    IF r.from = Absent THEN r.to # Absent /\ b >= total - r.to
                       ELSE b >= r.from /\ (r.to = Absent \/ b <= r.to)}
=============================================================================
