----------------------------- MODULE ChunkStore -----------------------------
(***************************************************************************)
(* What the storage side of the recorder promises about one chunk of       *)
(* footage, with no queue, thread, database or bucket in sight: where the  *)
(* footage can be fetched from.  A chunk is recorded into the local        *)
(* buffer, it stays fetchable from the buffer until it is fetchable from   *)
(* object storage, and from there it only ever expires.                    *)
(*                                                                         *)
(* Playback finds a stored chunk by the key its record names.  While that  *)
(* key is not the one the footage is under, the chunk is hidden: still in  *)
(* object storage, but not fetchable.  There is no "lost" place: an        *)
(* implementation in which some step leaves a captured chunk neither in    *)
(* the buffer nor in object storage does not implement this module, and    *)
(* one that says when a chunk may be hidden says it by invariants of its   *)
(* own.                                                                    *)
(***************************************************************************)
CONSTANT Chunk          \* the chunks of footage

VARIABLE place          \* chunk -> where its footage can be fetched from

Place == {"nowhere", "buffered", "stored", "hidden", "expired"}

TypeOK == place \in [Chunk -> Place]

Init == place = [c \in Chunk |-> "nowhere"]

(***************************************************************************)
(* A recorder begins to write the chunk into the local buffer.             *)
(***************************************************************************)
Capture(c) ==
    /\ place[c] = "nowhere"
    /\ place' = [place EXCEPT ![c] = "buffered"]

(***************************************************************************)
(* The object store is on record as the chunk's home.                      *)
(***************************************************************************)
Store(c) ==
    /\ place[c] = "buffered"
    /\ place' = [place EXCEPT ![c] = "stored"]

(***************************************************************************)
(* The record and the key of the footage part, or agree again.             *)
(***************************************************************************)
Hide(c) ==
    /\ place[c] = "stored"
    /\ place' = [place EXCEPT ![c] = "hidden"]

Show(c) ==
    /\ place[c] = "hidden"
    /\ place' = [place EXCEPT ![c] = "stored"]

(***************************************************************************)
(* Retention deletes the chunk.                                            *)
(***************************************************************************)
Expire(c) ==
    /\ place[c] \in {"stored", "hidden"}
    /\ place' = [place EXCEPT ![c] = "expired"]

Next == \E c \in Chunk : Capture(c) \/ Store(c) \/ Hide(c) \/ Show(c) \/ Expire(c)

Spec == Init /\ [][Next]_place
=============================================================================
