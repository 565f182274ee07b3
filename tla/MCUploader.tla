----------------------------- MODULE MCUploader -----------------------------
(***************************************************************************)
(* Instances of Uploader for TLC: two chunks of one source.  Under the     *)
(* label "a" each has a key of its own; under "b" both build the same key, *)
(* as two chunks begun in the same minute do.                              *)
(***************************************************************************)
EXTENDS Uploader

CONSTANTS c1, c2

MCChunk == {c1, c2}
OneChunk == {c1}
MCLabel == {"a", "b"}
OneLabel == {"a"}

SharedKey == "ab"
MCKey   == {"a1", "a2", SharedKey}
OwnKey  == {"a1", "a2"}
MCKeyOf ==
    [p \in MCChunk \X MCLabel |->
        IF p[2] = "b" THEN SharedKey ELSE IF p[1] = c1 THEN "a1" ELSE "a2"]
OneKeyOf == [p \in OneChunk \X MCLabel |-> IF p[2] = "b" THEN SharedKey ELSE "a1"]
OwnKeyOf ==
    [p \in MCChunk \X OneLabel |-> IF p[1] = c1 THEN "a1" ELSE "a2"]

-----------------------------------------------------------------------------
(***************************************************************************)
(* README.md:102: chunks are uploaded on completion.  The code does not do *)
(* it: an ended chunk whose row is still 'pending' when the service        *)
(* restarts is never queued again.                                         *)
(***************************************************************************)
CompletedIsUploaded ==
    \A c \in Chunk : (rows[c].ended /\ c \in captured) ~> (rows[c].key # NoKey)
=============================================================================
