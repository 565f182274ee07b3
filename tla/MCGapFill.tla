----------------------------- MODULE MCGapFill ------------------------------
(***************************************************************************)
(* Instances of GapFill for TLC.                                           *)
(***************************************************************************)
EXTENDS GapFill, TLC

Both == {"video", "audio"}

\* In units of 10 ms: 25 frames per second and blocks of 20 ms.
Block25 == "video" :> 4 @@ "audio" :> 2
=============================================================================
