--------------------------- MODULE MCClipExporter ---------------------------
(***************************************************************************)
(* Instances of ClipExporter for TLC: two chunks with a gap; one clip that *)
(* begins and ends inside a chunk, one that begins in the gap.             *)
(***************************************************************************)
EXTENDS ClipExporter, TLC

CONSTANTS a, b

Recorded   == a :> [from |-> 1, to |-> 4] @@ b :> [from |-> 5, to |-> 8]
TwoWindows == 1 :> [from |-> 2, to |-> 7] @@ 2 :> [from |-> 4, to |-> 6]
=============================================================================
