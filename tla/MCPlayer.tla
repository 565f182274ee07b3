------------------------------ MODULE MCPlayer ------------------------------
(***************************************************************************)
(* Instances of Player for TLC: source A has two chunks with a gap, the    *)
(* second one still recorded; B has one chunk, and a row that a crash left *)
(* open behind it.                                                         *)
(***************************************************************************)
EXTENDS Player, TLC

CONSTANTS a1, a2, b1, b2, A, B

AllChunks == {a1, a2, b1, b2}

Chunk_(s, from, to, length, available) ==
    [source |-> s, start |-> from, end |-> to, length |-> length, available |-> available]

Table == a1 :> Chunk_(A, 1, 3, 2, TRUE) @@ a2 :> Chunk_(A, 5, Open, 2, TRUE)
      @@ b1 :> Chunk_(B, 0, 3, 1, TRUE) @@ b2 :> Chunk_(B, 5, Open, 1, FALSE)
=============================================================================
