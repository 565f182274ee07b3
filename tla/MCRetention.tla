---------------------------- MODULE MCRetention -----------------------------
(***************************************************************************)
(* Instances of Retention for TLC.                                         *)
(***************************************************************************)
EXTENDS Retention, TLC

CONSTANTS a, b

OneChunk  == {a}
TwoChunks == {a, b}

OneStem   == a :> "10-00"
TwoStems  == a :> "10-00" @@ b :> "10-30"

OneArchive    == a :> "archive"
ArchiveFull   == a :> "archive" @@ b :> "full"
OneCompressed == a :> "compressed"

KeepAll == [raw |-> 1, compressed |-> 0]
=============================================================================
