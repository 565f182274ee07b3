----------------------------- MODULE Retention ------------------------------
(***************************************************************************)
(* app/recorder/retention.py: the pass that replaces old uploads by a      *)
(* compressed version and deletes old compressed versions, with the two    *)
(* places that start it, the nightly job and POST /api/system/retention.   *)
(*                                                                         *)
(* A pass walks over rows its SQLAlchemy session has cached.  Between any  *)
(* two of its steps are a download, an hour of FFmpeg, an upload, an S3    *)
(* delete or a commit, so that the other pass, a restart or a failing call *)
(* can come in between.                                                    *)
(***************************************************************************)
EXTENDS Naturals, FiniteSets

CONSTANTS
    Chunk,
    StemOf,        \* chunk -> its key up to the quality suffix
    TierOf,        \* chunk -> the quality suffix of its key
    Pass,          \* the passes that may run: "nightly", "manual"
    NoChunk, NoKey,
    RawDays,       \* values retention_raw_days may take
    CompressedDays,\* values retention_compressed_days may take; 0: never
    Env,           \* the environment's values, until settings override them
    MaxAge,        \* bound: age of a chunk, in days
    MaxUpdates,    \* bound: changes of the settings
    MaxS3Faults,   \* bound: failing transfers, encodings and deletes
    MaxBreaks      \* bound: failing commits and restarts of the service

Tier == {"archive", "full", "compressed"}
Stem == {StemOf[c] : c \in Chunk}
Key  == [stem : Stem, tier : Tier]

ASSUME TierAssumption == TierOf \in [Chunk -> Tier]
ASSUME NullAssumption == NoChunk \notin Chunk /\ NoKey \notin Key
ASSUME PassAssumption == "nightly" \in Pass
ASSUME DaysAssumption == /\ RawDays \subseteq Nat \ {0} /\ CompressedDays \subseteq Nat
                         /\ Env \in [raw : RawDays, compressed : CompressedDays]
ASSUME BoundAssumption == /\ MaxAge \in Nat /\ MaxUpdates \in Nat
                          /\ MaxS3Faults \in Nat /\ MaxBreaks \in Nat

VARIABLES
    rows,       \* the chunks table
    s3,         \* the bucket: key -> the chunk whose footage is under it
    age,        \* days since started_at
    settings,   \* the settings table
    pass,       \* what each pass is doing
    doomed,     \* chunks some pass has begun to expire
    disturbed,  \* history: a pass broke off, or another began beside it
    broken,     \* history: chunks a pass had in hand, between the delete of an
                \* object and the commit of the row, when it broke off
    updates, s3Faults, breaks

budgets == <<updates, s3Faults, breaks, disturbed, broken>>
vars    == <<rows, s3, age, settings, pass, doomed, disturbed, broken,
             updates, s3Faults, breaks>>

-----------------------------------------------------------------------------
Row   == [state : {"absent", "buffered", "uploaded", "deleted"},
          raw : Key \cup {NoKey},          \* s3_key
          compressed : BOOLEAN,
          ckey : Key \cup {NoKey}]         \* compressed_s3_key
NoRow == [state |-> "absent", raw |-> NoKey, compressed |-> FALSE, ckey |-> NoKey]

PassPC == {"idle", "compress", "download", "convert", "drop", "commit",
           "query", "expire", "erase", "forget"}
Idle   == [pc |-> "idle", todo |-> {}, days |-> 0, chunk |-> NoChunk, key |-> NoKey,
           cache |-> [c \in Chunk |-> NoRow]]

RawKey(c) == [stem |-> StemOf[c], tier |-> TierOf[c]]
Exists(c) == rows[c].state \in {"buffered", "uploaded"}

Init ==
    /\ rows = [c \in Chunk |-> NoRow]
    /\ s3 = [k \in Key |-> NoChunk]
    /\ age = [c \in Chunk |-> 0]
    /\ settings = Env
    /\ pass = [p \in Pass |-> Idle]
    /\ doomed = {}
    /\ disturbed = FALSE /\ broken = {} /\ updates = 0 /\ s3Faults = 0 /\ breaks = 0

S3Fault == s3Faults < MaxS3Faults /\ s3Faults' = s3Faults + 1
Break   == breaks < MaxBreaks /\ breaks' = breaks + 1
Quiet   == \A p \in Pass : pass[p].pc = "idle"

\* The chunk some pass has in hand at one of these steps.
InHand(c, pcs) == \E p \in Pass : pass[p].pc \in pcs /\ pass[p].chunk = c

-----------------------------------------------------------------------------
(* What happens around a pass: the recorder and the uploader, as the       *)
(* module ChunkStore promises; time; the settings page.                    *)

Capture(c) ==
    /\ rows[c].state = "absent"
    /\ rows' = [rows EXCEPT ![c].state = "buffered"]
    /\ UNCHANGED <<s3, age, settings, pass, doomed, budgets>>

Upload(c) ==
    /\ rows[c].state = "buffered"
    /\ rows' = [rows EXCEPT ![c] = [@ EXCEPT !.state = "uploaded", !.raw = RawKey(c)]]
    /\ s3' = [s3 EXCEPT ![RawKey(c)] = c]
    /\ UNCHANGED <<age, settings, pass, doomed, budgets>>

Age(c) ==
    /\ Exists(c) /\ age[c] < MaxAge
    /\ age' = [age EXCEPT ![c] = @ + 1]
    /\ UNCHANGED <<rows, s3, settings, pass, doomed, budgets>>

UpdatePolicy ==
    /\ updates < MaxUpdates
    /\ settings' \in [raw : RawDays, compressed : CompressedDays] \ {settings}
    /\ updates' = updates + 1
    /\ UNCHANGED <<rows, s3, age, pass, doomed, s3Faults, breaks, disturbed, broken>>

Restart ==
    /\ Break
    /\ disturbed' = (disturbed \/ ~Quiet)
    /\ broken' = broken \cup {c \in Chunk : InHand(c, {"commit", "forget"})}
    /\ pass' = [p \in Pass |-> Idle]
    /\ UNCHANGED <<rows, s3, age, settings, doomed, updates, s3Faults>>

-----------------------------------------------------------------------------
(* The session.  cache[c] is NoRow for an instance that is not loaded, or  *)
(* that a commit has expired; a query leaves a loaded instance as it is.   *)

Loaded(p, c) == pass[p].cache[c] # NoRow
Fill(p, S)   == [c \in Chunk |-> IF c \in S /\ ~Loaded(p, c) THEN rows[c] ELSE pass[p].cache[c]]
Expired      == [c \in Chunk |-> NoRow]
Seen(p, c)   == Fill(p, {c})[c]

Become(p, r)   == pass' = [pass EXCEPT ![p] = r]
Leave(p)       == Become(p, Idle)
\* Whatever failed, the loop goes on with the next chunk.
NextChunk(p)   == [pass[p] EXCEPT !.pc = "compress", !.chunk = NoChunk, !.key = NoKey]
NextExpired(p) == [pass[p] EXCEPT !.pc = "expire", !.chunk = NoChunk, !.key = NoKey]

-----------------------------------------------------------------------------
(* Step 1: compress                                                        *)

Overdue(days) == {c \in Chunk : Exists(c) /\ age[c] > days}

(* APScheduler runs one instance of the nightly job, _retention_lock lets  *)
(* one manual pass in: each pass is started when it is idle.               *)
Start(p) ==
    /\ pass[p].pc = "idle"
    /\ LET candidates == {c \in Overdue(settings.raw) :
              rows[c].state = "uploaded" /\ ~rows[c].compressed /\ rows[c].raw # NoKey}
       IN  Become(p, [Idle EXCEPT !.pc = "compress", !.todo = candidates,
                                  !.days = settings.compressed,
                                  !.cache = Fill(p, candidates)])
    /\ disturbed' = (disturbed \/ ~Quiet)
    /\ UNCHANGED <<rows, s3, age, settings, doomed, broken, updates, s3Faults, breaks>>

(* The key is read from the cached instance.  If that has to be refreshed  *)
(* and the row is gone, so is the id the handler wants to log: the pass    *)
(* ends.  Without a key the download raises at once.                       *)
Pick(p, c) ==
    /\ pass[p].pc = "compress" /\ c \in pass[p].todo
    /\ IF Seen(p, c).state = "deleted"
       THEN Leave(p)
       ELSE LET k    == Seen(p, c).raw
                next == [NextChunk(p) EXCEPT !.todo = @ \ {c}, !.cache = Fill(p, {c})]
            IN  Become(p, IF k # NoKey THEN [next EXCEPT !.pc = "download", !.chunk = c, !.key = k]
                                       ELSE next)
    /\ UNCHANGED <<rows, s3, age, settings, doomed, budgets>>

CompressDone(p) ==
    /\ pass[p].pc = "compress" /\ pass[p].todo = {}
    /\ IF pass[p].days = 0 THEN Leave(p) ELSE Become(p, [pass[p] EXCEPT !.pc = "query"])
    /\ UNCHANGED <<rows, s3, age, settings, doomed, budgets>>

(* get_object and the copy to disk; a missing object raises.               *)
Download(p) ==
    /\ pass[p].pc = "download"
    /\ Become(p, IF s3[pass[p].key] = NoChunk THEN NextChunk(p)
                                              ELSE [pass[p] EXCEPT !.pc = "convert"])
    /\ UNCHANGED <<rows, s3, age, settings, doomed, budgets>>

(* The transfer or FFmpeg fails.                                           *)
DownloadFails(p) ==
    /\ pass[p].pc = "download" /\ S3Fault
    /\ Become(p, NextChunk(p))
    /\ UNCHANGED <<rows, s3, age, settings, doomed, updates, breaks, disturbed, broken>>

MutantCompressedKey(k) == [k EXCEPT !.stem = CHOOSE s \in Stem : TRUE, !.tier = "compressed"]
CompressedKey(k) == [k EXCEPT !.tier = "compressed"]
PutCompressed(p) == s3' = [s3 EXCEPT ![CompressedKey(pass[p].key)] = pass[p].chunk]

UploadCompressed(p) ==
    /\ pass[p].pc = "convert"
    /\ PutCompressed(p)
    /\ Become(p, [pass[p] EXCEPT !.pc = "drop"])
    /\ UNCHANGED <<rows, age, settings, doomed, budgets>>

MutantOnUploadError(p) == [pass[p] EXCEPT !.pc = "drop"]
OnUploadError(p) == NextChunk(p)

UploadFails(p) ==
    /\ pass[p].pc = "convert" /\ S3Fault
    /\ PutCompressed(p) \/ UNCHANGED s3
    /\ Become(p, OnUploadError(p))
    /\ UNCHANGED <<rows, age, settings, doomed, updates, breaks, disturbed, broken>>

(* delete_object logs a failure and returns False; nobody looks.           *)
Delete(k) == \/ s3' = [s3 EXCEPT ![k] = NoChunk] /\ UNCHANGED s3Faults
             \/ UNCHANGED s3 /\ S3Fault

DropOriginal(p) ==
    /\ pass[p].pc = "drop"
    /\ Delete(pass[p].key)
    /\ Become(p, [pass[p] EXCEPT !.pc = "commit"])
    /\ UNCHANGED <<rows, age, settings, doomed, updates, breaks, disturbed, broken>>

MutantCompressedRow(row, k) == [row EXCEPT !.ckey = k, !.raw = NoKey]
CompressedRow(row, k) == [row EXCEPT !.compressed = TRUE, !.ckey = k, !.raw = NoKey]

(* An UPDATE that finds no row is a StaleDataError, which ends the pass.   *)
CommitCompressed(p) ==
    /\ pass[p].pc = "commit"
    /\ LET c == pass[p].chunk
       IN  IF Exists(c)
           THEN /\ rows' = [rows EXCEPT ![c] = CompressedRow(@, CompressedKey(pass[p].key))]
                /\ Become(p, [NextChunk(p) EXCEPT !.cache = Expired])
           ELSE Leave(p) /\ UNCHANGED rows
    /\ UNCHANGED <<s3, age, settings, doomed, budgets>>

-----------------------------------------------------------------------------
(* Step 2: expire                                                          *)

QueryExpired(p) ==
    /\ pass[p].pc = "query"
    /\ LET expired == {c \in Overdue(pass[p].days) : rows[c].compressed}
       IN  Become(p, [pass[p] EXCEPT !.pc = "expire", !.todo = expired,
                                     !.cache = Fill(p, expired)])
    /\ UNCHANGED <<rows, s3, age, settings, doomed, budgets>>

MutantExpiredKey(row) == row.raw
ExpiredKey(row) == IF row.ckey # NoKey THEN row.ckey ELSE row.raw

PickExpired(p, c) ==
    /\ pass[p].pc = "expire" /\ c \in pass[p].todo
    /\ IF Seen(p, c).state = "deleted"
       THEN Leave(p) /\ UNCHANGED doomed
       ELSE LET k == ExpiredKey(Seen(p, c))
            IN  /\ Become(p, [pass[p] EXCEPT !.pc = IF k = NoKey THEN "forget" ELSE "erase",
                                             !.todo = @ \ {c}, !.chunk = c, !.key = k,
                                             !.cache = Fill(p, {c})])
                /\ doomed' = doomed \cup {c}
    /\ UNCHANGED <<rows, s3, age, settings, budgets>>

EraseObject(p) ==
    /\ pass[p].pc = "erase"
    /\ Delete(pass[p].key)
    /\ Become(p, [pass[p] EXCEPT !.pc = "forget"])
    /\ UNCHANGED <<rows, age, settings, doomed, updates, breaks, disturbed, broken>>

(* A DELETE that finds no row is only a warning.                           *)
ForgetRow(p) ==
    /\ pass[p].pc = "forget"
    /\ rows' = [rows EXCEPT ![pass[p].chunk] = [NoRow EXCEPT !.state = "deleted"]]
    /\ Become(p, [NextExpired(p) EXCEPT !.cache = Expired])
    /\ UNCHANGED <<s3, age, settings, doomed, budgets>>

ExpireDone(p) ==
    /\ pass[p].pc = "expire" /\ pass[p].todo = {}
    /\ Leave(p)
    /\ UNCHANGED <<rows, s3, age, settings, doomed, budgets>>

(* A commit fails: the session needs a rollback nobody issues, the handler *)
(* trips over it, and the pass ends.                                       *)
CommitFails(p) ==
    /\ pass[p].pc \in {"commit", "forget"} /\ Break
    /\ disturbed' = TRUE
    /\ broken' = broken \cup {pass[p].chunk}
    /\ Leave(p)
    /\ UNCHANGED <<rows, s3, age, settings, doomed, updates, s3Faults>>

-----------------------------------------------------------------------------
Run(p) ==
    \/ CompressDone(p) \/ Download(p) \/ UploadCompressed(p)
    \/ DropOriginal(p) \/ CommitCompressed(p) \/ QueryExpired(p)
    \/ EraseObject(p) \/ ForgetRow(p) \/ ExpireDone(p)
    \/ \E c \in Chunk : Pick(p, c) \/ PickExpired(p, c)

PassStep(p) == Start(p) \/ Run(p)

Next ==
    \/ \E c \in Chunk : Capture(c) \/ Upload(c) \/ Age(c)
    \/ UpdatePolicy
    \/ \E p \in Pass : PassStep(p) \/ DownloadFails(p) \/ UploadFails(p) \/ CommitFails(p)
    \/ Restart

Spec == Init /\ [][Next]_vars

(***************************************************************************)
(* The nightly job fires again and again; a pass that has been started     *)
(* runs; days pass.  Nothing makes the operator start the manual pass.     *)
(***************************************************************************)
FairSpec ==
    /\ Spec
    /\ WF_vars(Start("nightly"))
    /\ \A p \in Pass : WF_vars(Run(p))
    /\ \A c \in Chunk : WF_vars(Age(c))

-----------------------------------------------------------------------------
(* Properties                                                              *)

(***************************************************************************)
(* Every variable has its type, an uploaded row names the original or, if  *)
(* it says so, a compressed version, and a pass that transfers has a key.  *)
(***************************************************************************)
TypeOK ==
    /\ rows \in [Chunk -> Row]
    /\ \A c \in Chunk : rows[c].state = "uploaded" =>
          /\ rows[c].compressed <=> rows[c].ckey # NoKey
          /\ rows[c].compressed <=> rows[c].raw = NoKey
    /\ s3 \in [Key -> Chunk \cup {NoChunk}]
    /\ age \in [Chunk -> 0..MaxAge]
    /\ settings \in [raw : RawDays, compressed : CompressedDays]
    /\ pass \in [Pass -> [pc : PassPC, todo : SUBSET Chunk, days : CompressedDays \cup {0},
                          chunk : Chunk \cup {NoChunk}, key : Key \cup {NoKey},
                          cache : [Chunk -> Row]]]
    /\ \A p \in Pass : pass[p].pc \in {"download", "convert", "drop", "commit", "erase"}
          => pass[p].key \in Key /\ pass[p].chunk \in Chunk
    /\ doomed \subseteq Chunk
    /\ disturbed \in BOOLEAN /\ broken \subseteq Chunk
    /\ updates \in 0..MaxUpdates /\ s3Faults \in 0..MaxS3Faults
    /\ breaks \in 0..MaxBreaks

(***************************************************************************)
(* The chunks that have their keys to themselves: none shares the stem,    *)
(* which has the time in minutes, and the original is not recorded as      *)
(* "compressed", whose compressed version takes the key of the original.   *)
(***************************************************************************)
Proper == {c \in Chunk : /\ TierOf[c] # "compressed"
                         /\ \A d \in Chunk : StemOf[d] = StemOf[c] => d = c}

\* stream_chunk plays compressed_s3_key or s3_key, and no other key.
PlayKey(row) == IF row.ckey # NoKey THEN row.ckey ELSE row.raw
Served(c)    == PlayKey(rows[c]) # NoKey /\ s3[PlayKey(rows[c])] = c
InBucket(c)  == \E k \in Key : s3[k] = c

(***************************************************************************)
(* Retention never destroys footage it has not begun to expire: the        *)
(* original or its compressed version is in the bucket.                    *)
(***************************************************************************)
StoredIsKept == \A c \in Chunk \ doomed : rows[c].state = "uploaded" => InBucket(c)

(***************************************************************************)
(* A refinement: through retention a chunk with keys of its own goes from  *)
(* buffered to stored, where playback fetches it; it may be hidden, its    *)
(* row naming a key its footage is not under; but it is in the bucket      *)
(* until a pass has begun to expire it.                                    *)
(***************************************************************************)
Place(c) == CASE c \in doomed                                -> "expired"
              [] c \notin doomed /\ rows[c].state = "buffered" -> "buffered"
              [] c \notin doomed /\ rows[c].state = "uploaded" /\ Served(c) -> "stored"
              [] c \notin doomed /\ rows[c].state = "uploaded" /\ ~Served(c) /\ InBucket(c)
                                                            -> "hidden"
              [] OTHER                                      -> "nowhere"

Store == INSTANCE ChunkStore WITH Chunk <- Proper, place <- [c \in Proper |-> Place(c)]

ImplementsStore == Store!Spec

(***************************************************************************)
(* When a chunk may be hidden: the key playback picks for an uploaded row  *)
(* is that of its footage, except between the delete of the object it      *)
(* names and the commit of the row, while a pass is there or after one has *)
(* broken off there.  Whatever passes overlap, whatever S3 calls fail.     *)
(***************************************************************************)
HiddenOnlyInHand ==
    \A c \in Proper : rows[c].state = "uploaded" =>
        Served(c) \/ InHand(c, {"commit", "forget"}) \/ c \in broken

(***************************************************************************)
(* When no pass is under way, none broke off or overlapped another, and no *)
(* S3 call has failed, every object of such a chunk in the bucket is one   *)
(* that its row names: retention stores nothing it will never find again.  *)
(***************************************************************************)
NoOrphans == Quiet /\ ~disturbed /\ s3Faults = 0 => \A k \in Key : s3[k] \in Proper =>
                Exists(s3[k]) /\ k \in {rows[s3[k]].raw, rows[s3[k]].ckey}

(***************************************************************************)
(* A chunk past the raw retention window gets compressed, and later may    *)
(* go, unless a pass broke off when it had deleted its original and not    *)
(* yet committed its row; whatever passes overlap, whatever fails.         *)
(***************************************************************************)
AgedIsCompressed ==
    \A c \in Proper : (rows[c].state = "uploaded" /\ age[c] = MaxAge)
                        ~> (rows[c].compressed \/ rows[c].state = "deleted" \/ c \in broken)
=============================================================================
