------------------------------ MODULE Nightly -------------------------------
(***************************************************************************)
(* The hour of the nightly retention pass: the setting compression_hour,   *)
(* the page that edits it (app/api/__init__.py), the cron job registered   *)
(* at boot and the hourly job that moves it (app/recorder/scheduler.py).   *)
(*                                                                         *)
(* Time passes in hours.  At the full hour the cron job may be due; later  *)
(* in the hour, at the minute the service was booted, the hourly job is.   *)
(* APScheduler's job store is memory: what falls due while the service is  *)
(* down is gone.  The job of the boot runs in the scheduler's time zone,   *)
(* UTC, as the log and the README say; the hourly job replaces its trigger *)
(* by one without a zone, which runs in that of the server, daylight       *)
(* saving included.                                                        *)
(***************************************************************************)
EXTENDS Integers, FiniteSets

CONSTANTS
    Hours,       \* hours in a day
    Settable,    \* hours an operator may choose
    EnvHour,     \* COMPRESSION_SCHEDULE_HOUR
    FormDefault, \* what the page shows while the setting has no row
    Offsets,     \* hours the server's zone may be ahead of UTC in the year
    NoHour,
    MaxSaves,    \* bound: saves of the settings page
    MaxFaults,   \* bound: missed firings, failing reads and reschedules
    MaxCrashes,  \* bound: crashes of the service
    MaxShifts    \* bound: changes of the server's clock

ASSUME DayAssumption == Hours \in Nat \ {0} /\ Offsets \subseteq 0..(Hours - 1)
ASSUME HourAssumption == /\ Settable \subseteq 0..(Hours - 1)
                         /\ EnvHour \in 0..(Hours - 1) /\ FormDefault \in 0..(Hours - 1)
                         /\ NoHour \notin 0..(Hours - 1)
ASSUME BoundAssumption == MaxSaves \in Nat /\ MaxFaults \in Nat /\ MaxCrashes \in Nat
                          /\ MaxShifts \in Nat

VARIABLES
    hour,     \* the hour of the day, UTC
    ahead,    \* hours the server's zone is ahead of it at present
    due,      \* jobs that fall due in this hour and have not run
    up,
    stored,   \* the row of compression_hour
    job,      \* the trigger of the job "retention"
    current,  \* _current_retention_hour
    calm,     \* history: hours since a change (of the clock too), a fault or the boot
    since,    \* history: hours since a pass was started
    saves, faults, crashes, shifts

budgets == <<saves, faults, crashes, shifts>>
vars    == <<hour, ahead, due, up, stored, job, current, calm, since,
             saves, faults, crashes, shifts>>

Hour == 0..(Hours - 1)

-----------------------------------------------------------------------------
(* Settings                                                                *)

\* get_int("compression_hour", COMPRESSION_SCHEDULE_HOUR)
Effective == IF stored = NoHour THEN EnvHour ELSE stored

\* GET /api/system/retention falls back to a key nobody sets.
Shown == IF stored = NoHour THEN FormDefault ELSE stored

(* The page sends every field it shows, also when only another was edited. *)
Save ==
    /\ up /\ saves < MaxSaves
    /\ stored' \in Settable \cup {Shown}
    /\ saves' = saves + 1
    /\ calm' = IF Effective' = Effective THEN calm ELSE 0
    /\ UNCHANGED <<hour, ahead, due, up, job, current, since, faults, crashes, shifts>>

-----------------------------------------------------------------------------
(* The clock                                                               *)

MutantNextHour(h) == h + 1
NextHour(h) == (h + 1) % Hours

MutantLocal(h) == h + ahead
Local(h) == (h + ahead) % Hours
JobHour(h) == IF job.zone = "utc" THEN h ELSE Local(h)

Older(n) == IF n > Hours THEN n ELSE n + 1     \* bound: a day and an hour

Tick ==
    /\ due = {}
    /\ hour' = NextHour(hour)
    /\ due' = IF up THEN {"sync"} \cup {j \in {"retention"} : JobHour(hour') = job.hour}
                    ELSE {}
    /\ calm' = IF up THEN Older(calm) ELSE 0
    /\ since' = Older(since)
    /\ UNCHANGED <<ahead, up, stored, job, current, budgets>>

(* The clock of the server is put forward or back.  What a trigger in its  *)
(* zone does with an hour that is left out or comes twice is left open.    *)
Shift ==
    /\ due = {} /\ shifts < MaxShifts
    /\ ahead' \in Offsets \ {ahead}
    /\ due' \in SUBSET {j \in {"retention"} : up /\ job.zone = "local"}
    /\ calm' = 0 /\ shifts' = shifts + 1
    /\ UNCHANGED <<hour, up, stored, job, current, since, saves, faults, crashes>>

Done(j)  == due' = due \ {j}
Fault    == faults < MaxFaults /\ faults' = faults + 1 /\ calm' = 0

-----------------------------------------------------------------------------
(* Jobs                                                                    *)

(* register_jobs: the first run of the hourly job is an hour away.         *)
Boot ==
    /\ ~up
    /\ up' = TRUE
    /\ job' = [hour |-> Effective, zone |-> "utc"]
    /\ current' = NoHour
    /\ due' = {} /\ calm' = 0
    /\ UNCHANGED <<hour, ahead, stored, since, budgets>>

Crash ==
    /\ up /\ crashes < MaxCrashes
    /\ up' = FALSE /\ due' = {}
    /\ calm' = 0 /\ crashes' = crashes + 1
    /\ UNCHANGED <<hour, ahead, stored, job, current, since, saves, faults, shifts>>

Fire ==
    /\ "retention" \in due
    /\ Done("retention") /\ since' = 0
    /\ UNCHANGED <<hour, ahead, up, stored, job, current, calm, budgets>>

(* The scheduler wakes more than a second late, or the pass of the day     *)
(* before is still running: the firing is dropped.                         *)
Misfire ==
    /\ "retention" \in due
    /\ Done("retention") /\ Fault
    /\ UNCHANGED <<hour, ahead, up, stored, job, current, since, saves, crashes, shifts>>

MutantMustMove == current # NoHour /\ Effective # current
MustMove == current = NoHour \/ Effective # current

Sync ==
    /\ due = {"sync"}
    /\ IF MustMove
       THEN /\ job' = [hour |-> Effective, zone |-> "local"]
            /\ current' = Effective
       ELSE UNCHANGED <<job, current>>
    /\ Done("sync")
    /\ UNCHANGED <<hour, ahead, up, stored, calm, since, budgets>>

(* The setting cannot be read, or the trigger cannot be replaced: logged,  *)
(* and the hour is noted only after the move.                              *)
MutantNoted == Effective
Noted == current

SyncFails ==
    /\ due = {"sync"}
    /\ Done("sync") /\ Fault
    /\ current' = Noted
    /\ UNCHANGED <<hour, ahead, up, stored, job, since, saves, crashes, shifts>>

-----------------------------------------------------------------------------
Init ==
    /\ hour \in Hour /\ ahead \in Offsets /\ due = {} /\ up = FALSE
    /\ stored \in Settable \cup {NoHour}
    /\ job = [hour |-> EnvHour, zone |-> "utc"] /\ current = NoHour
    /\ calm = 0 /\ since = Hours + 1
    /\ saves = 0 /\ faults = 0 /\ crashes = 0 /\ shifts = 0

Work == Tick \/ Boot \/ Fire \/ Misfire \/ Sync \/ SyncFails
Next == Work \/ Save \/ Crash \/ Shift

Spec == Init /\ [][Next]_vars

(***************************************************************************)
(* Time passes, the scheduler runs what is due, and systemd restarts the   *)
(* service.  A fault may come instead of a run, but not for ever.          *)
(***************************************************************************)
FairSpec == Spec /\ WF_vars(Work) /\ WF_vars(Boot)

-----------------------------------------------------------------------------
(* Properties                                                              *)

(***************************************************************************)
(* Every variable has its type.                                            *)
(***************************************************************************)
TypeOK ==
    /\ hour \in Hour /\ ahead \in Offsets /\ due \subseteq {"sync", "retention"} /\ up \in BOOLEAN
    /\ stored \in Hour \cup {NoHour}
    /\ job \in [hour : Hour, zone : {"utc", "local"}]
    /\ current \in Hour \cup {NoHour}
    /\ calm \in 0..(Hours + 1) /\ since \in 0..(Hours + 1)
    /\ saves \in 0..MaxSaves /\ faults \in 0..MaxFaults /\ crashes \in 0..MaxCrashes
    /\ shifts \in 0..MaxShifts

(***************************************************************************)
(* Once the hourly job has run after the last change of the setting, fault *)
(* or boot, the retention job stands at the hour that is set.              *)
(***************************************************************************)
HourInForce == calm >= 1 /\ "sync" \notin due => job.hour = Effective

(***************************************************************************)
(* A calm day and hour has a pass, however often the job was moved before. *)
(* A dropped firing and a change of the server's clock end the calm.       *)
(***************************************************************************)
PassEveryDay == calm > Hours => since < Hours \/ "retention" \in due

(***************************************************************************)
(* From then on no pass starts within a day of another, and each starts at *)
(* the hour that is set, on the clock of the trigger.  That clock is not   *)
(* always the one the scheduler's log and the README name: it is UTC only  *)
(* until the hourly job has run (scheduler.py:224).                        *)
(***************************************************************************)
PassOncePerDay ==
    [][Fire /\ calm > Hours => since >= Hours /\ JobHour(hour) = Effective]_vars

(***************************************************************************)
(* Whatever fails meanwhile, a new hour takes effect in the end.           *)
(***************************************************************************)
SettingTakesEffect ==
    \A h \in Settable : (stored = h) ~> (stored # h \/ (up /\ job.hour = h))
=============================================================================
