---------------------------- MODULE NightlyProofs ---------------------------
(***************************************************************************)
(* Theorems of Nightly, for days of any length, any hours, any offsets of  *)
(* the server's zone and any number of changes and faults: the type        *)
(* invariant, that the job stands at the hour that is set, and that a calm *)
(* day has one pass.                                                       *)
(***************************************************************************)
EXTENDS Nightly, TLAPS

USE DEF vars, budgets

(***************************************************************************)
(* The hours of a day, with and without the offset of a zone.              *)
(***************************************************************************)
LEMMA HourType ==
  /\ \A h \in Hour : NextHour(h) \in Hour
  /\ EnvHour \in Hour /\ FormDefault \in Hour /\ Settable \subseteq Hour
<1>1. ASSUME NEW h \in Hour PROVE NextHour(h) \in Hour
  BY <1>1, DayAssumption DEF NextHour, Hour
<1> QED BY <1>1, HourAssumption DEF Hour

(***************************************************************************)
(* A setting that is shown or in effect is an hour.                        *)
(***************************************************************************)
LEMMA EffectiveType == stored \in Hour \cup {NoHour} => Effective \in Hour /\ Shown \in Hour
  BY HourType DEF Effective, Shown

(***************************************************************************)
(* Every variable has its type at first.                                   *)
(***************************************************************************)
LEMMA TypeInit == Init => TypeOK
<1> SUFFICES ASSUME Init PROVE TypeOK
  OBVIOUS
<1>1. calm \in 0..(Hours + 1) /\ since \in 0..(Hours + 1)
  BY DayAssumption DEF Init
<1>2. saves \in 0..MaxSaves /\ faults \in 0..MaxFaults /\ crashes \in 0..MaxCrashes
  BY BoundAssumption DEF Init
<1>5. shifts \in 0..MaxShifts
  BY BoundAssumption DEF Init
<1>3. hour \in Hour /\ ahead \in Offsets /\ stored \in Hour \cup {NoHour} /\ current \in Hour \cup {NoHour}
      /\ job \in [hour : Hour, zone : {"utc", "local"}]
  BY HourType DEF Init
<1>4. due \subseteq {"sync", "retention"} /\ up \in BOOLEAN
  BY DEF Init
<1> QED BY <1>1, <1>2, <1>3, <1>4, <1>5 DEF TypeOK

Counts == /\ calm \in 0..(Hours + 1) /\ since \in 0..(Hours + 1)
          /\ saves \in 0..MaxSaves /\ faults \in 0..MaxFaults /\ crashes \in 0..MaxCrashes
          /\ shifts \in 0..MaxShifts

Settings == /\ hour \in Hour /\ ahead \in Offsets /\ stored \in Hour \cup {NoHour} /\ current \in Hour \cup {NoHour}
            /\ job \in [hour : Hour, zone : {"utc", "local"}]

Flags == due \subseteq {"sync", "retention"} /\ up \in BOOLEAN

(***************************************************************************)
(* Every step keeps the counters, the hours and the flags well-typed.      *)
(***************************************************************************)
LEMMA CountsStep == Counts /\ [Next]_vars => Counts'
<1> SUFFICES ASSUME Counts, [Next]_vars PROVE Counts'
  OBVIOUS
<1> USE DayAssumption, BoundAssumption DEF Counts
<1>1. CASE Tick
  BY <1>1 DEF Tick, Older
<1>2. CASE Save
  BY <1>2 DEF Save
<1>3. CASE Boot \/ Fire \/ Sync
  BY <1>3 DEF Boot, Fire, Sync
<1>4. CASE Misfire \/ SyncFails
  BY <1>4 DEF Misfire, SyncFails, Fault
<1>5. CASE Crash
  BY <1>5 DEF Crash
<1>6. CASE UNCHANGED vars
  BY <1>6
<1>7. CASE Shift
  BY <1>7 DEF Shift
<1> QED BY <1>1, <1>2, <1>3, <1>4, <1>5, <1>6, <1>7 DEF Next, Work

(***************************************************************************)
(* The setting, the trigger and the noted hour stay hours.                 *)
(***************************************************************************)
LEMMA SettingsStep == Settings /\ [Next]_vars => Settings'
<1> SUFFICES ASSUME Settings, [Next]_vars PROVE Settings'
  OBVIOUS
<1> USE HourType, EffectiveType DEF Settings
<1>1. CASE Tick
  BY <1>1 DEF Tick
<1>2. CASE Save
  BY <1>2 DEF Save
<1>3. CASE Boot \/ Crash \/ Fire \/ Misfire
  BY <1>3 DEF Boot, Crash, Fire, Misfire
<1>4. CASE Sync \/ SyncFails
  BY <1>4 DEF Sync, SyncFails, Noted
<1>5. CASE UNCHANGED vars
  BY <1>5
<1>6. CASE Shift
  BY <1>6 DEF Shift
<1> QED BY <1>1, <1>2, <1>3, <1>4, <1>5, <1>6 DEF Next, Work

(***************************************************************************)
(* What is due stays a set of jobs.                                        *)
(***************************************************************************)
LEMMA FlagsStep == Flags /\ [Next]_vars => Flags'
<1> SUFFICES ASSUME Flags, [Next]_vars PROVE Flags'
  OBVIOUS
<1> USE DEF Flags
<1>1. CASE Tick
  BY <1>1 DEF Tick
<1>2. CASE Save \/ Boot \/ Crash \/ UNCHANGED vars
  BY <1>2 DEF Save, Boot, Crash
<1>3. CASE Fire \/ Misfire \/ Sync \/ SyncFails
  BY <1>3 DEF Fire, Misfire, Sync, SyncFails, Done
<1>4. CASE Shift
  BY <1>4 DEF Shift
<1> QED BY <1>1, <1>2, <1>3, <1>4 DEF Next, Work

(***************************************************************************)
(* Every variable keeps its type.                                          *)
(***************************************************************************)
THEOREM TypeCorrect == Spec => []TypeOK
<1>1. TypeOK <=> Counts /\ Settings /\ Flags
  BY DEF TypeOK, Counts, Settings, Flags
<1>2. TypeOK /\ [Next]_vars => TypeOK'
  BY <1>1, CountsStep, SettingsStep, FlagsStep DEF TypeOK, Counts, Settings, Flags
<1> QED
  BY <1>2, TypeInit, PTL DEF Spec

-----------------------------------------------------------------------------
\* The hour the hourly job remembers is that of the trigger it set.
Agreed == current # NoHour => job.hour = current

(***************************************************************************)
(* Every step keeps trigger and memory together and, in a calm hour after  *)
(* the hourly job, the trigger at the hour that is set.                    *)
(***************************************************************************)
LEMMA AgreedStep == TypeOK /\ Agreed /\ HourInForce /\ [Next]_vars => Agreed' /\ HourInForce'
<1> SUFFICES ASSUME TypeOK, Agreed, HourInForce, [Next]_vars PROVE Agreed' /\ HourInForce'
  OBVIOUS
<1> USE DEF Agreed, HourInForce, Effective
<1>1. CASE Tick
  <2>1. Agreed'
    BY <1>1 DEF Tick
  <2>2. CASE up
    BY <1>1, <2>1, <2>2 DEF Tick
  <2>3. CASE ~up
    BY <1>1, <2>1, <2>3 DEF Tick
  <2> QED BY <2>2, <2>3
<1>2. CASE Save
  BY <1>2 DEF Save
<1>3. CASE Boot \/ Crash
  BY <1>3 DEF Boot, Crash
<1>4. CASE Fire
  BY <1>4 DEF Fire, Done
<1>5. CASE Misfire \/ SyncFails
  BY <1>5 DEF Misfire, SyncFails, Fault, Noted
<1>6. CASE Sync
  <2>1. Agreed' /\ job'.hour = Effective
    BY <1>6 DEF Sync, MustMove
  <2> QED BY <1>6, <2>1 DEF Sync
<1>7. CASE UNCHANGED vars
  BY <1>7
<1>8. CASE Shift
  BY <1>8 DEF Shift
<1> QED BY <1>1, <1>2, <1>3, <1>4, <1>5, <1>6, <1>7, <1>8 DEF Next, Work

(***************************************************************************)
(* In a calm hour, once the hourly job has run, the retention job stands   *)
(* at the hour that is set, whatever changes, faults and crashes preceded. *)
(***************************************************************************)
THEOREM InForce == Spec => []HourInForce
<1>1. Init => Agreed /\ HourInForce
  BY DEF Init, Agreed, HourInForce
<1> QED
  BY <1>1, TypeCorrect, AgreedStep, PTL DEF Spec

-----------------------------------------------------------------------------
(* Once a day                                                              *)

\* Hours that the clock of the server is past the hour that is set.
Past == LET gap == Local(hour) - Effective IN IF gap >= 0 THEN gap ELSE gap + Hours

\* In calm hours the trigger runs by the clock of the server.
Moved ==
    /\ current # NoHour => job.hour = current /\ job.zone = "local"
    /\ calm >= 1 /\ "sync" \notin due => job.hour = Effective /\ job.zone = "local"
    /\ calm >= 2 => job.hour = Effective /\ job.zone = "local"

\* The hour that is set has come up since the trigger was put there.
AtMost == calm >= Past + 2 => since <= Past \/ "retention" \in due

\* A pass of the calm hours was started at the hour that is set.
AtLeast == calm >= 2 =>
    IF "retention" \in due THEN Past = 0 /\ (since >= Hours \/ since >= calm - 1)
                           ELSE since >= Past \/ since >= calm - 1

Daily == TypeOK /\ Moved /\ AtMost /\ AtLeast

(***************************************************************************)
(* Subtracting the modulus once.                                           *)
(***************************************************************************)
LEMMA Wrap ==
  ASSUME NEW m \in Nat \ {0}, NEW a \in 0..(2 * m - 1)
  PROVE  a % m = IF a < m THEN a ELSE a - m
OBVIOUS

(***************************************************************************)
(* The clock of the server goes on by an hour, or starts over.             *)
(***************************************************************************)
LEMMA LocalNext ==
  ASSUME TypeOK, NEW h \in Hour
  PROVE  /\ Local(h) \in Hour
         /\ Local(NextHour(h)) = IF Local(h) = Hours - 1 THEN 0 ELSE Local(h) + 1
<1>1. /\ h \in Nat /\ h < Hours /\ ahead \in Nat /\ ahead < Hours
      /\ Hours \in Nat \ {0}
  BY DayAssumption DEF Hour, TypeOK
<1>2. NextHour(h) = IF h + 1 < Hours THEN h + 1 ELSE 0
  <2>1. h + 1 \in 0..(2 * Hours - 1)
    BY <1>1
  <2>2. (h + 1) % Hours = IF h + 1 < Hours THEN h + 1 ELSE (h + 1) - Hours
    BY <1>1, <2>1, Wrap
  <2> QED BY <1>1, <2>2 DEF NextHour
<1>3. \A g \in Hour : Local(g) = IF g + ahead < Hours THEN g + ahead ELSE g + ahead - Hours
  <2> SUFFICES ASSUME NEW g \in Hour
               PROVE  Local(g) = IF g + ahead < Hours THEN g + ahead ELSE g + ahead - Hours
    OBVIOUS
  <2>1. g + ahead \in 0..(2 * Hours - 1)
    BY <1>1 DEF Hour
  <2>2. (g + ahead) % Hours = IF g + ahead < Hours THEN g + ahead ELSE (g + ahead) - Hours
    BY <1>1, <2>1, Wrap
  <2> QED BY <1>1, <2>1, <2>2 DEF Local, Hour
<1>4. NextHour(h) \in Hour
  BY HourType
<1> QED BY <1>1, <1>2, <1>3, <1>4 DEF Hour

(***************************************************************************)
(* While the setting stays, the next hour is one further past it, or it.   *)
(***************************************************************************)
LEMMA PastNext ==
  ASSUME TypeOK
  PROVE  /\ Past \in Hour /\ (Past = 0 <=> Local(hour) = Effective)
         /\ hour' = NextHour(hour) /\ UNCHANGED <<ahead, stored>> =>
               Past' = IF Past = Hours - 1 THEN 0 ELSE Past + 1
<1>1. Local(hour) \in Hour /\ Effective \in Hour /\ Hours \in Nat \ {0}
  BY LocalNext, EffectiveType, DayAssumption DEF TypeOK
<1>2. Past \in Hour /\ (Past = 0 <=> Local(hour) = Effective)
  BY <1>1 DEF Past, Hour
<1>3. ASSUME hour' = NextHour(hour), UNCHANGED <<ahead, stored>>
      PROVE  Past' = IF Past = Hours - 1 THEN 0 ELSE Past + 1
  <2>1. Effective' = Effective
    BY <1>3 DEF Effective
  <2>2. Local(hour)' = IF Local(hour) = Hours - 1 THEN 0 ELSE Local(hour) + 1
    BY <1>3, LocalNext DEF TypeOK, Local
  <2>3. Past' = IF Local(hour)' - Effective >= 0 THEN Local(hour)' - Effective
                ELSE Local(hour)' - Effective + Hours
    BY <2>1 DEF Past, Local
  <2> QED BY <1>1, <2>2, <2>3 DEF Past, Hour
<1> QED BY <1>2, <1>3

(***************************************************************************)
(* A step that keeps the hour and the setting keeps what is past of it.    *)
(***************************************************************************)
LEMMA PastKept == UNCHANGED <<hour, ahead, stored>> => Past' = Past /\ Effective' = Effective
  BY DEF Past, Local, Effective

(***************************************************************************)
(* Every step keeps the trigger of calm hours in place.                    *)
(***************************************************************************)
LEMMA MovedStep == TypeOK /\ Moved /\ [Next]_vars => Moved'
<1> SUFFICES ASSUME TypeOK, Moved, [Next]_vars PROVE Moved'
  OBVIOUS
<1>0. calm \in 0..(Hours + 1) /\ due \subseteq {"sync", "retention"} /\ Hours \in Nat \ {0}
      /\ job \in [hour : Hour, zone : {"utc", "local"}]
  BY DayAssumption DEF TypeOK
<1> USE DEF Moved
<1>1. CASE Tick
  <2>1. /\ Effective' = Effective /\ job' = job /\ current' = current /\ due = {}
        /\ calm' = IF up THEN Older(calm) ELSE 0
        /\ up => "sync" \in due'
    BY <1>1 DEF Tick, Effective
  <2>2. /\ calm' >= 1 => "sync" \in due'
        /\ calm' >= 2 => calm >= 1
    BY <1>0, <2>1 DEF Older
  <2> QED BY <2>1, <2>2
<1>2. CASE Save
  BY <1>0, <1>2 DEF Save
<1>3. CASE Boot \/ Crash
  BY <1>3 DEF Boot, Crash
<1>4. CASE Fire
  BY <1>0, <1>4, PastKept DEF Fire, Done
<1>5. CASE Misfire \/ SyncFails
  BY <1>5 DEF Misfire, SyncFails, Fault, Noted
<1>6. CASE Sync
  <2>1. /\ job'.hour = Effective /\ job'.zone = "local"
        /\ current' # NoHour => job'.hour = current' /\ job'.zone = "local"
    BY <1>6, HourType, EffectiveType DEF Sync, MustMove, TypeOK
  <2> QED BY <1>6, <2>1, PastKept DEF Sync
<1>7. CASE UNCHANGED vars
  BY <1>7, PastKept
<1>8. CASE Shift
  BY <1>8 DEF Shift
<1> QED BY <1>1, <1>2, <1>3, <1>4, <1>5, <1>6, <1>7, <1>8 DEF Next, Work

(***************************************************************************)
(* The next hour: a pass is due in it just if it is the one that is set,   *)
(* and otherwise the last pass is an hour further back.                    *)
(***************************************************************************)
LEMMA DailyTick == ASSUME Daily, Tick PROVE AtMost' /\ AtLeast'
<1>0. /\ calm \in 0..(Hours + 1) /\ since \in 0..(Hours + 1) /\ Hours \in Nat \ {0}
      /\ Past \in Hour /\ Past' = IF Past = Hours - 1 THEN 0 ELSE Past + 1
  BY PastNext, DayAssumption DEF Daily, TypeOK, Tick
<1>1. /\ due = {} /\ since' = Older(since) /\ calm' = IF up THEN Older(calm) ELSE 0
      /\ UNCHANGED <<ahead, stored, job>> /\ hour' = NextHour(hour)
      /\ up => ("retention" \in due' <=> JobHour(hour') = job.hour)
  BY DEF Tick
<1>2. calm >= 1 => job.hour = Effective /\ job.zone = "local"
  BY <1>1 DEF Daily, Moved
<1>3. up /\ calm >= 1 => ("retention" \in due' <=> Past' = 0)
  <2>1. TypeOK'
    <3>1. TypeOK /\ [Next]_vars
      BY DEF Daily, Next, Work
    <3> QED BY <3>1, CountsStep, SettingsStep, FlagsStep DEF TypeOK, Counts, Settings, Flags
  <2>2. Past' = 0 <=> Local(hour') = Effective
    <3>1. (TypeOK => (Past = 0 <=> Local(hour) = Effective))'
      BY PastNext, PTL
    <3>2. Local(hour)' = Local(hour') /\ Effective' = Effective
      BY <1>1 DEF Local, Effective
    <3> QED BY <2>1, <3>1, <3>2
  <2> QED BY <1>1, <1>2, <2>2 DEF JobHour
<1>4. /\ calm >= Past + 2 => since <= Past
      /\ calm >= 2 => since >= Past \/ since >= calm - 1
  BY <1>1 DEF Daily, AtMost, AtLeast
<1>5. /\ calm' >= 2 => up /\ calm >= 1 /\ calm' = IF calm = Hours + 1 THEN calm ELSE calm + 1
      /\ since' = IF since = Hours + 1 THEN since ELSE since + 1
      /\ calm' \in Nat
  BY <1>0, <1>1 DEF Older
<1>6. AtMost'
  <2> SUFFICES ASSUME calm' >= Past' + 2, "retention" \notin due' PROVE since' <= Past'
    BY DEF AtMost
  <2>1. calm >= 1 /\ up /\ Past' # 0
    BY <1>0, <1>3, <1>5 DEF Hour
  <2>2. Past' = Past + 1 /\ Past \in Nat /\ Past < Hours - 1
    BY <1>0, <2>1 DEF Hour
  <2>3. calm >= Past + 2
    BY <1>0, <1>5, <2>1, <2>2
  <2> QED BY <1>0, <1>4, <1>5, <2>2, <2>3
<1>7. AtLeast'
  <2> SUFFICES ASSUME calm' >= 2
               PROVE  IF "retention" \in due'
                      THEN Past' = 0 /\ (since' >= Hours \/ since' >= calm' - 1)
                      ELSE since' >= Past' \/ since' >= calm' - 1
    BY DEF AtLeast
  <2>1. calm >= 1 /\ ("retention" \in due' <=> Past' = 0)
    BY <1>3, <1>5
  <2>2. /\ calm' = IF calm = Hours + 1 THEN calm ELSE calm + 1
        /\ since' = IF since = Hours + 1 THEN since ELSE since + 1
    BY <1>5, Zenon
  <2>3. /\ calm \in 0..(Hours + 1) /\ since \in 0..(Hours + 1) /\ Hours \in Nat \ {0}
        /\ Past' = IF Past = Hours - 1 THEN 0 ELSE Past + 1
    BY <1>0, Zenon
  <2>4. Past \in Nat /\ Past <= Hours - 1
    BY <1>0 DEF Hour
  <2>5. CASE calm = 1
    <3>1. since' >= calm' - 1
      BY <2>2, <2>3, <2>5
    <3> QED BY <2>1, <3>1
  <2>6. CASE calm >= 2
    <3>1. since >= Past \/ since >= calm - 1
      BY <1>4, <2>6
    <3>2. CASE Past' = 0
      <4>1. since' >= Hours \/ since' >= calm' - 1
        BY <2>2, <2>3, <2>4, <3>1, <3>2
      <4> QED BY <2>1, <3>2, <4>1
    <3>3. CASE Past' # 0
      <4>1. since' >= Past' \/ since' >= calm' - 1
        BY <2>2, <2>3, <2>4, <3>1, <3>3
      <4> QED BY <2>1, <3>3, <4>1
    <3> QED BY <3>2, <3>3
  <2> QED BY <1>0, <2>1, <2>5, <2>6
<1> QED BY <1>6, <1>7

(***************************************************************************)
(* Within the hour, a pass is started or something disturbs the calm.      *)
(***************************************************************************)
LEMMA DailyStep == Daily /\ [Next]_vars => Daily'
<1> SUFFICES ASSUME Daily, [Next]_vars PROVE Daily'
  OBVIOUS
<1>0. /\ calm \in 0..(Hours + 1) /\ since \in 0..(Hours + 1) /\ Hours \in Nat \ {0}
      /\ Past \in Hour /\ (Past = 0 <=> Local(hour) = Effective)
  BY PastNext, DayAssumption DEF Daily, TypeOK
<1>1. TypeOK'
  BY CountsStep, SettingsStep, FlagsStep DEF Daily, TypeOK, Counts, Settings, Flags
<1>2. Moved'
  BY MovedStep DEF Daily
<1>3. Past' \in Hour
  <2>1. (TypeOK => Past \in Hour)'
    BY PastNext, PTL
  <2> QED BY <1>1, <2>1
<1>4. AtMost' /\ AtLeast'
  <2>1. CASE calm' = 0
    <3>1. \A n \in Hour : ~(0 >= n + 2)
      BY <1>0 DEF Hour
    <3>2. AtMost'
      BY <1>3, <2>1, <3>1, Zenon DEF AtMost
    <3>3. AtLeast'
      BY <2>1 DEF AtLeast
    <3> QED BY <3>2, <3>3
  <2>2. CASE Tick
    BY <2>2, DailyTick
  <2>3. CASE UNCHANGED <<hour, ahead, since, calm>> /\ Effective' = Effective
             /\ ("retention" \in due' <=> "retention" \in due)
    <3>1. Past' = Past
      BY <2>3 DEF Past, Local
    <3> QED BY <2>3, <3>1 DEF Daily, AtMost, AtLeast
  <2>4. CASE Fire
    <3>1. Past' = Past /\ since' = 0 /\ calm' = calm /\ "retention" \notin due'
          /\ "retention" \in due
      BY <2>4, PastKept DEF Fire, Done
    <3> QED BY <1>0, <3>1 DEF Daily, AtMost, AtLeast, Hour
  <2>5. Save => \/ calm' = 0
                \/ Effective' = Effective /\ UNCHANGED <<hour, ahead, since, calm, due>>
    BY Zenon DEF Save
  <2>6. Boot \/ Crash \/ Misfire \/ SyncFails \/ Shift => calm' = 0
    BY DEF Boot, Crash, Misfire, SyncFails, Fault, Shift
  <2>7. Sync => /\ UNCHANGED <<hour, ahead, since, calm>> /\ Effective' = Effective
                /\ ("retention" \in due' <=> "retention" \in due)
    BY DEF Sync, Done, Effective
  <2>8. UNCHANGED vars => UNCHANGED <<hour, ahead, since, calm, due>> /\ Effective' = Effective
    BY PastKept
  <2> QED BY <2>1, <2>2, <2>3, <2>4, <2>5, <2>6, <2>7, <2>8 DEF Next, Work
<1> QED BY <1>1, <1>2, <1>4 DEF Daily

LEMMA DailyInit == Init => Daily
<1> SUFFICES ASSUME Init PROVE Daily
  OBVIOUS
<1>1. TypeOK /\ calm = 0 /\ current = NoHour
  BY TypeInit DEF Init
<1>2. Past \in Hour
  BY <1>1, PastNext
<1> QED BY <1>1, <1>2 DEF Daily, Moved, AtMost, AtLeast, Hour

(***************************************************************************)
(* After a calm day and an hour a pass has been started within the day, or *)
(* is about to: the clock of the server, in whose zone the moved trigger   *)
(* runs, has come past the hour that is set.                               *)
(***************************************************************************)
THEOREM EveryDay == Spec => []PassEveryDay
<1>1. Daily => PassEveryDay
  <2> SUFFICES ASSUME Daily, calm > Hours PROVE since < Hours \/ "retention" \in due
    BY DEF PassEveryDay
  <2>1. calm \in 0..(Hours + 1) /\ since \in 0..(Hours + 1) /\ Past \in Hour
        /\ Hours \in Nat \ {0}
    BY PastNext, DayAssumption DEF Daily, TypeOK
  <2> QED BY <2>1 DEF Daily, AtMost, Hour
<1> QED BY <1>1, DailyInit, DailyStep, PTL DEF Spec

(***************************************************************************)
(* Then no pass starts within a day of another, and each starts at the     *)
(* hour that is set, on the clock of the trigger.                          *)
(***************************************************************************)
THEOREM OncePerDay == Spec => PassOncePerDay
<1>1. Daily /\ [Next]_vars
      => [Fire /\ calm > Hours => since >= Hours /\ JobHour(hour) = Effective]_vars
  <2> SUFFICES ASSUME Daily, Fire, calm > Hours
               PROVE  since >= Hours /\ JobHour(hour) = Effective
    OBVIOUS
  <2>1. calm \in 0..(Hours + 1) /\ since \in 0..(Hours + 1) /\ Hours \in Nat \ {0}
        /\ (Past = 0 <=> Local(hour) = Effective)
    BY PastNext, DayAssumption DEF Daily, TypeOK
  <2>2. "retention" \in due
    BY DEF Fire
  <2>3. since >= Hours /\ Local(hour) = Effective /\ calm >= 2
    BY <2>1, <2>2 DEF Daily, AtLeast
  <2>4. job.zone = "local"
    BY <2>3 DEF Daily, Moved
  <2> QED BY <2>3, <2>4 DEF JobHour
<1> QED BY <1>1, DailyInit, DailyStep, PTL DEF Spec, PassOncePerDay
=============================================================================
