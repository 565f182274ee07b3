SPECIFICATION FairSpec
CONSTANTS
    Hours = 24
    Settable = {0, 23}
    EnvHour = 4
    FormDefault = 2
    Offsets = {1, 2}
    NoHour = NoHour
    MaxSaves = 2
    MaxFaults = 1
    MaxCrashes = 1
    MaxShifts = 1
INVARIANT TypeOK
INVARIANT HourInForce
INVARIANT PassEveryDay
PROPERTY PassOncePerDay
PROPERTY SettingTakesEffect
