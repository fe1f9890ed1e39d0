CONSTANTS
    Absent = Absent
    Torn = Torn
    TicksPerDay = 3
    SweepInterval = 1
    RetentionDays = 2
    MaxNow = 14
    MaxTroubles = 3
    MaxAuthAttempts = 6
SPECIFICATION MCSpec
INVARIANTS IdentityHolds NthAttemptIsAccepted
PROPERTIES LogsAreKept ProcessServes
CHECK_DEADLOCK FALSE
