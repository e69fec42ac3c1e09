\* Two hooks of one session, a change of what surrounds them, a fault or end of
\* the session, and time.
SPECIFICATION MCSpec
CONSTANTS
    Hook = {h1, h2}
    OptIn = {insights}
    MaxChanges = 1
    MaxFaults = 1
    MaxFailures = 5
INVARIANTS
    TypeOK
    FailClosed
PROPERTIES
    BackoffKept
    BecomesLive
