CONSTANTS
    IntMin <- MCIntMin
    IntMax = 31
    Refused = Refused
    Absent = Absent
    Malformed = Malformed
    Settings <- MCSettings
    Commented <- MCCommented
    MaxSettings = 3
    MaxOverrides = 1
SPECIFICATION ConfigurationSpec
INVARIANTS
    ReadsBack
    ValidatedRunStarts
    NoDaughterIsLost
    OverridesCount
CHECK_DEADLOCK FALSE
