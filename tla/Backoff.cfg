SPECIFICATION FairTimedSpec
CONSTANTS
    r1 = r1  r2 = r2  r3 = r3
    Record = {r1, r2, r3}
    Refused = {r1, r2}
    Interval = 1
    Slow = 1
    Base = 1
    Cap = 6
    Limit = 1
    Overflow = 9
    MaxCount = 3
    MaxEdits = 1
    MaxFaults = 1
INVARIANTS
    TimedTypeOK
    BacksOff
PROPERTIES
    GoodRowsDrain
    RefusedRowsStay
    QueueContract
