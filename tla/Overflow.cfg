SPECIFICATION TimedSpec
CONSTANTS
    r1 = r1  r2 = r2  r3 = r3
    Record = {r1, r2}
    Refused = {r1}
    Interval = 1
    Slow = 1
    Base = 1
    Cap = 4
    Limit = 1
    Overflow = 2
    MaxCount = 3
    MaxEdits = 1
    MaxFaults = 0
INVARIANTS
    FailureIsContained
