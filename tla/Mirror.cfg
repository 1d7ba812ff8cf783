SPECIFICATION FairSpec
CONSTANTS
    r1 = r1  r2 = r2  r3 = r3  r4 = r4
    master = master  vouchers = vouchers  memo = memo  gone = gone
    s1 = s1  s2 = s2  svc = svc  cli = cli
    Record = {r1, r2, r3}
    Entity = {master, vouchers, memo}
    EntityOf <- ThreeEntityOf
    Order <- ThreeOrder
    Mapped = {master, vouchers}
    Voucher = {vouchers}
    Unparseable = {}
    Keyless = {}
    Target = {s1}
    LegacyQueue <- NoLegacy
    MaxAlter = 3
    Proc = {svc}
    Service = {svc}
    Jobs <- CycleAndFull
    Faults = {"tally", "crash"}
    MaxFaults = 2
    MaxAttempts = 1
    Limit = 2
INVARIANTS
    Mirrored
    UnchangedIsSound
PROPERTIES
    EventuallyCurrent
    IsMirror
