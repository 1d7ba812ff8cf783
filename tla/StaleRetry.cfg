SPECIFICATION Spec
CONSTANTS
    r1 = r1  r2 = r2  r3 = r3  r4 = r4
    master = master  vouchers = vouchers  memo = memo  gone = gone
    s1 = s1  s2 = s2  svc = svc  cli = cli
    Record = {r1, r2}
    Entity = {master}
    EntityOf <- OneEntityOf
    Order <- OneOrder
    Mapped = {master}
    Voucher = {}
    Unparseable = {}
    Keyless = {}
    Target = {s1}
    LegacyQueue <- NoLegacy
    MaxAlter = 3
    Proc = {svc}
    Service = {svc}
    Jobs <- CycleOnly
    Faults = {"rejected"}
    MaxFaults = 2
    MaxAttempts = 1
    Limit = 2
INVARIANTS
    CurrentOrQueued
