SPECIFICATION Spec
CONSTANTS
    r1 = r1  r2 = r2  r3 = r3  r4 = r4
    master = master  vouchers = vouchers  memo = memo  gone = gone
    s1 = s1  s2 = s2  svc = svc  cli = cli
    Record = {r1, r2, r3, r4}
    Entity = {master, gone}
    EntityOf <- LegacyEntityOf
    Order <- OneOrder
    Mapped = {master}
    Voucher = {}
    Unparseable = {r4}
    Keyless = {}
    Target = {s1}
    LegacyQueue <- LegacyRows
    MaxAlter = 6
    Proc = {svc}
    Service = {svc}
    Jobs <- AllButRange
    Faults = {"tally", "unreachable", "lost_ack", "rejected", "crash"}
    MaxFaults = 2
    MaxAttempts = 2
    Limit = 3
INVARIANTS
    TypeOK
    NothingLost
    CopiesOfOneRequest
