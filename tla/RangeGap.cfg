SPECIFICATION FairSpec
CONSTANTS
    r1 = r1  r2 = r2  r3 = r3  r4 = r4
    master = master  vouchers = vouchers  memo = memo  gone = gone
    s1 = s1  s2 = s2  svc = svc  cli = cli
    Record = {r1, r2}
    Entity = {vouchers}
    EntityOf <- TwoVouchersOf
    Order <- VoucherOrder
    Mapped = {vouchers}
    Voucher = {vouchers}
    Unparseable = {}
    Keyless = {}
    Target = {s1}
    LegacyQueue <- NoLegacy
    MaxAlter = 2
    Proc = {svc, cli}
    Service = {svc}
    Jobs <- CycleAndRange
    Faults = {}
    MaxFaults = 2
    MaxAttempts = 1
    Limit = 2
PROPERTIES
    EventuallyExists
