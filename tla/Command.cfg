SPECIFICATION FairCommandSpec
CONSTANTS
    r1 = r1  r2 = r2  r3 = r3  r4 = r4  r5 = r5  r6 = r6
    ledger = ledger  group = group  memo = memo  ghost = ghost
    Name = {ledger, group, memo}
    Declared <- DeclaredLastFirst
    Graphs <- SomeGraphs
    Record = {r1, r2, r3, r4, r5, r6}
    EntityOf <- SixEntityOf
    Unparseable = {r5}
    Keyless = {r3}
    Mapped = {ledger, group}
    Voucher = {ledger}
    LeftQueues = {{}, {r1, r3, r6}}
    Commands = {"--full-sync", "--incremental-sync", "--resync-entity", "--process-retries", "--health-check", "serve"}
    MaxAttempts = 2
    MaxLocks = 1
INVARIANTS
    DependenciesFirst
    EachOnce
    RaisedOnlyIfStuck
    ExitZeroIsClean
    AccountedBeforeSave
    CountsAddUp
    OnlyStoreAborts
    DependenciesFetchedFirst
PROPERTIES
    StepsRunOut
    CommandEnds
    LoopDrains
CHECK_DEADLOCK FALSE
