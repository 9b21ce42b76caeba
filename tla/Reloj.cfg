SPECIFICATION Spec
SYMMETRY Symmetry
CONSTANTS
    Lotes = {0}
    NoLote = 99
    NoKey = NoKey
    NoProc = NoProc
    Scheduler = Scheduler
    Buyers = {b1, b2}
    Tokens = {t1}
    Workers = {w1, w2}
    Offered = {"bid", "open",
               "timer_pause", "timer_resume", "timer_reset", "timer_set"}
    Amounts = {1, 2}
    Bases = {1}
    BasePrice = 1
    MinIncrement = 1
    LoteTimer = 1
    Extension = 1
    Seconds = {0}
    StartStatus = "LIVE"
    MaxTime = 2
    MaxRound = 1
INVARIANTS
    TypeOK
    LockedReadsAreCurrent
    SaleIsTheLeader
PROPERTIES
    ClockHonoursExtensions
