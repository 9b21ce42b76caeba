SPECIFICATION Spec
SYMMETRY Symmetry
CONSTANTS
    Lotes = {0}
    NoLote = 99
    NoKey = NoKey
    NoProc = NoProc
    Scheduler = Scheduler
    Buyers = {b1}
    Tokens = {t1}
    Workers = {w1, w2}
    Offered = {"open", "timer_pause", "timer_reset"}
    Amounts = {1}
    Bases = {1}
    BasePrice = 1
    MinIncrement = 1
    LoteTimer = 1
    Extension = 0
    Seconds = {}
    StartStatus = "LIVE"
    MaxTime = 1
    MaxRound = 1
INVARIANT
    RunsOrIsPaused
