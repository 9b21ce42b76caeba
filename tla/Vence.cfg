SPECIFICATION FairSpec
CONSTANTS
    Lotes = {0}
    NoLote = 99
    NoKey = NoKey
    NoProc = NoProc
    Scheduler = Scheduler
    Buyers = {b1}
    Tokens = {t1}
    Workers = {w1, w2}
    Offered = {"bid", "open", "close_unsold", "requeue", "pause", "resume", "timer_auto"}
    Amounts = {1}
    Bases = {1, 2}
    BasePrice = 1
    MinIncrement = 1
    LoteTimer = 1
    Extension = 0
    Seconds = {}
    StartStatus = "LIVE"
    MaxTime = 1
    MaxRound = 2
PROPERTY
    OverdueLoteIsClosed
