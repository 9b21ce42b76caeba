SPECIFICATION Spec
SYMMETRY Symmetry
CONSTANTS
    Lotes = {0}
    NoLote = 99
    NoKey = NoKey
    NoProc = NoProc
    Scheduler = Scheduler
    Buyers = {b1, b2, b3}
    Tokens = {t1}
    Workers = {w1, w2}
    Offered = {"bid", "open", "close_sold", "close_unsold", "requeue"}
    Amounts = {1, 2, 3}
    Bases = {1, 2}
    BasePrice = 1
    MinIncrement = 1
    LoteTimer = 0
    Extension = 0
    Seconds = {}
    StartStatus = "LIVE"
    MaxTime = 0
    MaxRound = 2
INVARIANTS
    OneLeader
    SoldAtLeastBase
PROPERTIES
    OfertasAreHistory
    KeepsItsBook
