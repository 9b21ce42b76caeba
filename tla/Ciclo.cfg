SPECIFICATION Spec
SYMMETRY Symmetry
CONSTANTS
    Lotes = {0, 1}
    NoLote = 99
    NoKey = NoKey
    NoProc = NoProc
    Scheduler = Scheduler
    Buyers = {b1}
    Tokens = {t1}
    Workers = {w1, w2}
    Offered = {"open", "open_next", "close_sold", "close_unsold", "cancel_lote", "requeue",
               "schedule", "start", "pause", "resume", "finish", "cancel"}
    Amounts = {1}
    Bases = {1}
    BasePrice = 1
    MinIncrement = 1
    LoteTimer = 0
    Extension = 0
    Seconds = {}
    StartStatus = "DRAFT"
    MaxTime = 0
    MaxRound = 2
INVARIANT
    OneOpenLote
PROPERTY
    TableBrokenOnlyByOpenNext
