SPECIFICATION Spec
CONSTANTS
    l1 = l1
    l2 = l2
    Lotes = {l1, l2}
    Workers = {w1, w2}
    Expiry = Expiry
    Lifecycle = Lifecycle
    EndsAt = 2
    MaxTime = 4
    NoLote = NoLote
    NoProc = NoProc
    Plans <- MCPlans
INVARIANT
    ClockFollowsTheRemate
    NothingStaysPending
    AdjudicatedAsBid
    FinishedHasNoOpenLote
PROPERTY
    AutomaticStepsAreCurrent
    OnlyAShortExtensionHurries
    LiveRemateEnds
