SPECIFICATION Spec
CONSTANTS
    l1 = l1
    l2 = l2
    Lotes = {l1, l2}
    NoLote = NoLote
    NoCache = NoCache
    Plans <- MCPlans
INVARIANT
    CompleteViewIsCurrent
    CompleteListIsCurrent
    AnnouncedBidStands
    LeaderIsNotTaunted
PROPERTY
    OutbidsHimselfOnPurpose
    WinnerIsCongratulated
    ReturnsToTheRoom
CHECK_DEADLOCK FALSE
