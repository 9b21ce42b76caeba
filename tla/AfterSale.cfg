SPECIFICATION Spec
CONSTANTS
    b1 = b1
    b2 = b2
    n1 = n1
    n2 = n2
    Buyers = {b1, b2}
    Nodes = {n1, n2}
    Slots = {s1, s2}
    Requests = {r1, r2}
    Me = b1
    Hook = Hook
    Clock = Clock
    NoBuyer = NoBuyer
    NoTask = NoTask
    Bins = {visa, master}
    NoBin = NoBin
    PollMax = 2
    Mounts = 3
    Plans <- MCPlans
INVARIANT
    RowTellsThePayment
    ChargesAreForCases
    OwnChangesShow
    DocumentsHaveFiles
    TokenMatchesCard
PROPERTY
    WinnerIsNotReleased
    GoesBackOnlyByOverlap
    EndSettlesGuarantees
    SubmitEnds
CHECK_DEADLOCK FALSE
