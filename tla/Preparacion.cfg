SPECIFICATION Spec
CONSTANTS
    p1 = p1
    p2 = p2
    Tabs = {p1, p2}
    Slots = {s1, s2}
    Page = p1
    Nobody = Nobody
    Plans <- MCPlans
INVARIANT
    NeverCompetesWithItself
    OneTabOneSession
    TiesOnlyByOverlap
    ListShowsTheCatalogue
PROPERTY
    NoPhotoIsLost
    ComesToRest
CHECK_DEADLOCK FALSE
