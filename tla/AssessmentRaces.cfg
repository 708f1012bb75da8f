SPECIFICATION FairReviewSpec
CONSTANTS
    Handlers = {h1, h2}
    Sessions = {s1, s2}
    Persistent = {s1}
    Questions = 1
    MaxVersions = 2
    Reviewed = s1
    Keys = {k1, k2}
    MaxReviews = 2
INVARIANTS
    ReviewTypeOK
    CompletedIsFinished
    ArchivalEndsGenerated
PROPERTIES
    AttemptsEndOnce
    FinishedIsSettled
