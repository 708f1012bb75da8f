SPECIFICATION ReviewSpec
CONSTANTS
    Handlers = {h1}
    Sessions = {s1}
    Persistent = {}
    Questions = 1
    MaxVersions = 1
    Reviewed = s1
    Keys = {k1, k2}
    MaxReviews = 2
INVARIANTS
    DisputeCanBeDisposed
