SPECIFICATION FairBuildSpec
CONSTANTS
    Attempts = {1, 2}
    Tasks = {1, 2}
    Kinds = {"oauth", "studio", "grok", "opencode", "select"}
    None = NoOne
INVARIANTS
    CodeRetriedUnanswered SavedIsReported SessionIsOwn
PROPERTIES
    NoExchangeOnceEnded NewerSignInIsKept ServerStops AppComesBack
CHECK_DEADLOCK FALSE
