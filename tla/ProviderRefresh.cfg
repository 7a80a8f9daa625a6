SPECIFICATION Spec
CONSTANTS
    Providers <- MCProviders
    OpenaiRaw <- MCOpenaiRaw
    QuotaBuckets <- MCQuotaBuckets
    Models = {"m1", "m2"}
    MaxIssued = 3
    MaxPages = 2
    MaxFaults = 2
INVARIANTS
    SuspensionHasCause
    StoredIsNewest
