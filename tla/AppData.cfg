SPECIFICATION DataSpec
CONSTANTS
    Ids = {"a", "b"}
    Providers = {"openai"}
    Emails = {"e1", "e2"}
    ProviderIds = {"i1"}
    NoValue = NoValue
    Missing = Missing
    Broken = Broken
    MaxTombstones = 1
    MaxStamp = 1
    UI = ui
    Tasks = {t1, t2}
    Groups = {"g"}
    NoGroup = NoGroup
    Nobody = Nobody
    MaxGroups = 1
    MaxOps = 3
    MaxFaults = 1
    Earlier <- MCEarlier
    People <- MCPeople
SYMMETRY Workers
INVARIANTS ReloadKeepsAccounts
PROPERTIES TwinNeedsRace PurgeSparesAccounts RemovalForgets
