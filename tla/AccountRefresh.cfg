SPECIFICATION FairSpec
CONSTANTS
    Accounts = {a1}
    Calls = {c1, c2}
    Ops = {o1}
    Locks = {l1, l2}
    Permits = 1
    MaxToken = 2
    NoLock = NoLock
    Nobody = Nobody
INVARIANTS
    OneHolder
    NoRetiredTokenPresented
    SavedTokenUsable
    NoOrphanSecret
PROPERTIES
    EveryCallReturns
