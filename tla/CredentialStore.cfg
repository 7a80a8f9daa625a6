SPECIFICATION Spec
CONSTANTS
    Owner = owner
    Readers = {r1}
    MaxVersion = 3
    Generations = {g1, g2, g3}
    ChunkCount = 2
    OldService = TRUE
    MigratesLocked = TRUE
    None = None
SYMMETRY Interchangeable
INVARIANTS
    NoOrphanChunks
PROPERTIES
    IsRegister
