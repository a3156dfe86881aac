SPECIFICATION Spec

CONSTANTS
    Replica = {r1, r2}
    Request = {q1, q2}
    sampleId = sampleId
    freeId = freeId
    ground = ground
    air = air
    None = None
    Carrier = {ground, air}
    Id <- MCId
    SampleData <- MCSampleData
    Update <- MCUpdate
    MaxAttempts = 2
    ConsistentRead = FALSE

SYMMETRY ActorSymmetry

INVARIANTS
    TypeOK
    RecordsCoherent
    NoSilentLoss
    AllocatedApart
    SeedCovers
    IInv
