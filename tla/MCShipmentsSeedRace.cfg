SPECIFICATION Spec

CONSTANTS
    Replica = {r1, r2}
    Request = {q1}
    sampleId = sampleId
    freeId = freeId
    ground = ground
    air = air
    None = None
    Carrier = {ground, air}
    Id <- MCOneId
    SampleData <- MCSampleData
    Update <- MCOneUpdate
    MaxAttempts = 2
    ConsistentRead = TRUE

INVARIANTS
    SeedKeepsUpdates
