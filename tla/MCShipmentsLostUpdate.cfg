SPECIFICATION Spec

CONSTANTS
    Replica = {r1}
    Request = {q1, q2}
    sampleId = sampleId
    freeId = freeId
    ground = ground
    air = air
    None = None
    Carrier = {ground, air}
    Id <- MCOneId
    SampleData <- MCSampleData
    Update <- MCUpdate
    MaxAttempts = 2
    ConsistentRead = TRUE

INVARIANTS
    AckedUpdateKept
