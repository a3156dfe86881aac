SPECIFICATION FairFleetSpec

CONSTANTS
    Replica = {r1}
    Request = {c1, u1, u2}
    Customer = {c1}
    sampleId = sampleId
    ground = ground
    air = air
    None = None
    Carrier = {ground, air}
    Id <- MCId
    SampleData <- MCSampleData
    Update <- MCUpdate
    MaxAttempts = 2
    ConsistentRead = FALSE

INVARIANTS
    FleetTypeOK
    CreatedIsThere
    NobodyForgotten
    ToldIsOnRecord
    DoneStagesAreDated

PROPERTIES
    UnknownOnlyWhileSettling
    IntakeEnds
    DrainsEnd
