SPECIFICATION FairSpec

CONSTANTS
    parcel = parcel
    ghost = ghost
    ground = ground
    air = air
    m1 = m1
    m2 = m2
    None = None
    Worker = {w1}
    Message = {m1, m2}
    Shipment = {parcel, ghost}
    ShipmentOf <- ParcelAndGhost
    Unroutable = {m2}
    Exists <- ParcelCreated
    Lagging = {parcel}
    Normal <- OneNormal
    Priority = air
    BatchSize = 2
    MaxReceive = 2
    MaxStops = 1

INVARIANTS
    IInv

PROPERTIES
    KeepsPromise
    AcceptedSettles
