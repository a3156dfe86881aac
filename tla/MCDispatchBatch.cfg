SPECIFICATION Spec

CONSTANTS
    parcel = parcel
    ghost = ghost
    ground = ground
    air = air
    m1 = m1
    m2 = m2
    None = None
    Worker = {w1, w2}
    Message = {m1, m2}
    Shipment = {parcel}
    ShipmentOf <- SameParcel
    Unroutable = {}
    Exists <- ParcelCreated
    Lagging = {}
    Normal <- OneNormal
    Priority = air
    BatchSize = 2
    MaxReceive = 2
    MaxStops = 0

SYMMETRY PodAndMessageSymmetry

INVARIANTS
    AckedAgreement
