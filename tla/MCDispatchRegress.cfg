SPECIFICATION Spec

CONSTANTS
    parcel = parcel
    ghost = ghost
    ground = ground
    air = air
    m1 = m1
    m2 = m2
    None = None
    Worker = {w1}
    Message = {m1}
    Shipment = {parcel}
    ShipmentOf <- SameParcel
    Unroutable = {}
    Exists <- ParcelDelivered
    Lagging = {}
    Normal <- OneNormal
    Priority = air
    BatchSize = 1
    MaxReceive = 2
    MaxStops = 1

PROPERTIES
    StatusAdvances
