SPECIFICATION FairMeterSpec
CONSTANTS
    Peers = {p1, p2}
    Readings = {0, 60, 70}
    Similar = {60, 70}
    MaxResumeTries = 2
    None = None
INVARIANTS
    MeterTypeOK
    HolderAudible
PROPERTIES
    StageKept
    StageSettles
    GestureHeard
