SPECIFICATION FairPageSpec
CONSTANTS
    MaxAttempts = 5
    MaxEvents = 3
    MaxDrops = 1
    MaxRestarts = 1
INVARIANTS
    PageTypeOK
    OneJoinAtATime
    NothingLeftBehind
    OneStreamPerVisit
    EventsOnceInOrder
PROPERTIES
    CameraGoesOut
    MeshGetsBuilt
CHECK_DEADLOCK FALSE
