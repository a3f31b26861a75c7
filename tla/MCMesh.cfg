SPECIFICATION FairMeshSpec
CONSTANTS
    Sessions = {1, 2}
    Threads = {}
    Passwords = {"pw"}
    Names = {}
    SignalKinds = {"offer", "answer", "ice"}
    Bodies <- MCBodies
    MaxParticipants = 2
    BufferSize = 2
    ResyncLimit = 1
    MaxMessages = 1
    MaxPosts = 0
    None = None
    Returning = {}
    MaxVisits = 1
    MaxCandidates = 2
    MaxBreaks = 1
    MayFail = {"op"}
INVARIANTS
    MeshTypeOK
    UndisturbedPairsLink
    SignalsWelcome
    CandidatesOnce
PROPERTY
    PairsConnect
CHECK_DEADLOCK FALSE
