SPECIFICATION MeshSpec
CONSTANTS
    Sessions = {1, 2}
    Threads = {}
    Passwords = {"pw"}
    Names = {}
    SignalKinds = {"offer", "answer", "ice"}
    Bodies <- MCBodies
    MaxParticipants = 2
    BufferSize = 2
    ResyncLimit = 1
    MaxMessages = 1
    MaxPosts = 0
    None = None
    Returning = {1, 2}
    MaxVisits = 2
    MaxCandidates = 0
    MaxBreaks = 1
    MayFail = {"post", "op"}
INVARIANT
    NoGlare
    PagesMeet
CHECK_DEADLOCK FALSE
