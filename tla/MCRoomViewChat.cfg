SPECIFICATION ViewSpec
CONSTANTS
    Sessions = {s1}
    Threads = {t1, t2}
    Passwords = {"pw"}
    Names = {"ann"}
    SignalKinds = {}
    Bodies = {"sdp"}
    MaxParticipants = 1
    BufferSize = 2
    ResyncLimit = 2
    MaxMessages = 3
    MaxPosts = 5
    ChatUsers = {s1}
    None = None
SYMMETRY Symmetry
INVARIANTS
    ChatIsLatest
    ChatGapFree
    PostOrderKept
PROPERTY
    ResyncKeepsChat
