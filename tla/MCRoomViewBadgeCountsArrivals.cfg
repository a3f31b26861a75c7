SPECIFICATION ViewSpec
CONSTANTS
    Sessions = {s1, s2}
    Threads = {t1}
    Passwords = {"pw"}
    Names = {}
    SignalKinds = {}
    Bodies = {"sdp"}
    MaxParticipants = 2
    BufferSize = 2
    ResyncLimit = 2
    MaxMessages = 2
    MaxPosts = 2
    ChatUsers = {}
    None = None
PROPERTY BadgeCountsArrivals
