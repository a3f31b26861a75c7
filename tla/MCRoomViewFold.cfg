SPECIFICATION FairViewSpec
CONSTANTS
    Sessions = {s1, s2}
    Threads = {t1}
    Passwords = {"pw"}
    Names = {}
    SignalKinds = {}
    Bodies = {"sdp"}
    MaxParticipants = 2
    BufferSize = 1
    ResyncLimit = 1
    MaxMessages = 1
    MaxPosts = 1
    ChatUsers = {s1}
    None = None
INVARIANTS
    ViewTypeOK
    UnreadCountedOnce
PROPERTIES
    PresenceConverges
    DeafStreamsEnd
