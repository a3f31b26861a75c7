SPECIFICATION ViewSpec
CONSTANTS
    Sessions = {s1, s2, s3}
    Threads = {t1}
    Passwords = {"pw", "other"}
    Names = {}
    SignalKinds = {"offer"}
    Bodies = {"sdp"}
    MaxParticipants = 2
    BufferSize = 1
    ResyncLimit = 1
    MaxMessages = 1
    MaxPosts = 1
    ChatUsers = {}
    None = None
SYMMETRY Symmetry
INVARIANTS
    TypeOK
    RoomCapacity
    AddressedSignals
    MutualPresence
    RosterSound
PROPERTIES
    AnnouncedListening
    ImplementsContract
