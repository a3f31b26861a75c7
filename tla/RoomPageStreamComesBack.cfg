SPECIFICATION FairPageSpec
CONSTANTS
    MaxAttempts = 3
    MaxEvents = 1
    MaxDrops = 1
    MaxRestarts = 1
PROPERTY
    StreamComesBack
CHECK_DEADLOCK FALSE
