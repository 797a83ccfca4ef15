CONSTANTS
    old = old
    new = new
    offline = offline
    Offline = offline
    Vehicles <- MCVehicles
    Connected <- MCConnected
    Supported <- MCSupported
    LinkKinds <- MCLinkKinds
    MaxEvents = 3
SPECIFICATION Spec
CHECK_DEADLOCK FALSE
INVARIANTS
    ConnectInOrder
    ConnectNeverStalls
    FlagsFollowJobs
PROPERTIES
    UploadsInTurn
    EditsKept
