\* Two publishers, a channel of one frame, a replay of one row.
SPECIFICATION EventFairSpec
CONSTANTS
    Pubs = {agent, handler}
    Buffer = 1
    ReplayLimit = 1
    MaxRows = 3
    MaxQuiet = 1
    MaxFaults = 1
INVARIANTS
    EventTypeOK
    ScreenInOrder
PROPERTIES
    FollowsConversation
    AnnouncedIsShown
CHECK_DEADLOCK FALSE
