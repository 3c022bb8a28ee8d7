SPECIFICATION FairSpec
CONSTANTS
    HeaderLen = 2
    ImageLen = 2
    FirstRead = 3
    DefaultSize = 2
    Window = 2
    Asked = {0, 1}
    MaxConns = 2
    MaxQueue = 2
INVARIANTS
    ShownIsItsImage
    NewestStaysOpen
PROPERTIES
    SendReturns
    ListenerEnds
