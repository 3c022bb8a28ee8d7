SPECIFICATION FairSpec
CONSTANTS
    NoHandle = none
    Buffers = {b1, b2, b3, b4, b5}
    NoFrame = noFrame
    ByteSize = 256
    BufferSize = 20
    HeaderByte = 171
    EndByte = 127
    Packets <- RealPackets
    Noise <- ShortNoise
    Stale = {0, 171}
    Int8s <- MCInt8s
    Int16s <- MCInt16s
    Settings <- MCSettings
    Positions <- MCPositions
    Squeezes = {0, 40, 100}
    Sliders <- MCSliders
    MaxLag = 3
    MaxPending = 2
    MaxThreads = 3
    MaxTasks = 3
    Target = 1
    Sizes <- MCSizes
    MinDiff = 5
    Greys <- Spots
    Width = 6
    Height = 6
    Images <- MCImages
    MinPoints = 5
    MaxMaxima = 6
    MaxErr = 1
    Rings <- MCRings
    Side = 3
    Families <- MCFamilies
    Empty = empty
    Scenes <- MCScenes
INVARIANTS
    PartsTypeOK
    StartedIsWhole
    FramesUntorn
    FrameHasOneDelimiter
    RoundTrip
    ReadsInside
    CodecInv
    FieldsSurvive
    PresetOrSlider
    PressIsHeard
    LostJoystickStops
    TasksDoNotMeet
    EdgesSurvive
    SegmentsAreComponents
    BordersOnce
    BestQuadFound
    DecodesNearest
    TagsReportedOnce
PROPERTIES
    RunsAreBatches
    OverrideWins
    RunReturns
