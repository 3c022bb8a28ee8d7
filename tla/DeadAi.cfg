SPECIFICATION FairSpec
CONSTANTS
    Stations = {s1}
    Ai = ai
    Unset = unset
    Wheels = {halt, go}
    Halt = halt
    Tools = {idle}
    Idle = idle
    DriveTimeout = 0
    AiTimeout = 1
    Started <- RunThreads
PROPERTY DeadAiReverts
