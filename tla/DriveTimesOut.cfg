SPECIFICATION AgeSpec
CONSTANTS
    Stations = {s1}
    Ai = ai
    Unset = unset
    Wheels = {halt, go}
    Halt = halt
    Tools = {idle}
    Idle = idle
    DriveTimeout = 2
    AiTimeout = 0
    Started <- RunThreads
PROPERTY DriveTimesOut
