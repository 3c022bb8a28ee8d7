SPECIFICATION AgeSpec
CONSTANTS
    Stations = {s1}
    Ai = ai
    Unset = unset
    Wheels = {halt, go}
    Halt = halt
    Tools = {idle, dig}
    Idle = idle
    DriveTimeout = 1
    AiTimeout = 0
    Started <- RunThreads
INVARIANTS StopsWhenSilent AiModeIsQuiet SettlesOnLastDrive
           FailSafeInv FreshDrivePasses
PROPERTY DeadManSpec
