\* Two threads and no lock between them.
SPECIFICATION DevicesSpec
CONSTANTS
    SectorsPerTrack = 3
    NumTracks = 2
    SeekTime = 2
    RotationTime = 3
    NumThreads = 2
    SystemTick = 2
    TimerTicks = 3
    MaxTicks = 8
    MaxRequests = 3
    MaxDraws = 2
INVARIANT OneAtATime
