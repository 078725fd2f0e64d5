\* A disk of two tracks of three sectors.  One sector takes three ticks to
\* pass and the clock advances by two, or to the next interrupt, so that
\* requests come at every position of the head.  The timer's intervals are long
\* enough for an interrupt of the disk to be due at the same time behind it.
SPECIFICATION DevicesSpec
CONSTANTS
    SectorsPerTrack = 3
    NumTracks = 2
    SeekTime = 2
    RotationTime = 3
    NumThreads = 3
    SystemTick = 2
    TimerTicks = 3
    MaxTicks = 8
    MaxRequests = 3
    MaxDraws = 2
INVARIANT OneRequest
PROPERTIES
    OnTime
    LatencyExact
    DevicesProgress
