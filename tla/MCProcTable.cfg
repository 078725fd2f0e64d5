SPECIFICATION FairSpec
CONSTANTS
    p0 = p0
    p1 = p1
    p2 = p2
    scheduler = scheduler
    ping = ping
    pong = pong
    Proc = {p0, p1, p2}
    Main = p0
    MaxProcess = 3
    Prog = {scheduler, ping, pong}
    Scheduler = scheduler
    MaxExec = 2
    NoProc = NoProc
    NoProg = NoProg
INVARIANTS NoCrash PidsExact JoinedHasExited
PROPERTY ChildrenReaped
CHECK_DEADLOCK FALSE
