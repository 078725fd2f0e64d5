SPECIFICATION FairSpec
CONSTANTS
    t1 = t1
    t2 = t2
    t3 = t3
    lock = lock
    io = io
    disk = disk
    keyboard = keyboard
    Thread = {t1, t2, t3}
    Main = t1
    Sem = {lock, io}
    InitialValue <- LockAndIo
    Device = {disk, keyboard}
    DeviceSem <- BothDone
    Polled = {keyboard}
    MaxValue = 2
    NoThread = NoThread
    NoSem = NoSem
INVARIANTS ThreadsInPlace NoLostWakeup
PROPERTIES ReadyRuns ImplementsFairContract
CHECK_DEADLOCK FALSE
