SPECIFICATION FairSpec
CONSTANTS
    t1 = t1
    t2 = t2
    Thread = {t1, t2}
    WriteLengths = {0, 2}
    ReadLengths = {1, 2}
    Typings <- Lines
INVARIANTS PutWhenFree InputExact
PROPERTIES LinesDisplayed ConsoleProgress
CHECK_DEADLOCK FALSE
