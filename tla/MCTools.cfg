SPECIFICATION FairSpec
CONSTANTS
    Width = 8
    Lines <- ShortLines
    Sizes = {0, 2}
    Gaps <- OneGap
    HeaderSize = 2
    StackSize = 5
    Elements = {1, 2, 3}
    Keys = {0, 1}
    MaxItems = 4
    StackElements = {1, 2, 3}
    Value = {17, 18}
    size = 2
    Start = 17
    NumToPush = 2
    u1 = u1
    u2 = u2
    u3 = u3
    k1 = k1
    UserThread = {u1, u2, u3}
    KernelThread = {k1}
    MaxChanges = 1
    p1 = p1
    p2 = p2
    n1 = n1
    n2 = n2
    n3 = n3
    NoSem = NoSem
    Process = {p1, p2}
    Name = {n1, n2, n3}
    MaxSemaphore = 2
    InitVals <- SomeValues
    MaxSignals = 2
    MaxWaits = 2
INVARIANTS ConversionsExact ImagesExact OwnMachine TokensExact NeverOverdrawn
PROPERTIES ImplementsItemList ImplementsLifo TokenTaken
CHECK_DEADLOCK FALSE
