SPECIFICATION FairSpec
CONSTANTS
    Machines = {1, 2}
    Threads = {t1, t2}
    Main = t1
    Boxes = {0, 1}
    MaxSends = 4
    MaxFree = 2
    MaxStarts <- MCStarts
CHECK_DEADLOCK FALSE
INVARIANTS
    DeliveryExact
    OneWakeupEach
    EndMeansBothHeard
PROPERTIES
    MailProgress
