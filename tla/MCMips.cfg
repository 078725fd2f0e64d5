SPECIFICATION Spec
CONSTANTS
    W = 12
    MaxTicks = 4
    GPR <- MCGPR
    Codes <- MCCodes
    Starts <- MCStarts
    Memories <- MCMemories
    Results <- MCResults
PROPERTIES
    Simulates
    ProductExact
CHECK_DEADLOCK FALSE
