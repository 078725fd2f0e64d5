SPECIFICATION FairSpec
CONSTANTS
    NULL = NULL
    NoFile = NoFile
    File = {"input.txt", "output.txt", "sinhvien.txt", "voinuoc.txt"}
    NumSlots = 15
    MaxId = 9
    Inputs <- MCInputs
INVARIANT OneWorking
PROPERTY Solved
CHECK_DEADLOCK FALSE
