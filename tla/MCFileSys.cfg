SPECIFICATION SpecTest
SYMMETRY Symmetry
CONSTANTS
    UserNames = {f, g, h}
    f = f
    g = g
    h = h
    Sizes = {0, 5}
    Byte = {0, 1}
    Buffers <- MCBuffers
    Counts = {2, 4}
    Positions = {0, 2}
    SectorSize = 3
    NumSectors = 10
    NumDirEntries = 4
    NumDirect = 2
    NumSlots = 5
    UnixFiles <- MCUnixFiles
    TransferSize = 2
INVARIANTS
    SectorsExact
    WriteExact
    CopyAndPrintExact
PROPERTIES
    ImplementsFileMap
