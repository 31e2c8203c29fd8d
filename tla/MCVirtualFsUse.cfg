SPECIFICATION Spec
CONSTANTS
    Capacity = 4
    SeekEnd = 5
    Wrap = 16
    Start = 8
    ReadSize = 2
    MaxOffset = 6
    MaxLen = 3
INVARIANTS
    TypeOK
    RegionHoldsFile
    ReadsDeliverFile
PROPERTIES
    ReadsStayInFile
