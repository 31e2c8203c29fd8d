SPECIFICATION Spec
CONSTANTS
    MaxWord = 255
    Capacity = 15
    SeekEnd = 16
    Wrap = 32
    Start = 15
    ReadSize = 5
    Songs = 2
    LastLevel = 1
    HeaderBytes = 3
    BlockSamples = 2
    Data = {}
    NoData = NoData
    Disks <- MCDisks
INVARIANTS
    RegionExclusion
    CodecsSeeTheirFile
    EncoderFedTheSong
PROPERTIES
    NoReadError
    EndsAsItShould
