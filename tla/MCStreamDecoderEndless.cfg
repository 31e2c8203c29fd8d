SPECIFICATION Spec
CONSTANTS
    BytesPerWord = 2
    BufferWords = 6
    Capacity = 50
    Wrap = 128
    Start = 64
    MinRepairSize = 2
    MaxRepairFrames = 2
    MaxRepairSamples = 6
    MaxExtraBody = 2
    MaxWritten = 8
    Inputs <- EndlessInputs
PROPERTY DecodingEnds
