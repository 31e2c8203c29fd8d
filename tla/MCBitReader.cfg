SPECIFICATION Spec
CONSTANTS
    BytesPerWord = 2
    BitsPerByte = 2
    Capacity = 2
    Wrap = 16
    Streams <- MCStreams
    RawLengths = {1, 3}
    LongLengths = {5}
    SkipLengths = {0, 5}
    BlockLengths = {1, 3}
    LimitLengths = {2, 3}
    SeekPoints = {1}
    MaxScribble = 1
INVARIANTS
    BufferHoldsStream
    BufferNeverTooSmall
    LimitRespected
PROPERTIES
    ImplementsBitStream
