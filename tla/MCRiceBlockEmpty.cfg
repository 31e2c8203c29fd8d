SPECIFICATION RiceSpec
CONSTANTS
    BytesPerWord = 2
    BitsPerByte = 2
    Capacity = 2
    Wrap = 16
    Streams <- MCStreams
    Parameters = {1}
    BlockSizes = {0}
INVARIANTS
    NoValueTooMany
