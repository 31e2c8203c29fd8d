SPECIFICATION RiceSpec
CONSTANTS
    BytesPerWord = 2
    BitsPerByte = 2
    Capacity = 2
    Wrap = 16
    Streams <- MCStreams
    Parameters = {0, 1, 2, 3}
    BlockSizes = {3}
INVARIANTS
    ValuesAreTheStream
    ReaderStandsBehindBlock
