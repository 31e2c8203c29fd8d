SPECIFICATION Spec
CONSTANTS
    Blocksize = 2
    BitsPerSample = 2
    LooseFrames = 3
    NoFramesize = 9
    FrameSizes = {1, 2}
    Encodes <- MCEncodes
INVARIANTS TypeOK Lossless VerifyIsQuiet FileIsTheStream ErrorsAreReported LooseIsSticky ProgressIsTrue
PROPERTIES EndsInSuccess
