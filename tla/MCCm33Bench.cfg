CONSTANTS
    TEST_MUSIC_NUMS = 2
    MaxLevel = 1
    MaxFaults = 2
SPECIFICATION Spec
INVARIANTS FilesAreWhatTheyAreFor LogsTellTheTests 
PROPERTIES SramModeKeepsCard ComesToAnEnd
