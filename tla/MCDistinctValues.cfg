SPECIFICATION Spec
CONSTANTS
    CutAt = 3
    Libraries <- MCLibraries
    Texts <- MCTexts
    Recognized <- MCRecognized
    Durations = {3, 7}
    RawMinutes <- MCRawMinutes
    MaxBlocks = 2
INVARIANTS
    DistinctValuesComeBack
CHECK_DEADLOCK FALSE
