SPECIFICATION Spec
CONSTANTS
    CutAt = 3
    Libraries <- MCLibraries
    Texts <- MCTexts
    Recognized <- MCRecognized
    Durations = {3, 7}
    RawMinutes <- MCRawMinutes
    MaxBlocks = 2
INVARIANTS
    OnlyTheOutdoneLeave
    WhatWasMaskedComesBack
    AnswersAreFitToShow
    AgendaFillsTheMeeting
CHECK_DEADLOCK FALSE
