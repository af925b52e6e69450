\* Values of up to three pieces.
CONSTANTS
    Pieces <- NotificationsAndDebris
    MaxPieces = 3
SPECIFICATION FairSpec
INVARIANTS
    OnlyFrames
    FramesFound
PROPERTIES
    Terminates
\* The scan of a value ends.
CHECK_DEADLOCK FALSE
