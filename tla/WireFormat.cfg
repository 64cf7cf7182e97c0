\* Frames of every form of length, in pieces, cut anywhere near their ends.
CONSTANTS
    Radix = 32
    Frames <- MCFrames
    Texts <- MCTexts
    MaxInt = 1500
    MaxFrames = 3
    MaxBytes = 30
    MaxCut = 14
SPECIFICATION WireSpec
INVARIANTS FramesReceived MessagesWhole TextsReadable
PROPERTIES AllProcessed
CHECK_DEADLOCK FALSE
