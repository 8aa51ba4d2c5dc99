SPECIFICATION Spec
CONSTANTS
    Scripts <- MCScripts
    FrameMax = 4
    Chatter <- MCChatter
INVARIANTS
    IndexInStep
    FramesKept
PROPERTY
    ImplementsChannels
CHECK_DEADLOCK FALSE
