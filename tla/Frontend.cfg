SPECIFICATION Spec
CONSTANTS
    Groups <- MCGroups
    MaxSurfaces = 2
    MaxSignals = 1
    MaxClients = 2
    MaxImages = 2
    MaxObjects = 4
    MaxSizes = 2
    MaxInbox = 2
INVARIANTS
    DeadLeaveNothing
    FocusTold
    SelectionCurrent
    OutputsListed
    SizeCurrent
PROPERTIES
    FrameAnswered
    ScreenshotAnswered
CHECK_DEADLOCK FALSE
