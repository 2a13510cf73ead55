SPECIFICATION CarefulSpec
CONSTANTS
    MaxFrames = 9
    None = None
    Surfaces = {s1, s2, s3}
    Floats = {s1, s2, s3}
    Satellites = {}
    Titles = {1, 2}
    Displays = {1, 2}
    Geometries = {"stacked", "horizontal"}
    Commands = {"manage", "unmanage", "click", "focus_history", "dock", "drag", "anchorize", "create_display", "focus_workspace", "jump_to_workspace", "dive_to_workspace"}
    OverflowChecks = FALSE
VIEW View
SYMMETRY Symmetry
INVARIANTS HandlersGoOn NamesUnique HistoryOK DisplaysCurrent PublishedCurrent
PROPERTY FocusedWorkspaceSole
CHECK_DEADLOCK FALSE
