SPECIFICATION Spec
CONSTANTS
    MaxFrames = 6
    None = None
    Surfaces = {s1, s2}
    Floats = {s1, s2}
    Satellites = {}
    Titles = {1, 2}
    Displays = {1}
    Geometries = {"stacked", "horizontal"}
    Commands = {"manage", "focus_workspace", "jump_to_workspace"}
    OverflowChecks = FALSE
INVARIANT NoPanic
CHECK_DEADLOCK FALSE
