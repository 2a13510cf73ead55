SPECIFICATION Spec
CONSTANTS
    MaxFrames = 7
    None = None
    Surfaces = {s1, s2}
    Floats = {}
    Satellites = {}
    Titles = {1}
    Displays = {1}
    Geometries = {"stacked", "horizontal"}
    Commands = {"manage", "unmanage", "ramify"}
    OverflowChecks = FALSE
INVARIANT SelectionAttached
CHECK_DEADLOCK FALSE
